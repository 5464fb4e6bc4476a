---------------------------- MODULE ReportTools ----------------------------
(***************************************************************************)
(* The tools that answer with a report on a workbook: Detect Blanks,       *)
(* Validate Emails, Summary Stats, Compare Workbooks and Scan Formula      *)
(* Errors.  A report is modelled by the facts in it (its rows and the      *)
(* counts in the response headers), not by its layout.                     *)
(***************************************************************************)
EXTENDS Sheets

CONSTANT MaxDetail      \* rows of the detail sheet of Detect Blanks (50000)

ASSUME DetailAssumption == MaxDetail \in Nat

-----------------------------------------------------------------------------
(* Detect Blanks.                                                          *)

\* The blank cells under the header of a sheet, row by row.
BlankCells(title, rows) ==
    FlattenSeq([i \in 1..Max({0, Len(rows) - 1}) |->
        LET cells == [j \in DOMAIN rows[1] |->
                         [sheet |-> title, row |-> i + 1, column |-> j, header |-> rows[1][j].text]]
        IN  SelectSeq(cells, LAMBDA d : Blank(Cell(rows[d.row], d.column)))])

DetectBlanksAnswer(r) ==
    WithData(r, LAMBDA book :
    LET blanks(s) == BlankCells(book[s].title, book[s].rows)
        reported == SelectSeq([s \in DOMAIN book |-> s], LAMBDA s : book[s].rows # <<>>)
        all == FlattenSeq([k \in DOMAIN reported |-> blanks(reported[k])])
    IN  Done([summary |-> [k \in DOMAIN reported |->
                 [sheet |-> book[reported[k]].title,
                  cells |-> Len(book[reported[k]].rows[1]) * (Len(book[reported[k]].rows) - 1),
                  blanks |-> Len(blanks(reported[k]))]],
              detail |-> CutTo(all, MaxDetail),
              total |-> Len(all),
              affected |-> Cardinality({s \in ToSet(reported) : blanks(s) # <<>>})]))

DetectBlanks == Asked("detect-blanks") /\ Reply(DetectBlanksAnswer(request))

-----------------------------------------------------------------------------
(* Validate Emails.                                                        *)

\* _EMAIL_RE after strip().
IsEmail(t) == Strip(t) = <<"a@b.co">>

Status(c) == IF Blank(c) THEN "Empty" ELSE IF IsEmail(c.text) THEN "Valid" ELSE "Invalid"

\* Variant for a mutation: the status goes behind the last cell of the row.
StatusBehindRow(row, header, status) == Append(row, Str(<<status>>))

\* The status goes under its header, over a cell of a row that is too long.
WithStatus(row, header, status) ==
    [j \in 1..Max({Len(row), Len(header) + 1}) |->
        IF j = Len(header) + 1 THEN Str(<<status>>) ELSE Cell(row, j)]

ValidateEmailsAnswer(r) ==
    WithData(r, LAMBDA book :
    OnSheet(book, r.sheet, LAMBDA s :
    LET rows == book[s].rows
        col == Min(ColumnsNamed(rows[1], r.column))
        status(i) == Status(Cell(rows[i], col))
        count(v) == Cardinality({i \in 2..Len(rows) : status(i) = v})
        name(j) == Or(rows[1][j].text, IF rows[1][j] = None THEN <<"Col", ToString(j)>> ELSE <<>>)
    IN  Require(Len(rows) >= 2, 400,
        Require(ColumnsNamed(rows[1], r.column) # {}, 400,
        Done([rows |-> [i \in DOMAIN rows |->
                  IF i = 1 THEN [j \in 1..(Len(rows[1]) + 1) |->
                                    IF j \in DOMAIN rows[1] THEN Str(name(j)) ELSE Str(<<"Email Status">>)]
                  ELSE WithStatus(rows[i], rows[1], status(i))],
              valid |-> count("Valid"), invalid |-> count("Invalid"), empty |-> count("Empty")])))))

ValidateEmails == Asked("validate-emails") /\ Reply(ValidateEmailsAnswer(request))

-----------------------------------------------------------------------------
(* Summary Stats.  Mean, median and deviation are left to Python.          *)

\* float(c): numbers, booleans, and text that is a number.
IsNumeric(c) == c.kind \in {"number", "bool"} \/ c = Str(<<"2">>)
Value(c) == IF IsText(c) THEN 2 ELSE c.num

ColumnStats(rows, j) ==
    LET cells == [i \in 1..(Len(rows) - 1) |-> Cell(rows[i + 1], j)]
        nums == SelectSeq(cells, IsNumeric)
        values == [k \in DOMAIN nums |-> Value(nums[k])]
    IN  [column |-> j, count |-> Len(nums),
         min |-> Min(Range(values)), max |-> Max(Range(values)), sum |-> FoldLeft(+, 0, values),
         blanks |-> Len(SelectSeq(cells, Blank))]

\* The columns with at least one number.
NumericColumns(rows) ==
    SelectSeq([j \in DOMAIN rows[1] |-> j], LAMBDA j : \E i \in 2..Len(rows) : IsNumeric(Cell(rows[i], j)))

SummaryStatsAnswer(r) ==
    WithData(r, LAMBDA book :
    LET columns(rows) == IF Len(rows) < 2 THEN <<>> ELSE NumericColumns(rows)
        analyzed == SelectSeq(book, LAMBDA sheet : columns(sheet.rows) # <<>>)
        stats(rows) == [k \in DOMAIN columns(rows) |-> ColumnStats(rows, columns(rows)[k])]
        tabs == [n \in DOMAIN analyzed |->
                    [title |-> CutTo(analyzed[n].title, MaxTitle), stats |-> stats(analyzed[n].rows)]]
    IN  Done([tabs |-> IF tabs = <<>> THEN << [title |-> <<"No Data">>, stats |-> <<>>] >> ELSE tabs,
              sheets |-> Len(analyzed),
              columns |-> FoldLeft(LAMBDA n, sheet : n + Len(columns(sheet.rows)), 0, analyzed)]))

SummaryStats == Asked("summary-stats") /\ Reply(SummaryStatsAnswer(request))

-----------------------------------------------------------------------------
(* Compare Workbooks.                                                      *)

\* _read_sheet_data: what a cell shows and what is in it, for cells that are
\* not empty.
SheetData(rows) ==
    LET at(p) == rows[p[1]][p[2]]
        cells == UNION {{<<i, j>> : j \in DOMAIN rows[i]} : i \in DOMAIN rows}
        full == {p \in cells : Saved(at(p)) # None \/ EditValue(at(p)).text # <<>>}
    IN  [p \in full |-> <<Saved(at(p)).text, EditValue(at(p)).text>>]

\* Variant for a mutation: only what a cell shows is compared.
ChangesShown(a, b) ==
    {[at |-> p, type |-> "Modified", old |-> a[p], new |-> b[p]] :
        p \in {p \in DOMAIN a \cap DOMAIN b : a[p][1] # b[p][1]}}
    \cup {[at |-> p, type |-> "Removed", old |-> a[p], new |-> <<<<>>, <<>>>>] : p \in DOMAIN a \ DOMAIN b}
    \cup {[at |-> p, type |-> "Added", old |-> <<<<>>, <<>>>>, new |-> b[p]] : p \in DOMAIN b \ DOMAIN a}

Changes(a, b) ==
    {[at |-> p, type |-> "Modified", old |-> a[p], new |-> b[p]] :
        p \in {p \in DOMAIN a \cap DOMAIN b : a[p] # b[p]}}
    \cup {[at |-> p, type |-> "Removed", old |-> a[p], new |-> <<<<>>, <<>>>>] : p \in DOMAIN a \ DOMAIN b}
    \cup {[at |-> p, type |-> "Added", old |-> <<<<>>, <<>>>>, new |-> b[p]] : p \in DOMAIN b \ DOMAIN a}

Rows(book, title) == (CHOOSE s \in ToSet(book) : s.title = title).rows
TitleSet(book) == {s.title : s \in ToSet(book)}

\* openpyxl opens the zip formats it knows and nothing else.
Opens(file) == file.genuine /\ file.ext \in OpenpyxlExtensions

\* The tabs of the sheets that differ, one after the other: a title is made
\* unique among those given so far and then created beside the sheet "Sheet" that
\* a new workbook has.  (The code sorts the names; here they come as in the first
\* workbook.)
DiffTitles(names) ==
    LET kept == {<<"Summary">>, <<"How to">>}
        unique == FoldLeft(LAMBDA done, t :
                      Append(done, UniqueSheetTitle(CutTo(t, MaxTitle), kept \cup ToSet(done))), <<>>, names)
    IN  FoldLeft(LAMBDA done, t : Append(done, FreeTitle({<<"Sheet">>} \cup ToSet(done), t)), <<>>, unique)

\* "Sheet" is titled "Summary" last: with a tab of that name in another case it
\* becomes Summary1, and move_sheet("Summary") does not find it (an error 500).
CompareWorkbooksAnswer(r) ==
    LET a == r.fileA.book
        b == r.fileB.book
        common == TitleSet(a) \cap TitleSet(b)
        changes(t) == Changes(SheetData(Rows(a, t)), SheetData(Rows(b, t)))
        modified == SelectSeq(Titles(a), LAMBDA t : t \in common /\ changes(t) # {})
        titles == DiffTitles(modified)
    IN  Require(r.fileA.ext \in Supported /\ r.fileB.ext \in Supported, 400,
        Require(\A f \in {r.fileA, r.fileB} : f.size <= MaxUploadBytes(r.principal), 413,
        Require(Opens(r.fileA) /\ Opens(r.fileB), 400,
        Require(FreeTitle(ToSet(titles), <<"Summary">>) = <<"Summary">>, 500,
        Done([added |-> TitleSet(b) \ TitleSet(a), removed |-> TitleSet(a) \ TitleSet(b),
              tabs |-> {[title |-> titles[k], sheet |-> modified[k], changes |-> changes(modified[k])] :
                           k \in DOMAIN modified},
              total |-> MapThenSumSet(LAMBDA t : Cardinality(changes(t)), ToSet(modified))])))))

CompareWorkbooks == Asked("compare-workbooks") /\ Reply(CompareWorkbooksAnswer(request))

-----------------------------------------------------------------------------
(* Scan Formula Errors.                                                    *)

FormulaErrors == {<<"#REF!">>, <<"#N/A">>}

\* The cells of a sheet that show an error, row by row, with what is in them.
ErrorCells(title, rows) ==
    FlattenSeq([i \in DOMAIN rows |->
        LET cells == [j \in DOMAIN rows[i] |->
                         [sheet |-> title, at |-> <<i, j>>, error |-> Saved(rows[i][j]).text,
                          formula |-> EditValue(rows[i][j]).text]]
        IN  SelectSeq(cells, LAMBDA d : d.error \in FormulaErrors)])

ScanFormulaErrorsAnswer(r) ==
    LET book == r.file.book
        details == FlattenSeq([s \in DOMAIN book |-> ErrorCells(book[s].title, book[s].rows)])
        types == {d.error : d \in ToSet(details)}
    IN  Gate(r.file, r.principal,
        Require(Opens(r.file), 400,
        Done([details |-> details, total |-> Len(details), noErrors |-> details = <<>>,
              breakdown |-> [e \in types |-> Len(SelectSeq(details, LAMBDA d : d.error = e))],
              sheets |-> [e \in types |-> {d.sheet : d \in {d \in ToSet(details) : d.error = e}}]])))

ScanFormulaErrors == Asked("scan-formula-errors") /\ Reply(ScanFormulaErrorsAnswer(request))

ReportNext == DetectBlanks \/ ValidateEmails \/ SummaryStats \/ CompareWorkbooks \/ ScanFormulaErrors

-----------------------------------------------------------------------------
(* Properties.                                                             *)

ReportSource(r) == MapBook(r.file.book, LAMBDA rows : ReadRows(r.file.ext, rows))

\* Detect Blanks: the total counts every cell under a header that shows nothing,
\* once, the cells that a short row lacks included; the detail names each of
\* them, up to its length; the sheets affected are those that have one; and the
\* sheets of the summary add up to the total.
EveryBlankIsCounted ==
    Answered("detect-blanks") =>
        LET book == ReportSource(request)
            res == answer.result
            blanks == UNION {UNION {{[sheet |-> book[s].title, row |-> i, column |-> j, header |-> book[s].rows[1][j].text] :
                                 j \in {j \in DOMAIN book[s].rows[1] :
                                          j \in DOMAIN book[s].rows[i] =>
                                              ToSet(book[s].rows[i][j].text) \subseteq {" "}}}
                             : i \in 2..Len(book[s].rows)} : s \in DOMAIN book}
        IN  /\ res.total = Cardinality(blanks)
            /\ IsInjective(res.detail) /\ ToSet(res.detail) \subseteq blanks
            /\ Len(res.detail) = Min({MaxDetail, res.total})
            /\ res.affected = Cardinality({d.sheet : d \in blanks})
            /\ FoldLeft(LAMBDA n, line : n + line.blanks, 0, res.summary) = res.total
            /\ \A line \in ToSet(res.summary) : line.blanks <= line.cells

\* Validate Emails: every data row gets one status, in the column "Email Status",
\* the three counts are the numbers of rows with each status, and every other
\* cell is where it was.  A row longer than the header loses the cell in that
\* column, and no other.
EveryRowGetsItsStatus ==
    Answered("validate-emails") =>
        LET src == SelectSeq(ReportSource(request), LAMBDA s : s.title = request.sheet)[1].rows
            res == answer.result
            last == Len(src[1]) + 1
            having(v) == Cardinality({i \in 2..Len(src) : res.rows[i][last] = Str(<<v>>)})
            column == Min(ColumnsNamed(src[1], request.column))
        IN  /\ Len(res.rows) = Len(src) /\ res.rows[1][last] = Str(<<"Email Status">>)
            /\ <<res.valid, res.invalid, res.empty>> = <<having("Valid"), having("Invalid"), having("Empty")>>
            /\ res.valid + res.invalid + res.empty = Len(src) - 1
            /\ \A i \in 2..Len(src) :
                  /\ \A j \in DOMAIN src[i] \ {last} : res.rows[i][j] = src[i][j]
                  /\ (res.rows[i][last] = Str(<<"Valid">>))
                       <=> (column \in DOMAIN src[i] /\ Strip(src[i][column].text) = <<"a@b.co">>)

\* Summary Stats: a column is reported, under its sheet, exactly if it has a
\* number; every cell of it is a number, a blank, or neither, and is counted
\* accordingly; the sum lies between what the smallest and the largest allow;
\* and the response headers count the tabs and the columns in them.
StatsAddUp ==
    Answered("summary-stats") =>
        LET book == ReportSource(request)
            res == answer.result
            tabs == {t \in ToSet(res.tabs) : t.stats # <<>>}
            number(c) == c.kind \in {"number", "bool"} \/ (IsText(c) /\ Strip(c.text) = <<"2">>)
        IN  /\ res.sheets = Cardinality(tabs)
            /\ res.columns = MapThenSumSet(LAMBDA t : Len(t.stats), tabs)
            /\ \A s \in DOMAIN book : \A j \in 1..Width(SubSeq(book[s].rows, 1, 1)) :
                  LET column == {[row |-> i, cell |-> Cell(book[s].rows[i], j)] : i \in 2..Len(book[s].rows)}
                      nums == {c \in column : number(c.cell)}
                      lines == {l \in UNION {ToSet(t.stats) : t \in {t \in tabs : t.title = book[s].title}} :
                                   l.column = j}
                  IN  /\ nums = {} <=> lines = {}
                      /\ \A l \in lines :
                            /\ Cardinality(lines) = 1 /\ l.count = Cardinality(nums)
                            /\ l.count * l.min <= l.sum /\ l.sum <= l.count * l.max
                            /\ l.blanks = Cardinality({c \in column : ToSet(c.cell.text) \subseteq {" "}})

\* Compare Workbooks: the changes listed for a sheet, done to the original, give
\* the modified sheet, each cell is listed once with its kind of change, and a
\* sheet that both workbooks have is listed exactly if it differs.  (Two cells
\* are the same if they show the same text and hold the same formula text: the
\* number 1 and the text 1 are not told apart.)
TheDiffIsThePatch ==
    Answered("compare-workbooks") =>
        LET res == answer.result
            a == request.fileA.book
            b == request.fileB.book
        IN  /\ TitleSet(b) = (TitleSet(a) \ res.removed) \cup res.added
            /\ \A x, y \in res.tabs : x.sheet = y.sheet \/ Folded(x.title) # Folded(y.title)
            /\ res.total = MapThenSumSet(LAMBDA x : Cardinality(x.changes), res.tabs)
            /\ \A t \in TitleSet(a) \cap TitleSet(b) :
                  LET from == SheetData(Rows(a, t))
                      to == SheetData(Rows(b, t))
                      listed == UNION {x.changes : x \in {x \in res.tabs : x.sheet = t}}
                      gone == {c.at : c \in {c \in listed : c.type = "Removed"}}
                      set == {c \in listed : c.type # "Removed"}
                      value(p) == IF \E c \in set : c.at = p THEN (CHOOSE c \in set : c.at = p).new ELSE from[p]
                  IN  /\ to = [p \in (DOMAIN from \ gone) \cup {c.at : c \in set} |-> value(p)]
                      /\ \A c, d \in listed : c.at = d.at => c = d
                      /\ \A c \in listed : (c.type = "Added") <=> c.at \notin DOMAIN from
                      /\ from = to <=> \A x \in res.tabs : x.sheet # t

\* Scan Formula Errors: a cell is listed, once, exactly if it shows one of the
\* error values, whether a formula or a constant put it there, with the formula
\* in it; the counts by error add up to the total, and "no errors" says so.
EveryErrorIsListedOnce ==
    Answered("scan-formula-errors") =>
        LET book == request.file.book
            res == answer.result
            shown(c) == IF c.kind = "formula" THEN IF c.num = 9 THEN <<"#REF!">> ELSE <<>> ELSE c.text
            wrong == UNION {UNION {{<<book[s].title, i, j>> :
                                j \in {j \in DOMAIN book[s].rows[i] : shown(book[s].rows[i][j]) \in {<<"#REF!">>, <<"#N/A">>}}}
                             : i \in DOMAIN book[s].rows} : s \in DOMAIN book}
        IN  /\ Len(res.details) = Cardinality(wrong)
            /\ {<<d.sheet, d.at[1], d.at[2]>> : d \in ToSet(res.details)} = wrong
            /\ MapThenSumSet(LAMBDA e : res.breakdown[e], DOMAIN res.breakdown) = res.total
            /\ \A e \in DOMAIN res.breakdown : res.sheets[e] # {} /\ Cardinality(res.sheets[e]) <= res.breakdown[e]
            /\ res.noErrors <=> wrong = {}

\* The numbers of a report are those of the cells it reports on.
ReportInv ==
    TheDiffIsThePatch /\ EveryBlankIsCounted /\ EveryRowGetsItsStatus /\ StatsAddUp /\ EveryErrorIsListedOnce
=============================================================================
