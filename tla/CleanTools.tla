----------------------------- MODULE CleanTools -----------------------------
(***************************************************************************)
(* Trim Spaces, Find and Replace, Normalize Case, Remove Duplicates and    *)
(* Remove Empty Rows.  Each exists twice: a workbook that openpyxl can     *)
(* edit is changed in place, an .xls or .xlsb is read as data and written  *)
(* anew.                                                                   *)
(***************************************************************************)
EXTENDS Sheets

Upper == "a" :> "A" @@ "b" :> "B"
LowerOf(x) == IF x \in Range(Upper) THEN CHOOSE l \in DOMAIN Upper : Upper[l] = x ELSE x
UpperOf(x) == IF x \in DOMAIN Upper THEN Upper[x] ELSE x
IsWord(x) == x \in DOMAIN Upper \cup Range(Upper) \cup {"1"}

-----------------------------------------------------------------------------
(* The three tools that rewrite text.  A text tool is given by what it does *)
(* to a text.                                                              *)

Collapsed(t) ==
    FoldLeft(LAMBDA out, x : IF x = " " /\ out # <<>> /\ Last(out) = " " THEN out ELSE Append(out, x),
             <<>>, t)

Trimmed(t, collapse) == IF collapse THEN Collapsed(Strip(t)) ELSE Strip(t)

\* re.sub of an escaped text or a one-token pattern; "." matches any token.
Replaced(t, find, with, regex, matchCase) ==
    LET same(x) == \/ regex /\ find = "."
                   \/ x = find
                   \/ ~matchCase /\ LowerOf(x) = LowerOf(find)
    IN  FlattenSeq([i \in DOMAIN t |-> IF same(t[i]) THEN with ELSE <<t[i]>>])

\* _title_case: the first of every run of letters and digits up, the rest down.
TitleCase(t) ==
    [i \in DOMAIN t |-> IF i > 1 /\ IsWord(t[i - 1]) THEN LowerOf(t[i]) ELSE UpperOf(t[i])]

\* _normalizer.
Normalized(t, mode) ==
    CASE mode = "lower" -> [i \in DOMAIN t |-> LowerOf(t[i])]
      [] mode = "upper" -> [i \in DOMAIN t |-> UpperOf(t[i])]
      [] mode = "title" -> TitleCase(t)

\* What the tool of a request does to a text.
Rewritten(r, t) ==
    CASE r.tool = "trim-spaces"    -> Trimmed(t, r.collapse)
      [] r.tool = "find-replace"   -> Replaced(t, r.find, r.with, r.regex, r.matchCase)
      [] r.tool = "normalize-case" -> Normalized(t, r.mode)

\* Only the text cells of the columns, a column as often as it is listed.
RewriteRow(r, row, columns) ==
    FoldLeft(LAMBDA out, j : IF j \in DOMAIN out /\ IsText(out[j])
                             THEN [out EXCEPT ![j] = Str(Rewritten(r, @.text))] ELSE out, row, columns)

RewriteRows(r, rows, columns) ==
    [i \in DOMAIN rows |-> IF i = 1 THEN rows[1] ELSE RewriteRow(r, rows[i], columns)]

\* The chosen sheets with their new rows; a sheet without data rows is skipped.
OnSheets(book, targets, rows) ==
    [s \in DOMAIN book |-> IF s \in targets /\ Len(book[s].rows) > 1
                           THEN [book[s] EXCEPT !.rows = rows[s]] ELSE book[s]]

\* apply_value_mutation_inplace.
RewriteInPlace(r) ==
    LET selected == NamesIn(r.columns)
        columns(rows) == EditColumns(rows[1], selected)
    IN  Then(LoadForEdit(r.file), LAMBDA book :
        Then(TargetSheets(book, r), LAMBDA targets :
        Require(\A s \in targets :
                    (Len(book[s].rows) > 1 /\ selected # <<>> /\ ~r.allSheets) =>
                        columns(book[s].rows) # <<>>, 400,
        Done([book |-> OnSheets(book, targets, [s \in targets |->
                            RewriteRows(r, book[s].rows, columns(book[s].rows))]),
              visualsLost |-> VisualElementsLost(r.file) \/ HasVisualElements(r.file)]))))

\* The other path of the three handlers.  A column that a sheet lacks is an
\* error, except that Trim Spaces on all sheets skips it.
RewriteData(r) ==
    LET selected == NamesIn(r.columns)
        lenient == r.tool = "trim-spaces" /\ r.allSheets
    IN  Then(ParseExcelBytes(r.file), LAMBDA book :
        Then(TargetSheets(book, r), LAMBDA targets :
        Require(\A s \in targets :
                    (Len(book[s].rows) > 1 /\ ~lenient) => AllFound(book[s].rows[1], selected), 400,
        Done([book |-> WorkbookFromData(OnSheets(book, targets, [s \in targets |->
                            RewriteRows(r, book[s].rows, DataColumns(book[s].rows[1], selected))])),
              visualsLost |-> HasVisualElements(r.file)]))))

Rewrite(r) == IF SupportsInplaceEdit(r.file) THEN RewriteInPlace(r) ELSE RewriteData(r)

TrimSpacesAnswer(r) == Gate(r.file, r.principal, Rewrite(r))

FindReplaceAnswer(r) ==
    Gate(r.file, r.principal,
    Require(r.find # "", 400,
    Require(r.regex => r.find # "(", 400,
    Rewrite(r))))

NormalizeCaseAnswer(r) ==
    Gate(r.file, r.principal,
    Require(r.mode \in {"lower", "upper", "title"}, 400,
    Rewrite(r)))

TrimSpaces == Asked("trim-spaces") /\ Reply(TrimSpacesAnswer(request))
FindReplace == Asked("find-replace") /\ Reply(FindReplaceAnswer(request))
NormalizeCase == Asked("normalize-case") /\ Reply(NormalizeCaseAnswer(request))

-----------------------------------------------------------------------------
(* The two tools that remove rows.                                         *)

RowKey(row, columns) ==
    IF columns = <<>> THEN [j \in DOMAIN row |-> Key(row[j])]
    ELSE [k \in DOMAIN columns |-> Key(Cell(row, columns[k]))]

\* The header and the data rows to keep.
KeepRows(rows, keep) ==
    LET kept == SelectSeq([i \in DOMAIN rows |-> i], LAMBDA i : i = 1 \/ i \in keep)
    IN  [k \in DOMAIN kept |-> rows[kept[k]]]

\* Variant for a mutation: a row is a duplicate of the row next to it only.
DedupeNeighbours(rows, columns, keep) ==
    KeepRows(rows, {i \in 2..Len(rows) :
        ~\E k \in 2..Len(rows) : /\ (IF keep = "first" THEN k = i - 1 ELSE k = i + 1)
                                 /\ RowKey(rows[k], columns) = RowKey(rows[i], columns)})

\* The rows whose key was not seen before, in the order of "keep".
Dedupe(rows, columns, keep) ==
    KeepRows(rows, {i \in 2..Len(rows) :
        ~\E k \in 2..Len(rows) : /\ (IF keep = "first" THEN k < i ELSE k > i)
                                 /\ RowKey(rows[k], columns) = RowKey(rows[i], columns)})

\* In place nothing asks whether a selected column exists: a sheet with none of
\* them is deduplicated by whole rows.
RemoveDuplicatesAnswer(r) ==
    LET selected == NamesIn(r.columns)
        inPlace(book) ==
            Then(TargetSheets(book, r), LAMBDA targets :
            Done([book |-> OnSheets(book, targets, [s \in targets |->
                                Dedupe(book[s].rows, EditColumns(book[s].rows[1], selected), r.keep)]),
                  visualsLost |-> VisualElementsLost(r.file) \/ HasVisualElements(r.file)]))
        anew(book) ==
            Then(TargetSheets(book, r), LAMBDA targets :
            Require(\A s \in targets :
                        Len(book[s].rows) > 1 => AllFound(book[s].rows[1], selected), 400,
            Done([book |-> WorkbookFromData(OnSheets(book, targets, [s \in targets |->
                                Dedupe(book[s].rows, DataColumns(book[s].rows[1], selected), r.keep)])),
                  visualsLost |-> HasVisualElements(r.file)])))
    IN  Gate(r.file, r.principal,
        Require(r.keep \in {"first", "last"}, 400,
        IF SupportsInplaceEdit(r.file) THEN Then(LoadForEdit(r.file), inPlace)
        ELSE Then(ParseExcelBytes(r.file), anew)))

RemoveDuplicates == Asked("remove-duplicates") /\ Reply(RemoveDuplicatesAnswer(request))

EmptyRow(row) == \A j \in DOMAIN row : Blank(row[j])

DropEmptyRows(rows) == KeepRows(rows, {i \in 2..Len(rows) : ~EmptyRow(rows[i])})

\* Sheets that the workbook does not have are ignored.  A selection of blank
\* names is no sheet in place and every sheet otherwise.
RemoveEmptyRowsAnswer(r) ==
    LET selected == ToSet(NamesIn(r.sheets))
        named(book) == {s \in DOMAIN book : book[s].title \in selected}
        result(book, targets, Write(_), lost) ==
            LET kept == OnSheets(book, targets, [s \in targets |-> DropEmptyRows(book[s].rows)])
            IN  Done([book |-> Write(kept),
                      removed |-> MapThenSumSet(LAMBDA s : Len(book[s].rows) - Len(kept[s].rows), DOMAIN book),
                      visualsLost |-> lost \/ HasVisualElements(r.file)])
        inPlace(book) ==
            result(book, IF Strip(r.sheets) = <<>> THEN DOMAIN book ELSE named(book),
                   LAMBDA b : b, VisualElementsLost(r.file))
        anew(book) ==
            result(book, IF selected = {} THEN DOMAIN book ELSE named(book), WorkbookFromData, FALSE)
    IN  Gate(r.file, r.principal,
        IF SupportsInplaceEdit(r.file) THEN Then(LoadForEdit(r.file), inPlace)
        ELSE Then(ParseExcelBytes(r.file), anew))

RemoveEmptyRows == Asked("remove-empty-rows") /\ Reply(RemoveEmptyRowsAnswer(request))

CleanNext == TrimSpaces \/ FindReplace \/ NormalizeCase \/ RemoveDuplicates \/ RemoveEmptyRows

-----------------------------------------------------------------------------
(* Properties.                                                             *)

CleanTool == request.tool \in {"trim-spaces", "find-replace", "normalize-case"}

\* The workbook that a request reads, in the form in which it is answered.
Source(r) ==
    IF SupportsInplaceEdit(r.file)
    THEN MapBook(r.file.book, LAMBDA rows : MapRows(rows, EditValue))
    ELSE WorkbookFromData(MapBook(r.file.book, LAMBDA rows : ReadRows(r.file.ext, rows)))

\* The sheet and the column were chosen by the form: the sheet by its name or
\* by "all sheets", the column by its name or by naming none.
InChoice(r, sheet, j) ==
    /\ r.allSheets \/ sheet.title = Strip(r.sheet)
    /\ \/ NamesIn(r.columns) = <<>>
       \/ /\ j \in DOMAIN sheet.rows[1]
          /\ Strip(sheet.rows[1][j].text) \in ToSet(NamesIn(r.columns))

\* Trim Spaces, Find and Replace and Normalize Case give back every sheet in
\* its place with every row and every cell; only text in data rows of the
\* chosen sheets and columns differs, whichever of the two paths is taken.
OnlyChosenTextChanges ==
    (CleanTool /\ answer.status = 200) =>
        LET src == Source(request)
            out == answer.result.book
        IN  /\ Titles(out) = Titles(src)
            /\ \A s \in DOMAIN src :
                /\ [i \in DOMAIN src[s].rows |-> Len(src[s].rows[i])]
                     = [i \in DOMAIN out[s].rows |-> Len(out[s].rows[i])]
                /\ \A i \in DOMAIN src[s].rows : \A j \in DOMAIN src[s].rows[i] :
                      src[s].rows[i][j] # out[s].rows[i][j] =>
                          /\ i > 1 /\ IsText(src[s].rows[i][j]) /\ IsText(out[s].rows[i][j])
                          /\ InChoice(request, src[s], j)

\* What Trim Spaces promises of a cell it was asked to clean: the words are the
\* same, in the same order, and no space is left around them or, if asked,
\* doubled between them.  (Of several columns with one name only the first is
\* cleaned; a column without a name only where names are not asked for.)
TrimLeavesTheWords ==
    Answered("trim-spaces") =>
        LET src == Source(request)
            out == answer.result.book
            words(t) == SelectSeq(t, LAMBDA x : x # " ")
        IN  \A s \in DOMAIN src : \A i \in 2..Len(src[s].rows) : \A j \in DOMAIN src[s].rows[i] :
               LET header == src[s].rows[1]
                   before == src[s].rows[i][j]
                   after == out[s].rows[i][j].text
                   first == /\ j \in DOMAIN header /\ Strip(header[j].text) # <<>>
                            /\ \A k \in 1..(j - 1) : Strip(header[k].text) # Strip(header[j].text)
               IN  (IsText(before) /\ first /\ InChoice(request, src[s], j)) =>
                      /\ words(after) = words(before.text)
                      /\ after # <<>> => Head(after) # " " /\ Last(after) # " "
                      /\ request.collapse =>
                            \A k \in 1..(Len(after) - 1) : after[k] # " " \/ after[k + 1] # " "

\* The same workbook as another kind of file.
As(r, ext) == [r EXCEPT !.file.ext = ext]
Answer(r) ==
    CASE r.tool = "trim-spaces"       -> TrimSpacesAnswer(r)
      [] r.tool = "find-replace"      -> FindReplaceAnswer(r)
      [] r.tool = "normalize-case"    -> NormalizeCaseAnswer(r)
      [] r.tool = "remove-duplicates" -> RemoveDuplicatesAnswer(r)
      [] r.tool = "remove-empty-rows" -> RemoveEmptyRowsAnswer(r)

HasFormulas(book) ==
    \E s \in DOMAIN book : \E i \in DOMAIN book[s].rows : \E j \in DOMAIN book[s].rows[i] :
        book[s].rows[i][j].kind = "formula"

\* Every chosen sheet has every chosen column; without a choice every column
\* has a name.
ColumnsAreNamed(r) ==
    LET selected == NamesIn(r.columns) IN
    \A s \in DOMAIN r.file.book :
        LET header == r.file.book[s].rows[1] IN
        (r.allSheets \/ r.file.book[s].title = Strip(r.sheet)) =>
            IF selected = <<>> THEN \A j \in DOMAIN header : Strip(header[j].text) # <<>>
            ELSE AllFound(header, selected)

\* The two implementations of a clean tool agree: a workbook without formulas
\* whose chosen columns exist comes back with the same cells whether it was
\* uploaded as .xlsx and edited in place, or as .xls or .xlsb and written anew.
\* (Formulas, columns without a name and columns that a sheet lacks are where
\* they differ.)
PathsAgree ==
    ( /\ request.tool \in {"trim-spaces", "find-replace", "normalize-case", "remove-duplicates"}
      /\ answer.status = 200 /\ SupportsInplaceEdit(request.file)
      /\ ~HasFormulas(request.file.book) /\ ColumnsAreNamed(request) ) =>
        LET ink(row) == {j \in DOMAIN row : row[j].text # <<>>}
            tight(book) == MapBook(book, LAMBDA rows :
                [i \in DOMAIN rows |->
                    SubSeq(MapRows(rows, Written)[i], 1, Max(ink(rows[i]) \cup {0}))])
        IN  \A ext \in {"xls", "xlsb"} :
               /\ Answer(As(request, ext)).status = 200
               /\ tight(Answer(As(request, ext)).result.book) = tight(answer.result.book)

\* Remove Duplicates against its definition: the rows left are rows of the
\* sheet in their order, no two of them agree on the columns that count, and
\* every row that went agrees with one that stayed: with an earlier one if the
\* first is kept, with a later one if the last is.
DuplicatesLeaveOneOfEach ==
    Answered("remove-duplicates") =>
        LET src == Source(request)
            out == answer.result.book
            selected == NamesIn(request.columns)
        IN  \A s \in DOMAIN src : (request.allSheets \/ src[s].title = Strip(request.sheet)) =>
               LET rows == src[s].rows
                   columns == IF SupportsInplaceEdit(request.file)
                              THEN EditColumns(rows[1], selected) ELSE DataColumns(rows[1], selected)
                   same(x, y) == RowKey(x, columns) = RowKey(y, columns)
                   keepers == {K \in SUBSET (2..Len(rows)) :
                       /\ \A i, k \in K : same(rows[i], rows[k]) => i = k
                       /\ \A i \in 2..Len(rows) : \E k \in K :
                             /\ same(rows[i], rows[k])
                             /\ IF request.keep = "first" THEN k <= i ELSE k >= i}
               IN  \E K \in keepers :
                      out[s].rows = KeepRows(rows, K)

\* Remove Empty Rows: what is left has no blank row below the header, what went
\* was blank, and the header X-Rows-Removed is the number of rows that went.
OnlyEmptyRowsGo ==
    Answered("remove-empty-rows") =>
        LET src == Source(request)
            out == answer.result.book
            blank(rows) == {i \in 2..Len(rows) : \A j \in DOMAIN rows[i] : Strip(rows[i][j].text) = <<>>}
            asked(s) == NamesIn(request.sheets) = <<>> \/ src[s].title \in ToSet(NamesIn(request.sheets))
            ink(rows) == SelectSeq(rows, LAMBDA row : \E j \in DOMAIN row : Strip(row[j].text) # <<>>)
        IN  /\ \A s \in DOMAIN src :
                  /\ ink(out[s].rows) = ink(src[s].rows)
                  /\ asked(s) /\ Strip(request.sheets) # <<",">> => blank(out[s].rows) = {}
                  /\ ~asked(s) => out[s] = src[s]
            /\ answer.result.removed =
                  MapThenSumSet(LAMBDA s : Len(src[s].rows) - Len(out[s].rows), DOMAIN src)

\* A clean tool changes what it was asked to change, and nothing else, by either
\* of its implementations.
CleanInv ==
    PathsAgree /\ OnlyChosenTextChanges /\ TrimLeavesTheWords /\ DuplicatesLeaveOneOfEach /\ OnlyEmptyRowsGo
=============================================================================
