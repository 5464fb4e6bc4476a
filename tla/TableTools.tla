----------------------------- MODULE TableTools -----------------------------
(***************************************************************************)
(* The tools that rearrange whole tables: Sort Rows, Split Column,         *)
(* Transpose Sheet, Merge Sheets, Append Workbooks, Split Sheet and Split  *)
(* Workbook.  All of them read the workbook as data and write a new one.   *)
(***************************************************************************)
EXTENDS Sheets

CONSTANT Letters        \* the alphabet of _alpha_token

ASSUME LettersAssumption == Letters \in Seq(STRING) /\ Letters # <<>>

SaveData(book, file) ==
    Done([book |-> WorkbookFromData(book), visualsLost |-> HasVisualElements(file)])

-----------------------------------------------------------------------------
(* Sort Rows.                                                              *)

\* The alphabet of the cells, in the order of casefold.
Rank == " " :> 0 @@ "a" :> 1 @@ "A" :> 1 @@ "b" :> 2 @@ "B" :> 2

\* _comparable: numbers and booleans, then text in any case, then blanks.
Comparable(c) ==
    CASE c.kind \in {"number", "bool"} -> <<1, c.num>>
      [] c.text = <<>>                 -> <<3>>
      [] OTHER                         -> <<2>> \o [i \in DOMAIN c.text |-> Rank[c.text[i]]]

Less(x, y) ==
    \E n \in 0..Len(x) :
        /\ n < Len(y) /\ SubSeq(x, 1, n) = SubSeq(y, 1, n)
        /\ n < Len(x) => x[n + 1] < y[n + 1]

\* Variant for a mutation: a descending sort reverses the ties too.
SortOnceUnstable(rows, key) ==
    LET at(i) == Comparable(Cell(rows[i], key.index))
        asc(i, k) == Less(at(i), at(k)) \/ (at(i) = at(k) /\ i < k)
        order == SortSeq([i \in DOMAIN rows |-> i],
                         LAMBDA i, k : IF key.direction = "desc" THEN asc(k, i) ELSE asc(i, k))
    IN  [i \in DOMAIN rows |-> rows[order[i]]]

\* list.sort with a key: stable, also in reverse.
SortOnce(rows, key) ==
    LET at(i) == Comparable(Cell(rows[i], key.index))
        before(i, k) == IF key.direction = "desc" THEN Less(at(k), at(i)) ELSE Less(at(i), at(k))
        order == SortSeq([i \in DOMAIN rows |-> i],
                         LAMBDA i, k : before(i, k) \/ (at(i) = at(k) /\ i < k))
    IN  [i \in DOMAIN rows |-> rows[order[i]]]

\* The last of several columns with the same name.
LastPosition(x, s) == Max({i \in DOMAIN s : s[i] = x})

\* The keys that count: at most three, those with a name.
SortKeys(r) == SelectSeq(CutTo(r.keys, 3), LAMBDA k : Strip(k.column) # <<>>)

SortRowsAnswer(r) ==
    WithData(r, LAMBDA book :
    OnSheet(book, r.sheet, LAMBDA s :
    Require(r.validJson, 400,
    LET rows == book[s].rows
        names == IF r.hasHeader THEN HeaderNames(rows[1]) ELSE <<>>
        keys == SortKeys(r)
        index(k) == [index |-> LastPosition(Strip(k.column), names),
                     direction |-> IF k.direction = "desc" THEN "desc" ELSE "asc"]
        sorted == FoldRight(LAMBDA k, out : SortOnce(out, index(k)), keys, Tail(rows))
    IN  IF rows = <<>> THEN SaveData(book, r.file)
        ELSE Require(\A k \in ToSet(keys) : Strip(k.column) \in ToSet(names), 400,
             Require(keys # <<>>, 400,
             SaveData([book EXCEPT ![s].rows = <<rows[1]>> \o sorted], r.file))))))

SortRows == Asked("sort-rows") /\ Reply(SortRowsAnswer(request))

-----------------------------------------------------------------------------
(* Split Column.                                                           *)

Delimiters == "comma" :> "," @@ "dash" :> "-"

\* The parts of a cell: one empty text for anything that is not a text.
Parts(c, sep, most) ==
    LET parts == IF IsText(c) THEN SplitBy(c.text, sep) ELSE << <<>> >>
    IN  [p \in 1..most |-> IF p \in DOMAIN parts THEN parts[p] ELSE <<>>]

\* Cells take the place of cell j, after it if the original is kept.
Insert(row, j, cells, keepOriginal) ==
    SubSeq(row, 1, IF keepOriginal THEN j ELSE j - 1) \o cells \o SubSeq(row, j + 1, Len(row))

PadTo(row, n) == [j \in 1..Max({n, Len(row)}) |-> Cell(row, j)]

SplitColumnAnswer(r) ==
    WithData(r, LAMBDA book :
    OnSheet(book, r.sheet, LAMBDA s :
    LET rows == book[s].rows
        header == [j \in DOMAIN rows[1] |-> HeaderText(rows[1][j])]
        found == ColumnsNamed(rows[1], r.column)
        col == Min(found)
        sep == IF r.delimiter \in DOMAIN Delimiters THEN Delimiters[r.delimiter] ELSE r.delimiter
        cut == {i \in 2..Len(rows) : LET c == Cell(rows[i], col) IN IsText(c) /\ sep \in ToSet(c.text)}
        most == Max({1} \cup {Len(SplitBy(Cell(rows[i], col).text, sep)) : i \in cut})
        newHeader == Insert(rows[1], col, [p \in 1..most |-> Str(header[col] \o <<"_", ToString(p)>>)],
                            r.keepOriginal)
        newRow(row) == Insert(PadTo(row, col), col,
                              [p \in 1..most |-> Str(Parts(Cell(row, col), sep, most)[p])], r.keepOriginal)
        split == [i \in DOMAIN rows |-> IF i = 1 THEN newHeader ELSE newRow(rows[i])]
    IN  Require(Len(rows) >= 2, 400,
        Require(found # {}, 400,
        Require(sep # "", 400,
        Done([book |-> WorkbookFromData([book EXCEPT ![s].rows = split]),
              warning |-> cut = {}, visualsLost |-> HasVisualElements(r.file)]))))))

SplitColumn == Asked("split-column") /\ Reply(SplitColumnAnswer(request))

-----------------------------------------------------------------------------
(* Transpose Sheet.                                                        *)

\* Rows are padded with None to the widest one, then zipped.
Transposed(rows) ==
    [j \in 1..Width(rows) |-> [i \in DOMAIN rows |-> Cell(rows[i], j)]]

TransposeSheetAnswer(r) ==
    WithData(r, LAMBDA book :
    OnSheet(book, r.sheet, LAMBDA s :
    SaveData(IF book[s].rows = <<>> THEN book ELSE [book EXCEPT ![s].rows = Transposed(@)], r.file)))

TransposeSheet == Asked("transpose-sheet") /\ Reply(TransposeSheetAnswer(request))

-----------------------------------------------------------------------------
(* Merge Sheets.                                                           *)

\* Setting Worksheet.title: openpyxl refuses some characters (an error 500).
InvalidTitle(t) == ToSet(t) \cap BadInTitles # {}

HeaderRow(rows) == IF rows = <<>> THEN <<>> ELSE [j \in DOMAIN rows[1] |-> rows[1][j].text]

\* The names of the headers in the order of their first appearance.
MergedHeaders(tables) ==
    LET all == FlattenSeq([k \in DOMAIN tables |-> HeaderRow(tables[k])])
    IN  FoldLeft(LAMBDA out, h : IF h = <<>> \/ h \in ToSet(out) THEN out ELSE Append(out, h), <<>>, all)

\* A row of a table with these names under the merged headers.
MergedRow(row, names, merged) ==
    [k \in DOMAIN merged |-> IF merged[k] \in ToSet(names)
                             THEN Written(Cell(row, Position(merged[k], names))) ELSE Str(<<>>)]

MergedRows(tables) ==
    LET merged == MergedHeaders(tables)
        body(rows) == [i \in 1..(Len(rows) - 1) |-> MergedRow(rows[i + 1], HeaderRow(rows), merged)]
    IN  (IF merged = <<>> THEN <<>> ELSE << [k \in DOMAIN merged |-> Str(merged[k])] >>)
        \o FlattenSeq([k \in DOMAIN tables |-> IF Len(tables[k]) > 1 THEN body(tables[k]) ELSE <<>>])

\* The sheets a list names, in its order; every sheet for an empty list.
Chosen(book, names) == IF names = <<>> THEN Titles(book) ELSE names
SheetOf(book, title) == book[CHOOSE s \in DOMAIN book : book[s].title = title].rows
TablesOf(book, names) ==
    [k \in DOMAIN Chosen(book, names) |-> SheetOf(book, Chosen(book, names)[k])]

MergeSheetsAnswer(r) ==
    WithData(r, LAMBDA book :
    Require(ToSet(NamesIn(r.sheetNames)) \subseteq ToSet(Titles(book)), 400,
    Require(~InvalidTitle(CutTo(r.outputSheet, MaxTitle)), 500,
    Done([book |-> << [title |-> CutTo(Or(r.outputSheet, <<"Merged">>), MaxTitle),
                       rows |-> MergedRows(TablesOf(book, NamesIn(r.sheetNames)))] >>,
          visualsLost |-> HasVisualElements(r.file)]))))

MergeSheets == Asked("merge-sheets") /\ Reply(MergeSheetsAnswer(request))

-----------------------------------------------------------------------------
(* Append Workbooks.                                                       *)

CreatedTitles(titles) ==
    FoldLeft(LAMBDA done, t : Append(done, FreeTitle(ToSet(done), t)), <<>>, titles)

\* What the first checks of a file of the list answer.
FileStatus(f, principal) == Gate(f, principal, Require(f.genuine, 400, Done({}))).status

DataOf(f) == MapBook(f.book, LAMBDA rows : ReadRows(f.ext, rows))

AppendWorkbooksAnswer(r) ==
    LET bad == SelectSeq(r.files, LAMBDA f : FileStatus(f, r.principal) # 200)
        source(f) == Clean(f.name, BadInTitles)
        sheets == FlattenSeq([k \in DOMAIN r.files |->
                      LET data == DataOf(r.files[k])
                      IN  [s \in DOMAIN data |-> [source |-> source(r.files[k])] @@ data[s]]])
        preferred(n) == SafeSheetTitle(sheets[n].title, <<"sheet", "_", ToString(n)>>)
        requested(n) == SafeSheetTitle(sheets[n].source \o <<"_">> \o preferred(n), preferred(n))
        titles == CreatedTitles(UniqueTitles([n \in DOMAIN sheets |-> requested(n)]))
    IN  Require(Len(r.files) >= 2, 400,
        Require(bad = <<>>, FileStatus(Head(bad), r.principal),
        Require(sheets # <<>>, 400,
        Done([book |-> [n \in DOMAIN sheets |-> [title |-> titles[n],
                                                 rows |-> MapRows(sheets[n].rows, Written)]],
              visualsLost |-> \E f \in ToSet(r.files) : HasVisualElements(f)]))))

AppendWorkbooks == Asked("append-workbooks") /\ Reply(AppendWorkbooksAnswer(request))

-----------------------------------------------------------------------------
(* Split Sheet.                                                            *)

Numerals == << <<10, <<"X">> >>, <<9, <<"I", "X">> >>, <<5, <<"V">> >>, <<4, <<"I", "V">> >>, <<1, <<"I">> >> >>

\* _roman_token: as many of each numeral as fit, from the largest down.
RomanToken(index) ==
    FoldLeft(LAMBDA acc, num :
                 [left |-> acc.left % num[1],
                  text |-> acc.text \o FlattenSeq([k \in 1..(acc.left \div num[1]) |-> num[2]])],
             [left |-> index, text |-> <<>>], Numerals).text

\* _alpha_token: A .. Z, AA, AB, ...
AlphaToken[n \in Nat] ==
    IF n = 0 THEN <<>>
    ELSE Append(AlphaToken[(n - 1) \div Len(Letters)], Letters[((n - 1) % Len(Letters)) + 1])

PartToken(index, style, custom) ==
    CASE style = "alpha"  -> AlphaToken[index]
      [] style = "roman"  -> RomanToken(index)
      [] style = "custom" -> IF index \in DOMAIN custom THEN custom[index] ELSE <<ToString(index)>>
      [] OTHER            -> <<ToString(index)>>

\* rows[i : i + size] for i = 1, 1 + size, ... in Python's numbering.
Chunks(rows, size) ==
    [k \in 1..(((Len(rows) - 1) + size - 1) \div size) |->
        SubSeq(rows, 2 + (k - 1) * size, Min({Len(rows), 1 + k * size}))]

SplitSheetAnswer(r) ==
    Gate(r.file, r.principal,
    Require(r.chunkSize >= 2, 400,
    Then(ParseExcelBytes(r.file), LAMBDA book :
    OnSheet(book, r.sheet, LAMBDA s :
    LET rows == book[s].rows
        custom == NamesIn(r.customSequence)
        chunks == IF Len(rows) = 1 THEN << <<>> >> ELSE Chunks(rows, r.chunkSize)
        requested(k) == SafeSheetTitle(r.partBase \o r.separator \o PartToken(k, r.style, custom),
                                       <<"part", "_", ToString(k)>>)
        titles == CreatedTitles(UniqueTitles([k \in DOMAIN chunks |-> requested(k)]))
    IN  Require(rows # <<>>, 400,
        Require(r.style \in {"numeric", "alpha", "roman", "custom"}, 400,
        Require(Len(r.separator) <= 4, 400,
        Require(r.style = "custom" => custom # <<>>, 400,
        Done([book |-> [k \in DOMAIN chunks |->
                           [title |-> titles[k], rows |-> MapRows(<<rows[1]>> \o chunks[k], Written)]],
              visualsLost |-> HasVisualElements(r.file)])))))))))

SplitSheet == Asked("split-sheet") /\ Reply(SplitSheetAnswer(request))

-----------------------------------------------------------------------------
(* Split Workbook.                                                         *)

MemberName(title) == Or([i \in DOMAIN title |-> IF title[i] = " " THEN "_" ELSE title[i]], <<"sheet">>)

\* One member of the archive per selected sheet, in the order of the workbook.
SplitWorkbookAnswer(r) ==
    WithData(r, LAMBDA book :
    LET names == NamesIn(r.sheetNames)
        chosen == SelectSeq(book, LAMBDA sheet : names = <<>> \/ sheet.title \in ToSet(names))
    IN  Require(book # <<>>, 400,
        Require(ToSet(names) \subseteq ToSet(Titles(book)), 400,
        Done([members |-> [k \in DOMAIN chosen |->
                  [name |-> MemberName(chosen[k].title),
                   sheet |-> [title |-> CutTo(Or(chosen[k].title, <<"Sheet1">>), MaxTitle),
                              rows |-> MapRows(chosen[k].rows, Written)]]],
              visualsLost |-> HasVisualElements(r.file)]))))

SplitWorkbook == Asked("split-workbook") /\ Reply(SplitWorkbookAnswer(request))

TableNext ==
    \/ SortRows \/ SplitColumn \/ TransposeSheet
    \/ MergeSheets \/ AppendWorkbooks
    \/ SplitSheet \/ SplitWorkbook

-----------------------------------------------------------------------------
(* Properties.                                                             *)

DataSource(r) == WorkbookFromData(MapBook(r.file.book, LAMBDA rows : ReadRows(r.file.ext, rows)))
SourceRows(r) == SheetOf(DataSource(r), r.sheet)
ResultRows(title) == SheetOf(answer.result.book, title)

\* Sort Rows: the passes, from the last key to the first, amount to one sort by
\* the first key in which two rows differ, each in its own direction, and rows
\* that agree on all keys are all there, in the order they had.  Where a blank
\* stands in a descending key is BlanksSortLast's matter.
SortedByTheFirstDifference ==
    (Answered("sort-rows") /\ SourceRows(request) # <<>>) =>
        LET src == Tail(SourceRows(request))
            out == Tail(ResultRows(request.sheet))
            keys == SortKeys(request)
            names == HeaderNames(Head(SourceRows(request)))
            at(row, n) == Comparable(Cell(row, LastPosition(Strip(keys[n].column), names)))
            class(row) == [n \in DOMAIN keys |-> at(row, n)]
            inOrder(x, y) ==
                \/ class(x) = class(y)
                \/ \E n \in DOMAIN keys :
                      /\ \A m \in 1..(n - 1) : at(x, m) = at(y, m)
                      /\ at(x, n) # at(y, n)
                      /\ \/ keys[n].direction # "desc" /\ Less(at(x, n), at(y, n))
                         \/ keys[n].direction = "desc" /\ Less(at(y, n), at(x, n))
                         \/ keys[n].direction = "desc" /\ <<3>> \in {at(x, n), at(y, n)}
        IN  /\ Head(ResultRows(request.sheet)) = Head(SourceRows(request))
            /\ \A i, k \in DOMAIN out : i < k => inOrder(out[i], out[k])
            /\ \A c \in {class(row) : row \in ToSet(src) \cup ToSet(out)} :
                  SelectSeq(out, LAMBDA row : class(row) = c) = SelectSeq(src, LAMBDA row : class(row) = c)

\* sort_rows.py:28 says of the sort key that "numbers compare against numbers,
\* strings against strings, and None always sorts last": after a sort by one
\* column no row with a blank there stands above one with a value.  (A
\* descending key reverses the whole order, blanks included.)
BlanksSortLast ==
    (Answered("sort-rows") /\ SourceRows(request) # <<>> /\ Len(SortKeys(request)) = 1) =>
        LET out == Tail(ResultRows(request.sheet))
            key == Strip(SortKeys(request)[1].column)
            blank(row) == Comparable(Cell(row, LastPosition(key, HeaderNames(Head(SourceRows(request)))))) = <<3>>
        IN  \A i, k \in DOMAIN out : i < k /\ blank(out[i]) => blank(out[k])

\* Split Column: the parts of a text, put together again, are the text; only
\* blanks follow them; every other cell stays under its header; and the column
\* itself is there if it was to be kept.  (What was not text and not kept is
\* gone.)
SplitColumnCanBeUndone ==
    Answered("split-column") =>
        LET src == SourceRows(request)
            out == ResultRows(request.sheet)
            sep == IF request.delimiter \in DOMAIN Delimiters THEN Delimiters[request.delimiter]
                   ELSE request.delimiter
            col == Min({j \in DOMAIN src[1] :
                          Strip(HeaderText(ReadRows(request.file.ext,
                              SheetOf(request.file.book, request.sheet))[1][j])) = Strip(request.column)})
            kept == IF request.keepOriginal THEN 1 ELSE 0
            parts == Len(out[1]) - Len(src[1]) + 1 - kept
            now(j) == IF j < col THEN j ELSE j + parts - 1 + kept
            part(i, p) == out[i][col + kept + p - 1].text
        IN  /\ Len(out) = Len(src)
            /\ \A i \in DOMAIN src : \A j \in DOMAIN src[i] : j # col => Cell(out[i], now(j)) = src[i][j]
            /\ \A i \in 2..Len(src) :
                  LET c == Cell(src[i], col) IN
                  /\ kept = 1 => out[i][col] = Written(c)
                  /\ IsText(c) => \E n \in 1..parts :
                        /\ Joined([p \in 1..n |-> part(i, p)], <<sep>>) = c.text
                        /\ \A p \in (n + 1)..parts : part(i, p) = <<>>

\* Transpose Sheet twice gives the sheet back, its rows filled up to the widest;
\* the other sheets are as they were.
TransposingTwiceIsPadding ==
    Answered("transpose-sheet") =>
        LET src == SourceRows(request)
            again == Transposed(ResultRows(request.sheet))
            padded == [i \in DOMAIN src |-> [j \in 1..Width(src) |-> Written(Cell(src[i], j))]]
        IN  /\ Width(src) > 0 => again = padded
            /\ \A s \in DOMAIN DataSource(request) : DataSource(request)[s].title # request.sheet =>
                  answer.result.book[s] = DataSource(request)[s]

\* Merge Sheets: the rows of the chosen sheets follow each other in the order of
\* the choice, and a value stands under the name it stood under: every named
\* column of every sheet is a column of the result (the first, of several with
\* one name in a sheet), and a column that a sheet lacks is blank in its rows.
MergedUnderTheirNames ==
    Answered("merge-sheets") =>
        LET tables == TablesOf(DataSource(request), NamesIn(request.sheetNames))
            out == answer.result.book[1].rows
            data == FlattenSeq([k \in DOMAIN tables |->
                        [i \in 1..Max({0, Len(tables[k]) - 1}) |-> [header |-> HeaderRow(tables[k]), row |-> tables[k][i + 1]]]])
            named == UNION {ToSet(HeaderRow(tables[k])) \ {<<>>} : k \in DOMAIN tables}
            header == IF named = {} THEN <<>> ELSE out[1]
            body == IF named = {} THEN out ELSE Tail(out)
        IN  /\ Len(body) = Len(data)
            /\ {c.text : c \in ToSet(header)} = named /\ IsInjective(header)
            /\ \A n \in DOMAIN data : \A k \in DOMAIN header :
                  LET d == data[n]
                      columns == {j \in DOMAIN d.header : d.header[j] = header[k].text}
                  IN  body[n][k] = IF columns = {} THEN Str(<<>>) ELSE Written(Cell(d.row, Min(columns)))

\* Append Workbooks: every sheet of every file is there, in order, with its
\* rows; no two titles are the same in any case, as Excel demands; and none is
\* longer than Excel allows, unless it differs from another one only in case.
EverySheetIsAppended ==
    Answered("append-workbooks") =>
        LET sheets == FlattenSeq([k \in DOMAIN request.files |-> DataOf(request.files[k])])
            out == answer.result.book
            sameInAnyCase == \E n, m \in DOMAIN out :
                n # m /\ CutTo(Folded(out[n].title), MaxTitle - 2) = CutTo(Folded(out[m].title), MaxTitle - 2)
                      /\ CutTo(out[n].title, MaxTitle - 2) # CutTo(out[m].title, MaxTitle - 2)
        IN  /\ Len(out) = Len(sheets)
            /\ \A n \in DOMAIN out : out[n].rows = MapRows(sheets[n].rows, Written)
            /\ \A n, m \in DOMAIN out : n # m => Folded(out[n].title) # Folded(out[m].title)
            /\ \A n \in DOMAIN out :
                  out[n].title # <<>> /\ (~sameInAnyCase => Len(out[n].title) <= MaxTitle)

\* Split Sheet: the parts put together are the data rows; each part starts with
\* the header; all but the last are equally long, the last is not longer and has
\* a data row if there are any; no two parts have the same title.  What the size
\* that was asked for counts is ChunksCountTheHeader's matter.
PartsAddUp ==
    Answered("split-sheet") =>
        LET src == SourceRows(request)
            out == answer.result.book
        IN  /\ FlattenSeq([k \in DOMAIN out |-> Tail(out[k].rows)]) = Tail(src)
            /\ \A k \in DOMAIN out :
                  /\ Head(out[k].rows) = Head(src)
                  /\ k < Len(out) => Len(out[k].rows) = Len(out[1].rows)
                  /\ Len(out[k].rows) <= Len(out[1].rows)
                  /\ Len(src) > 1 => Len(out[k].rows) > 1
            /\ \A k, m \in DOMAIN out : k # m => Folded(out[k].title) # Folded(out[m].title)

\* split_sheet.py:87 describes chunk_size as "Max rows per chunk (including
\* header)": no part is longer.  (The chunks are cut from the data rows, and the
\* header is added to each.)
ChunksCountTheHeader ==
    Answered("split-sheet") =>
        \A k \in DOMAIN answer.result.book : Len(answer.result.book[k].rows) <= request.chunkSize

\* Split Workbook, unpacked: a later member replaces an earlier one of the same
\* name.  Every chosen sheet is still there, and nothing else, as long as no two
\* chosen titles differ only in a space against an underscore.
UnpackingKeepsEverySheet ==
    Answered("split-workbook") =>
        LET members == answer.result.members
            names == NamesIn(request.sheetNames)
            chosen == {s \in ToSet(DataSource(request)) : names = <<>> \/ s.title \in ToSet(names)}
            unpacked == {members[k].sheet : k \in {k \in DOMAIN members :
                            \A m \in DOMAIN members : m > k => members[m].name # members[k].name}}
            collide == \E s, t \in chosen : s # t /\ Clean(s.title, {" "}) = Clean(t.title, {" "})
        IN  /\ unpacked \subseteq chosen
            /\ ~collide => unpacked = chosen

\* A tool that arranges rows, columns and sheets anew loses none of them, adds
\* none and puts each where it belongs.
TableInv ==
    /\ SortedByTheFirstDifference /\ SplitColumnCanBeUndone /\ TransposingTwiceIsPadding
    /\ MergedUnderTheirNames /\ EverySheetIsAppended /\ PartsAddUp /\ UnpackingKeepsEverySheet
=============================================================================
