---------------------------- MODULE ConvertTools ----------------------------
(***************************************************************************)
(* The conversions between workbooks and CSV, JSON, SQL, XML and PDF.      *)
(* A document is its tree, not its characters: CSV is rows of texts, JSON  *)
(* scalars, arrays and objects, XML elements, and SQL a list of statements *)
(* whose values are a text, since the quoting of that text is what can go  *)
(* wrong.  The parsers and writers of these formats are external.          *)
(***************************************************************************)
EXTENDS Sheets, Integers

CONSTANTS PageWidth, MinCol, MaxCol     \* avail_width, _MIN_COL_WIDTH, _MAX_COL_WIDTH

ASSUME ConvertToolsAssumption ==
    PageWidth \in Nat /\ MinCol \in Nat \ {0} /\ MaxCol \in Nat /\ MinCol <= MaxCol

\* The sheets asked for, each as often as it is, or all of them.
OnSelected(book, selected, rest(_)) ==
    Require(ToSet(selected) \subseteq ToSet(Titles(book)), 404,
            rest(IF selected = <<>> THEN Titles(book) ELSE selected))

RowsOf(book, title) == book[Position(title, Titles(book))].rows

Digit(x) == x \in {"1", "2", "3"}
Letter(x) == x \in {"a", "b", "A", "B", "col", "s", "t", "column", "rows", "headers", "row"}

\* str.strip of the given characters.
StripAll(t, chars) ==
    LET ink == {i \in DOMAIN t : t[i] \notin chars}
    IN  IF ink = {} THEN <<>> ELSE SubSeq(t, Min(ink), Max(ink))

\* The first of base, base_2, base_3, ... that is not used.
Numbered(base, used) ==
    LET candidate(n) == IF n = 1 THEN base ELSE base \o <<"_", ToString(n)>>
    IN  candidate(Min({n \in 1..(Cardinality(used) + 1) : candidate(n) \notin used}))

NumberedAll(bases) ==
    FoldLeft(LAMBDA done, b : Append(done, Numbered(b, ToSet(done))), <<>>, bases)

\* openpyxl takes a text that starts with "=" for a formula.
FromText(t) == IF t # <<>> /\ Head(t) = "=" THEN Formula(t, 0) ELSE Str(t)
Stored(c) == IF IsText(c) THEN FromText(c.text) ELSE c

\* Worksheets created one after the other and filled with ws.append, as the three
\* readers do; a title with nothing left is "Sheet".
NewBook(names, rows) ==
    LET titles == UniqueTitles([k \in DOMAIN names |-> SafeSheetTitle(names[k], <<"Sheet">>)])
        given == FoldLeft(LAMBDA done, t : Append(done, FreeTitle(ToSet(done), t)), <<>>, titles)
    IN  [k \in DOMAIN names |-> [title |-> given[k], rows |-> MapRows(rows[k], Stored)]]

-----------------------------------------------------------------------------
(* CSV.                                                                    *)

CsvRows(rows) == [i \in DOMAIN rows |-> [j \in DOMAIN rows[i] |-> rows[i][j].text]]

\* _build_unique_csv_name: a run of other characters is one "_".
CsvBase(title) ==
    LET merged == FoldLeft(LAMBDA out, x :
            IF Letter(x) \/ Digit(x) \/ x \in {".", "_", "-"} THEN Append(out, x)
            ELSE IF out # <<>> /\ Last(out) = "^" THEN out ELSE Append(out, "^"), <<>>, title)
    IN  Or(StripAll([i \in DOMAIN merged |-> IF merged[i] = "^" THEN "_" ELSE merged[i]], {".", "_"}),
           <<"sheet">>)

\* Variant for a mutation: the names used so far are not remembered.
CsvNamesUnchecked(titles) == [k \in DOMAIN titles |-> CsvBase(titles[k])]

CsvNames(titles) == NumberedAll([k \in DOMAIN titles |-> CsvBase(titles[k])])

XlsxToCsvAnswer(r) ==
    WithData(r, LAMBDA book : OnSheet(book, r.sheet, LAMBDA s : Done(CsvRows(book[s].rows))))

\* _sheets_to_csv_zip; the names asked for are not split at commas.
XlsxToCsvZipAnswer(r) ==
    WithData(r, LAMBDA book : OnSelected(book, r.sheets, LAMBDA targets :
        Done([k \in DOMAIN targets |-> [name |-> CsvNames(targets)[k],
                                        rows |-> CsvRows(RowsOf(book, targets[k]))]])))

\* A title that openpyxl refuses ends as a 500, like any other failure.
CsvToXlsxAnswer(r) ==
    Require(r.isCsv, 400,
    Require(r.size <= MaxUploadBytes(r.principal), 413,
    Require(Len(r.delimiter) = 1, 400,
    Require(ToSet(CutTo(r.sheetName, MaxTitle)) \cap BadInTitles = {}, 500,
    Done(<< [title |-> Or(CutTo(r.sheetName, MaxTitle), <<"Sheet1">>),
             rows |-> IF r.doc = <<>> THEN << <<Str(<<>>)>> >>
                      ELSE [i \in DOMAIN r.doc |-> [j \in DOMAIN r.doc[i] |-> FromText(r.doc[i][j])]]] >>)))))

XlsxToCsv == Asked("xlsx-to-csv") /\ Reply(XlsxToCsvAnswer(request))
XlsxToCsvZip == Asked("xlsx-to-csv-zip") /\ Reply(XlsxToCsvZipAnswer(request))
CsvToXlsx == Asked("csv-to-xlsx") /\ Reply(CsvToXlsxAnswer(request))

-----------------------------------------------------------------------------
(* JSON: a scalar is a cell.                                               *)

Array(items) == [kind |-> "array", items |-> items]
Object(members) == [kind |-> "object", members |-> members]
Keys(o) == [i \in DOMAIN o.members |-> o.members[i][1]]
Get(o, key) == IF key \in ToSet(Keys(o)) THEN o.members[Position(key, Keys(o))][2] ELSE None

\* _normalize_cell: json.dumps of what is not a scalar.
NormalizeCell(v) == IF v.kind \in {"array", "object"} THEN Str(<<ToString(v)>>) ELSE Written(v)
NormalizeRow(items) == [j \in DOMAIN items |-> NormalizeCell(items[j])]

Padded(row, n) == [j \in 1..(IF Len(row) > n THEN Len(row) ELSE n) |->
                      IF j \in DOMAIN row THEN row[j] ELSE Str(<<>>)]
Distinct(seq) ==
    FoldLeft(LAMBDA out, x : IF x \in ToSet(out) THEN out ELSE Append(out, x), <<>>, seq)
Texts(names) == [j \in DOMAIN names |-> Str(names[j])]
WithHeader(headers, rows, include) == IF include THEN <<headers>> \o rows ELSE rows

\* _records_to_rows: the keys in the order of their first use, then looked up
\* by the header, which is stripped.
RecordRows(records, include) ==
    LET headers == DedupeHeaders(Texts(Distinct(FlattenSeq([i \in DOMAIN records |-> Keys(records[i])]))))
    IN  IF records = <<>> THEN << <<Str(<<>>)>> >>
        ELSE WithHeader(Texts(headers), [i \in DOMAIN records |->
            [j \in DOMAIN headers |-> NormalizeCell(Get(records[i], headers[j]))]], include)

\* _list_rows_to_rows: objects, objects among others, or rows.
ListRows(items, include) ==
    LET table == [i \in DOMAIN items |->
            IF items[i].kind = "array" THEN NormalizeRow(items[i].items) ELSE <<NormalizeCell(items[i])>>]
        columns == [j \in 1..Width(table) |-> Str(<<"column", "_", ToString(j)>>)]
    IN  IF items = <<>> THEN << <<Str(<<>>)>> >>
        ELSE IF \E i \in DOMAIN items : items[i].kind = "object"
        THEN RecordRows([i \in DOMAIN items |-> IF items[i].kind = "object" THEN items[i]
                            ELSE Object(<< <<<<"value">>, NormalizeCell(items[i])>> >>)], include)
        ELSE IF include THEN <<columns>> \o [i \in DOMAIN table |-> Padded(table[i], Len(columns))]
        ELSE table

\* _headers_and_rows_to_rows: rows are cut or filled to the headers.
HeadedRows(headersLike, items, include) ==
    LET headers == Or(DedupeHeaders(NormalizeRow(headersLike)), << <<"column", "_", "1">> >>)
        n == Len(headers)
        row(item) ==
            CASE item.kind = "object" -> [j \in 1..n |-> NormalizeCell(Get(item, headers[j]))]
              [] item.kind = "array"  -> Padded(NormalizeRow(CutTo(item.items, n)), n)
              [] OTHER                -> Padded(<<NormalizeCell(item)>>, n)
    IN  WithHeader(Texts(headers), [i \in DOMAIN items |-> row(items[i])], include)

\* _to_sheet_map: the names of the sheets and their rows.
SheetMap(v, include) ==
    LET one(rows) == Done([names |-> << <<"Sheet1">> >>, rows |-> <<rows>>])
        headers == Get(v, <<"headers">>)
        rows == Get(v, <<"rows">>)
    IN  IF v.kind = "array" THEN one(ListRows(v.items, include))
        ELSE IF v.kind # "object" THEN Refused(400)
        ELSE IF v.members = <<>> THEN one(<< <<Str(<<>>)>> >>)
        ELSE IF headers.kind = "array" /\ rows.kind = "array" /\ Len(v.members) <= 3
        THEN one(HeadedRows(headers.items, rows.items, include))
        ELSE IF \A i \in DOMAIN v.members : v.members[i][2].kind = "array"
        THEN Done([names |-> [i \in DOMAIN v.members |-> Or(v.members[i][1], <<"Sheet">>)],
                   rows  |-> [i \in DOMAIN v.members |-> ListRows(v.members[i][2].items, include)]])
        ELSE one(RecordRows(<<v>>, include))

JsonToXlsxAnswer(r) ==
    Require(r.isJson, 400,
    Require(r.size <= MaxUploadBytes(r.principal), 413,
    Require(r.wellFormed, 400,
    Then(SheetMap(r.doc, r.include), LAMBDA sheets :
        Done(NewBook(sheets.names,
                     [k \in DOMAIN sheets.names |-> Or(sheets.rows[k], << <<Str(<<>>)>> >>)]))))))

\* _sheet_rows_to_records.
Records(rows) ==
    IF rows = <<>> THEN <<>>
    ELSE LET headers == DedupeHeaders(rows[1])
         IN  [i \in 1..(Len(rows) - 1) |->
                 Object([j \in DOMAIN headers |-> <<headers[j], Cell(rows[i + 1], j)>>])]

\* One sheet is an array, several are an object; a sheet asked for twice is one
\* member, yet the answer is an object.
XlsxToJsonAnswer(r) ==
    WithData(r, LAMBDA book : OnSelected(book, NormalizeSheetSelection(r.sheets), LAMBDA targets :
        Done(IF Len(targets) = 1 THEN Array(Records(RowsOf(book, targets[1])))
             ELSE LET once == Distinct(targets)
                  IN  Object([k \in DOMAIN once |-> <<once[k], Array(Records(RowsOf(book, once[k])))>>]))))

JsonToXlsx == Asked("json-to-xlsx") /\ Reply(JsonToXlsxAnswer(request))
XlsxToJson == Asked("xlsx-to-json") /\ Reply(XlsxToJsonAnswer(request))

-----------------------------------------------------------------------------
(* SQL.                                                                    *)

\* _safe_identifier.
LowerCase(t) == [i \in DOMAIN t |-> CASE t[i] = "A" -> "a" [] t[i] = "B" -> "b" [] OTHER -> t[i]]
SafeIdentifier(raw) ==
    LET name == StripAll([i \in DOMAIN Strip(raw) |->
                    IF Letter(Strip(raw)[i]) \/ Digit(Strip(raw)[i]) THEN Strip(raw)[i] ELSE "_"], {"_"})
    IN  LowerCase(IF name = <<>> \/ Digit(Head(name)) THEN <<"col", "_">> \o name ELSE name)

SqlRank(c) ==
    CASE IsText(c) /\ ~Blank(c) -> 4 [] c.kind = "date" -> 3 [] c.kind = "real" -> 2
      [] c.kind = "number" -> 1      [] c.kind = "bool" -> 0 [] OTHER -> -1

\* _infer_sql_type: the greatest rank, and TEXT for a column of blanks.
SqlType(cells) ==
    LET best == Max({-1} \cup {SqlRank(cells[i]) : i \in DOMAIN cells})
    IN  IF best = -1 THEN "TEXT" ELSE <<"BOOLEAN", "INTEGER", "REAL", "DATE", "TEXT">>[best + 1]

\* _escape_sql_value.
SqlLiteral(c) ==
    CASE c = None -> <<"NULL">>
      [] c.kind = "bool" -> <<"TRUE">>
      [] c.kind \in {"number", "real"} -> c.text
      [] OTHER -> <<"'">> \o FlattenSeq([i \in DOMAIN c.text |->
                      IF c.text[i] = "'" THEN <<"'", "'">> ELSE <<c.text[i]>>]) \o <<"'">>

\* _sheet_to_sql: CREATE TABLE, and an INSERT for every data row.
SheetToSql(table, rows) ==
    LET columns == NumberedAll([j \in DOMAIN rows[1] |->
            SafeIdentifier(IF rows[1][j] = None THEN <<"col", "_", ToString(j)>> ELSE rows[1][j].text)])
        data == Tail(rows)
        column(j) == [i \in DOMAIN data |-> Cell(data[i], j)]
    IN  IF rows = <<>> THEN <<>>
        ELSE << [create |-> table, columns |-> columns,
                 types |-> [j \in DOMAIN columns |-> SqlType(column(j))]] >> \o
             [i \in DOMAIN data |-> [insert |-> table, columns |-> columns,
                 values |-> Joined([j \in DOMAIN columns |-> SqlLiteral(column(j)[i])], <<",", " ">>)]]

XlsxToSqlAnswer(r) ==
    WithData(r, LAMBDA book : OnSelected(book, NormalizeSheetSelection(r.sheets), LAMBDA targets :
        Done(FlattenSeq([k \in DOMAIN targets |->
                SheetToSql(SafeIdentifier(r.prefix \o targets[k]), RowsOf(book, targets[k]))]))))

\* _split_values: at the commas outside quotes; nothing after the last comma
\* is no value.
SplitValues(t) ==
    LET step(acc, x) ==
            IF acc.quote # "" THEN [acc EXCEPT !.current = Append(@, x), !.quote = IF x = @ THEN "" ELSE @]
            ELSE IF x \in {"'", "\""} THEN [acc EXCEPT !.current = Append(@, x), !.quote = x]
            ELSE IF x = "," THEN [acc EXCEPT !.parts = Append(@, acc.current), !.current = <<>>]
            ELSE [acc EXCEPT !.current = Append(@, x)]
        done == FoldLeft(step, [parts |-> <<>>, current |-> <<>>, quote |-> ""], t)
    IN  IF done.current = <<>> THEN done.parts ELSE Append(done.parts, done.current)

\* t with every doubled quote made one.
Undoubled(t) ==
    FoldLeft(LAMBDA acc, x :
        IF x = "'" /\ acc.half THEN [out |-> acc.out, half |-> FALSE]
        ELSE [out |-> Append(acc.out, x), half |-> x = "'"],
        [out |-> <<>>, half |-> FALSE], t).out

\* _parse_sql_value: NULL, TRUE, a quoted text, a number, or the text itself.
ParseSqlValue(raw) ==
    LET v == Strip(raw) IN
    CASE v = <<"NULL">> -> None
      [] v = <<"TRUE">> -> Truth
      [] v # <<>> /\ Head(v) \in {"'", "\""} /\ Last(v) = Head(v) -> Str(Undoubled(SubSeq(v, 2, Len(v) - 1)))
      [] Len(v) = 1 /\ Digit(Head(v)) -> Num(CHOOSE n \in 0..9 : ToString(n) = Head(v))
      [] OTHER -> Str(v)

\* What _INSERT_RE takes for the values: up to the first ")" with a ";" after
\* it, on one line, or no match at all.
MatchedValues(values) ==
    LET t == values \o <<")", ";">>
        stop == Min({i \in 2..(Len(t) - 1) : t[i] = ")" /\ t[i + 1] = ";"} \cup {Len(t)})
        m == SubSeq(t, 1, stop - 1)
    IN  IF stop = Len(t) \/ "\n" \in ToSet(m) THEN <<>> ELSE m

\* The tables in the order of their first INSERT, the columns of that INSERT,
\* and the values of every INSERT in their positions.
SqlToXlsxAnswer(r) ==
    LET inserts == SelectSeq(r.doc, LAMBDA q : "insert" \in DOMAIN q /\ MatchedValues(q.values) # <<>>)
        names == Distinct([i \in DOMAIN inserts |-> inserts[i].insert])
        of(name) == SelectSeq(inserts, LAMBDA q : q.insert = name)
        columns(name) == of(name)[1].columns
        row(q) ==
            LET v == SplitValues(MatchedValues(q.values))
            IN  [j \in 1..Max({Len(v), Len(columns(q.insert))}) |->
                    IF j \in DOMAIN v THEN ParseSqlValue(v[j]) ELSE None]
    IN  Require(r.isSql, 400,
        Require(r.size <= MaxUploadBytes(r.principal), 413,
        Require(inserts # <<>>, 400,
        Done(NewBook(names, [k \in DOMAIN names |->
            WithHeader(Texts(columns(names[k])),
                       [i \in DOMAIN of(names[k]) |-> row(of(names[k])[i])], r.include)])))))

XlsxToSql == Asked("xlsx-to-sql") /\ Reply(XlsxToSqlAnswer(request))
SqlToXlsx == Asked("sql-to-xlsx") /\ Reply(SqlToXlsxAnswer(request))

-----------------------------------------------------------------------------
(* XML: an element has a tag, a name attribute or none (<<>>), elements in  *)
(* it and a text.                                                          *)

Element(tag, name, kids, text) == [tag |-> tag, name |-> name, kids |-> kids, text |-> text]

\* _safe_xml_tag.
SafeXmlTag(raw, fallback) ==
    LET tag == StripAll([i \in DOMAIN Strip(raw) |->
                   IF Letter(Strip(raw)[i]) \/ Digit(Strip(raw)[i]) \/ Strip(raw)[i] \in {"_", ".", "-"}
                   THEN Strip(raw)[i] ELSE "_"], {"_", ".", "-"})
    IN  IF tag = <<>> THEN fallback
        ELSE IF Digit(Head(tag)) THEN fallback \o <<"_">> \o tag ELSE tag

\* dedupe_headers with tag_safe.
XmlHeaders(row) ==
    NumberedAll([j \in DOMAIN row |->
        LET fallback == <<"column", "_", ToString(j)>>
        IN  SafeXmlTag(Or(Strip(row[j].text), fallback), fallback)])

SafeXmlValue(c) == IF c.kind = "bool" THEN <<"true">> ELSE c.text

XlsxToXmlAnswer(r) ==
    LET rowElement(headers, row) ==
            Element(SafeXmlTag(r.rowTag, <<"row">>), <<>>,
                    [j \in DOMAIN headers |-> Element(headers[j], <<>>, <<>>, SafeXmlValue(Cell(row, j)))], <<>>)
        sheet(title, rows) ==
            Element(<<"sheet">>, title,
                    IF rows = <<>> THEN <<>>
                    ELSE [i \in 1..(Len(rows) - 1) |-> rowElement(XmlHeaders(rows[1]), rows[i + 1])], <<>>)
    IN  WithData(r, LAMBDA book : OnSelected(book, NormalizeSheetSelection(r.sheets), LAMBDA targets :
            Done(Element(SafeXmlTag(r.rootTag, <<"workbook">>), <<>>,
                         [k \in DOMAIN targets |-> sheet(targets[k], RowsOf(book, targets[k]))], <<>>))))

\* The table in a list of row elements: a row knows the columns seen so far.
TableOf(rowElements) ==
    LET tags(i) == [k \in DOMAIN rowElements[i].kids |-> rowElements[i].kids[k].tag]
        headers(i) == Distinct(FlattenSeq([k \in 1..i |-> tags(k)]))
        \* Of several cells with one tag the last one counts.
        value(i, h) ==
            LET at == {k \in DOMAIN tags(i) : tags(i)[k] = h}
            IN  IF at = {} THEN <<>> ELSE Strip(rowElements[i].kids[Max(at)].text)
    IN  [headers |-> headers(Len(rowElements)),
         rows |-> [i \in DOMAIN rowElements |-> [j \in DOMAIN headers(i) |-> Str(value(i, headers(i)[j]))]]]

\* _extract_tables: every child up to the first whose first row is flat; an
\* equal name overwrites, in the place of the first.  If there is none, the
\* root itself may be a table.
XmlTables(root) ==
    LET flat == {k \in DOMAIN root.kids : root.kids[k].kids # <<>> /\ root.kids[k].kids[1].kids = <<>>}
        before == SubSeq(root.kids, 1, Min(flat \cup {Len(root.kids) + 1}) - 1)
        full == SelectSeq(before, LAMBDA e : e.kids # <<>>)
        name(e) == Or(e.name, e.tag)
        names == Distinct([k \in DOMAIN full |-> name(full[k])])
        last(n) == CHOOSE k \in DOMAIN full : name(full[k]) = n /\ \A m \in (k + 1)..Len(full) : name(full[m]) # n
    IN  IF full # <<>> THEN [k \in DOMAIN names |-> [name |-> names[k], table |-> TableOf(full[last(names[k])].kids)]]
        ELSE IF root.kids # <<>> /\ root.kids[1].kids # <<>>
        THEN << [name |-> root.tag, table |-> TableOf(root.kids)] >>
        ELSE <<>>

XmlToXlsxAnswer(r) ==
    LET tables == XmlTables(r.doc) IN
    Require(r.isXml, 400,
    Require(r.size <= MaxUploadBytes(r.principal), 413,
    Require(r.wellFormed, 400,
    Require(tables # <<>>, 400,
    Done(NewBook([k \in DOMAIN tables |-> tables[k].name],
                 [k \in DOMAIN tables |->
                    WithHeader(Texts(tables[k].table.headers), tables[k].table.rows, r.include)]))))))

XlsxToXml == Asked("xlsx-to-xml") /\ Reply(XlsxToXmlAnswer(request))
XmlToXlsx == Asked("xml-to-xlsx") /\ Reply(XmlToXlsxAnswer(request))

-----------------------------------------------------------------------------
(* PDF: the tables of the document, a column by its width and a cell by the *)
(* tokens that are shown.  A token is one unit wide, the padding one.      *)

\* _natural_col_widths.
NaturalWidth(rows, j) ==
    Max({MinCol} \cup {Min({PageWidth, Len(rows[i][j].text) + 1}) : i \in {i \in DOMAIN rows : j \in DOMAIN rows[i]}})

\* _group_columns_by_page: as many columns as fit, and at least one.
ColumnGroups(widths) ==
    FoldLeft(LAMBDA groups, j :
        IF groups # <<>> /\ FoldLeft(LAMBDA a, k : a + widths[k], widths[j], Last(groups)) <= PageWidth
        THEN [groups EXCEPT ![Len(groups)] = Append(@, j)] ELSE Append(groups, <<j>>),
        <<>>, [j \in DOMAIN widths |-> j])

\* _truncate.
Truncated(t, n) == IF Len(t) > n THEN SubSeq(t, 1, n) \o <<"...">> ELSE t

\* The tables of one sheet in the three modes; num_cols is their Width.
SheetTables(rows, mode) ==
    LET n == Width(rows)
        all == [j \in 1..n |-> j]
        table(columns, width(_), Show(_)) ==
            [columns |-> columns, widths |-> [k \in DOMAIN columns |-> width(columns[k])],
             cells |-> [i \in DOMAIN rows |-> [k \in DOMAIN columns |-> Show(Cell(rows[i], columns[k]).text)]]]
        even == Max({MinCol, Min({MaxCol, PageWidth \div n})})
        limit == Max({6, even - 3})
    IN  CASE mode = "fit" ->
               LET groups == ColumnGroups([j \in 1..n |-> NaturalWidth(rows, j)])
               IN  [g \in DOMAIN groups |->
                       table(groups[g], LAMBDA j : Min({PageWidth, NaturalWidth(rows, j)}), LAMBDA t : t)]
          [] mode = "wrap" -> <<table(all, LAMBDA j : Max({MinCol, PageWidth \div n}), LAMBDA t : t)>>
          [] OTHER -> <<table(all, LAMBDA j : even, LAMBDA t : Truncated(t, limit))>>

\* _build_pdf: an empty sheet is skipped.  Without a column the width of one is
\* a division by zero, except in the mode "fit", which shows a title only.
XlsxToPdfAnswer(r) ==
    LET filled(book, targets) == SelectSeq(targets, LAMBDA t : RowsOf(book, t) # <<>>)
    IN  WithData(r, LAMBDA book : OnSelected(book, NormalizeSheetSelection(r.sheets), LAMBDA targets :
        Require(\A t \in ToSet(filled(book, targets)) : r.mode = "fit" \/ Width(RowsOf(book, t)) > 0, 500,
        Require(filled(book, targets) # <<>>, 400,
        Done([k \in DOMAIN filled(book, targets) |->
                [title |-> filled(book, targets)[k],
                 tables |-> SheetTables(RowsOf(book, filled(book, targets)[k]), r.mode)]])))))

XlsxToPdf == Asked("xlsx-to-pdf") /\ Reply(XlsxToPdfAnswer(request))

ConvertNext ==
    \/ XlsxToCsv \/ XlsxToCsvZip \/ CsvToXlsx \/ XlsxToJson \/ JsonToXlsx
    \/ XlsxToSql \/ SqlToXlsx \/ XlsxToXml \/ XmlToXlsx \/ XlsxToPdf

-----------------------------------------------------------------------------
(* Properties.                                                             *)

\* The workbook as a conversion reads it, and the sheets it was asked for.
ReadBook(r) == MapBook(r.file.book, LAMBDA rows : ReadRows(r.file.ext, rows))
Wanted(r) ==
    LET selected == NormalizeSheetSelection(r.sheets)
    IN  IF selected = <<>> THEN Titles(r.file.book) ELSE Distinct(selected)

\* A title that the readers of the other formats leave as it is.
Plain(title) == SafeSheetTitle(title, <<"Sheet">>) = title
PlainTitles(titles) ==
    /\ \A k \in DOMAIN titles : Plain(titles[k])
    /\ \A k, m \in DOMAIN titles : Folded(titles[k]) = Folded(titles[m]) => k = m

\* Export to a ZIP of CSV files: one member per sheet asked for with the rows
\* of that sheet, and no two members with one name, whatever the titles.
EverySheetHasItsCsv ==
    Answered("xlsx-to-csv-zip") =>
        LET out == answer.result
            book == ReadBook(request)
            asked == IF request.sheets = <<>> THEN Titles(book) ELSE request.sheets
        IN  /\ Len(out) = Len(asked)
            /\ \A k, m \in DOMAIN out : out[k].name = out[m].name => k = m
            /\ \A k \in DOMAIN out : out[k].rows = CsvRows(RowsOf(book, asked[k]))

\* A workbook exported to JSON and read back has its sheets again, each with its
\* headers made unique and every data row, a blank cell as an empty text and a
\* text that starts with "=" as a formula.
\* (A sheet without data rows comes back empty; a lone sheet loses its title;
\* two sheets called "headers" and "rows" are taken for one table.)
JsonComesBack ==
    Answered("xlsx-to-json") =>
        LET book == ReadBook(request)
            wanted == Wanted(request)
            back == JsonToXlsxAnswer([tool |-> "json-to-xlsx", principal |-> "free", isJson |-> TRUE,
                        size |-> 0, wellFormed |-> TRUE, include |-> TRUE, doc |-> answer.result])
        IN  ( /\ PlainTitles(wanted)
              /\ \A k \in DOMAIN wanted : Len(RowsOf(book, wanted[k])) > 1
              /\ ~({<<"headers">>, <<"rows">>} \subseteq ToSet(wanted) /\ Len(wanted) <= 3) )
            => /\ back.status = 200
               /\ Len(back.result) = Len(wanted)
               /\ \A k \in DOMAIN wanted :
                     LET rows == RowsOf(book, wanted[k])
                         headers == DedupeHeaders(rows[1])
                     IN  /\ Len(wanted) > 1 => back.result[k].title = wanted[k]
                         /\ back.result[k].rows = MapRows(<<Texts(headers)>> \o
                                [i \in 1..(Len(rows) - 1) |->
                                    [j \in DOMAIN headers |-> Written(Cell(rows[i + 1], j))]], Stored)

\* A workbook exported to SQL and read back has the same values in the same
\* places, quotes, commas and brackets in a text included (one that starts with
\* "=" is a formula), if the tables have different names and no text holds a line
\* break or ");".
SqlComesBack ==
    Answered("xlsx-to-sql") =>
        LET book == ReadBook(request)
            wanted == Wanted(request)
            names == [k \in DOMAIN wanted |-> SafeIdentifier(request.prefix \o wanted[k])]
            back == SqlToXlsxAnswer([tool |-> "sql-to-xlsx", principal |-> "free", isSql |-> TRUE,
                        size |-> 0, include |-> TRUE, doc |-> answer.result])
            tame(c) == /\ "\n" \notin ToSet(c.text)
                       /\ \A i \in 1..(Len(c.text) - 1) : c.text[i] # ")" \/ c.text[i + 1] # ";"
            value(c) == IF c.kind \in {"real", "date"} THEN Str(c.text) ELSE Stored(c)
        IN  ( /\ PlainTitles(names)
              /\ Len(NormalizeSheetSelection(request.sheets)) <= Len(wanted)
              /\ \A k \in DOMAIN wanted :
                    LET rows == RowsOf(book, wanted[k]) IN
                    /\ Len(rows) > 1 /\ rows[1] # <<>>
                    /\ \A i \in 2..Len(rows) : \A j \in DOMAIN rows[i] : tame(rows[i][j]) )
            => /\ back.status = 200
               /\ Titles(back.result) = names
               /\ \A k \in DOMAIN wanted :
                     LET rows == RowsOf(book, wanted[k]) IN
                     /\ Len(back.result[k].rows) = Len(rows)
                     /\ \A i \in 2..Len(rows) : \A j \in DOMAIN rows[1] :
                           back.result[k].rows[i][j] = value(Cell(rows[i], j))

\* The type of a column in CREATE TABLE: a column of one kind of value has the
\* type of that kind, and a column with a text in it is TEXT.  (Numbers among
\* dates are left in a DATE column.)
ColumnTypesHold ==
    Answered("xlsx-to-sql") =>
        \A q \in {q \in ToSet(answer.result) : "create" \in DOMAIN q} :
        \A k \in DOMAIN Wanted(request) :
            LET rows == RowsOf(ReadBook(request), Wanted(request)[k])
                kinds(j) == {Cell(rows[i], j).kind : i \in {i \in 2..Len(rows) : ~Blank(Cell(rows[i], j))}}
                named(kind) == [bool |-> "BOOLEAN", number |-> "INTEGER", real |-> "REAL",
                                date |-> "DATE", text |-> "TEXT"][kind]
            IN  (q.create = SafeIdentifier(request.prefix \o Wanted(request)[k]) /\ Len(answer.result) = Len(rows)) =>
                    \A j \in DOMAIN q.columns :
                        /\ \A kind \in kinds(j) : kinds(j) = {kind} => q.types[j] = named(kind)
                        /\ "text" \in kinds(j) => q.types[j] = "TEXT"

\* A workbook exported to XML and read back has its sheets again, those without
\* a data row left out, with the headers made into tags and every value as a
\* text without the spaces around it, or as a formula if it starts with "=".
XmlComesBack ==
    Answered("xlsx-to-xml") =>
        LET book == ReadBook(request)
            wanted == SelectSeq(Wanted(request), LAMBDA t : Len(RowsOf(book, t)) > 1)
            back == XmlToXlsxAnswer([tool |-> "xml-to-xlsx", principal |-> "free", isXml |-> TRUE,
                        size |-> 0, wellFormed |-> TRUE, include |-> TRUE, doc |-> answer.result])
        IN  (/\ PlainTitles(wanted) /\ wanted # <<>>
             /\ \A k \in DOMAIN wanted : RowsOf(book, wanted[k])[1] # <<>>)
            => /\ back.status = 200
               /\ Titles(back.result) = wanted
               /\ \A k \in DOMAIN wanted :
                     LET rows == RowsOf(book, wanted[k])
                         headers == XmlHeaders(rows[1])
                     IN  back.result[k].rows = MapRows(<<Texts(headers)>> \o
                             [i \in 1..(Len(rows) - 1) |->
                                 [j \in DOMAIN headers |-> Str(Strip(SafeXmlValue(Cell(rows[i + 1], j))))]], Stored)

\* The PDF in its mode "fit": the tables of a sheet have every column once, in
\* order, with every row; no table is wider than the page, and a column was put
\* on the next page only because it did not fit on this one.  (The two other
\* modes run off the page once there are more columns than narrowest columns.)
EveryColumnIsOnAPage ==
    Answered("xlsx-to-pdf") =>
        \A k \in DOMAIN answer.result :
            LET rows == RowsOf(ReadBook(request), answer.result[k].title)
                tables == answer.result[k].tables
                width(t) == FoldLeft(LAMBDA a, w : a + w, 0, t.widths)
            IN  /\ FlattenSeq([g \in DOMAIN tables |-> tables[g].columns]) = [j \in 1..Width(rows) |-> j]
                /\ \A g \in DOMAIN tables : Len(tables[g].cells) = Len(rows)
                /\ (request.mode = "fit" \/ Width(rows) * MinCol <= PageWidth) =>
                      \A g \in DOMAIN tables : width(tables[g]) <= PageWidth
                /\ request.mode = "fit" =>
                      \A g \in 1..(Len(tables) - 1) : width(tables[g]) + Head(tables[g + 1].widths) > PageWidth

\* What is converted is all there: every sheet has its file, every column its
\* page and a type that holds it, and what this program wrote it reads again.
ConvertInv ==
    /\ EverySheetHasItsCsv /\ JsonComesBack /\ SqlComesBack /\ ColumnTypesHold
    /\ XmlComesBack /\ EveryColumnIsOnAPage
=============================================================================
