------------------------------ MODULE MCServer ------------------------------
(* The parts of the server that share no state, one of them per behaviour. *)
EXTENDS CleanTools, TableTools, ReportTools, FileTools, ConvertTools, AdminQueries,
        InspectStore, UserProfile, ContactDelivery, Analytics

CONSTANTS t1, t2, t3, t4, t5
VARIABLE part       \* the part that runs in this behaviour; the others stay as they start

A == Str(<<"a">>)
B == Str(<<"b">>)
File(ext, book) == [ext |-> ext, size |-> 1, genuine |-> TRUE, drawings |-> FALSE,
                    brokenDrawings |-> FALSE, book |-> book]
Sheet(title, rows) == [title |-> <<title>>, rows |-> rows]

\* One good upload of each kind, and uploads that are refused or lose drawings.
Exts == {"xlsx", "xls", "xlsb"}
OddFiles(book) ==
    { [File("xlsx", book) EXCEPT !.size = 2], [File("xlsx", book) EXCEPT !.size = 3],
      [File("txt", book) EXCEPT !.size = 3], [File("xls", book) EXCEPT !.genuine = FALSE],
      [File("xlsx", book) EXCEPT !.genuine = FALSE],
      [File("xlsx", book) EXCEPT !.drawings = TRUE],
      [File("xlsx", book) EXCEPT !.drawings = TRUE, !.brokenDrawings = TRUE] }
\* The form f with a file of each kind for each book.
Uploads(f, books) == {[file |-> File(e, b)] @@ f : e \in Exts, b \in books}
Odd(f, book) == {[file |-> x, principal |-> p] @@ f : x \in OddFiles(book), p \in {"anon", "free"}}

X == Str(<<"x">>)
Y == Str(<<" ", "y">>)
Headers2 == {<<X, Y>>, <<X, X>>, <<X, None>>}

-----------------------------------------------------------------------------
TextCells == {None, Num(1), Str(<<" ", "a", " ">>), Str(<<"A", " ", " ", "b">>), Formula(<<"=", " ", "a">>, 2)}
TextBooks ==
    {<<Sheet("s", <<h, <<c, d>>, <<A, Num(2)>> >>), Sheet("t", << <<Y>>, <<Str(<<" ", "B">>)>> >>)>> :
        h \in Headers2, c \in TextCells, d \in {Num(1), Str(<<" ", "a", " ">>)}}
TextForms ==
    [sheet : {<<"s">>, <<" ", "t">>}, allSheets : {FALSE},
     columns : {<<>>, <<"x">>, <<"y", " ", ",", "x">>}, principal : {"free"}]
    \cup [sheet : {<<>>}, allSheets : {TRUE}, columns : {<<>>, <<"y">>}, principal : {"free"}]
    \cup [sheet : {<<"u">>, <<" ">>}, allSheets : {FALSE}, columns : {<<>>}, principal : {"free"}]
With(tool, forms, more) == {[tool |-> tool] @@ m @@ f : f \in forms, m \in more}
AnyText == <<Sheet("s", << <<X>>, <<Str(<<" ", "a">>)>> >>)>>
AnyForm == [sheet |-> <<"s">>, allSheets |-> FALSE, columns |-> <<>>]

TrimRequests ==
    UNION {Uploads(f, TextBooks) : f \in With("trim-spaces", TextForms, {[collapse |-> TRUE], [collapse |-> FALSE]})}
    \cup Odd([tool |-> "trim-spaces", collapse |-> TRUE] @@ AnyForm, AnyText)
ReplaceMore ==
    { [find |-> f, with |-> w, regex |-> x, matchCase |-> m] :
        f \in {"a", ""}, w \in {<<>>, <<"a", "a">>}, x \in {FALSE}, m \in {TRUE} }
    \cup { [find |-> f, with |-> <<"1">>, regex |-> TRUE, matchCase |-> FALSE] : f \in {"a", ".", "("} }
ReplaceRequests ==
    UNION {Uploads(f, TextBooks) : f \in With("find-replace", TextForms, ReplaceMore)}
CaseRequests ==
    UNION {Uploads(f, TextBooks) : f \in With("normalize-case", TextForms, {[mode |-> m] : m \in {"lower", "title"}})}
    \cup UNION {Uploads(f, {AnyText}) : f \in With("normalize-case", TextForms, {[mode |-> m] : m \in {"upper", "other"}})}

-----------------------------------------------------------------------------
KeyRows == {<<A, A>>, <<A, B>>, <<Num(1), B>>, <<Truth, None>>, <<None, B>>}
DupBooks ==
    {<<Sheet("s", <<h, p, q, w>>), Sheet("t", << <<Y>>, <<A>>, <<A>> >>)>> :
        h \in Headers2, p \in KeyRows, q \in KeyRows, w \in {<<A, B>>, <<Num(1), None>>}}
DupForms ==
    { [sheet |-> <<"s">>, allSheets |-> FALSE, columns |-> c, principal |-> "free", keep |-> k] :
        c \in {<<>>, <<"x">>, <<"y", ",", "x">>, <<"z">>}, k \in {"first", "last"} }
    \cup { [sheet |-> <<>>, allSheets |-> TRUE, columns |-> <<"y">>, principal |-> "free", keep |-> k] :
        k \in {"first", "other"} }
DuplicateRequests == UNION {Uploads([tool |-> "remove-duplicates"] @@ f, DupBooks) : f \in DupForms}

BlankRows == {<<None, None>>, <<Str(<<" ">>), None>>, <<A, None>>, <<None, Num(1)>>}
EmptyBooks ==
    {<<Sheet("s", <<h, p, q, w>>), Sheet("t", << <<None>>, <<None>>, <<A>>, <<None>> >>), Sheet("u", <<>>)>> :
        h \in {<<X, Y>>, <<None, None>>}, p \in BlankRows, q \in BlankRows, w \in BlankRows}
EmptyRequests ==
    UNION {Uploads([tool |-> "remove-empty-rows", sheets |-> n, principal |-> "free"], EmptyBooks) :
        n \in {<<>>, <<"s">>, <<"t", ",", "z", ",", "u">>, <<",">>}}

-----------------------------------------------------------------------------
Form(tool, book) == [tool |-> tool, principal |-> "free", file |-> File("xlsx", book)]

SortCells == {None, A, Str(<<"A">>), B, Num(2)}
SortBooks ==
    {<<Sheet("s", <<h, <<c, Num(1)>>, <<d, Truth>>, <<e, Num(2)>>, <<A, A>> >>), Sheet("t", <<>>)>> :
        h \in {<<X, Y>>, <<X, X>>}, c \in SortCells, d \in SortCells, e \in {None, Str(<<"A">>)}}
SortKey(c, d) == [column |-> <<c>>, direction |-> d]
SortForms ==
    { [sheet |-> <<"s">>, keys |-> k, validJson |-> TRUE, hasHeader |-> TRUE] :
        k \in { <<SortKey("x", a)>> : a \in {"asc", "desc"} }
              \cup { <<SortKey("x", a), SortKey(" ", "asc"), SortKey("y", b)>> : a \in {"asc", "desc"}, b \in {"desc", "down"} }
              \cup { <<SortKey("z", "asc")>>, <<>> } }
    \cup { [sheet |-> <<t>>, keys |-> <<SortKey("x", "asc")>>, validJson |-> v, hasHeader |-> h] :
        t \in {"s", "t", "u"}, v \in BOOLEAN, h \in BOOLEAN }
SortRequests == {Form("sort-rows", b) @@ f : b \in SortBooks, f \in SortForms}

SplitCells == {None, Num(1), Str(<<>>), Str(<<"a", ",", "b">>), Str(<<",", "a", ",", ",">>), Str(<<"a", "-", "b">>)}
ColumnBooks ==
    {<<Sheet("s", <<h, <<A, c, B>>, <<B, d>> >>), Sheet("t", << <<X>> >>)>> :
        h \in {<<X, Y, None>>, <<None, Y, Y>>, <<Y>>}, c \in SplitCells, d \in SplitCells}
ColumnForms ==
    { [sheet |-> <<"s">>, column |-> <<n>>, delimiter |-> d, keepOriginal |-> k] :
        n \in {"y", "None", "z"}, d \in {"comma", "-"}, k \in BOOLEAN }
    \cup { [sheet |-> <<t>>, column |-> <<"x">>, delimiter |-> "", keepOriginal |-> TRUE] : t \in {"s", "t", "u"} }
ColumnRequests ==
    {[Form("split-column", b) @@ f EXCEPT !.file.ext = e] : b \in ColumnBooks, f \in ColumnForms, e \in {"xlsx", "xlsb"}}

FewCells == {None, A, Num(1)}
Ragged == {<<>>} \cup { <<c>> : c \in FewCells } \cup { <<c, d>> : c \in FewCells, d \in FewCells }
TransposeRequests ==
    { [Form("transpose-sheet", <<Sheet("s", rows), Sheet("t", << <<A>> >>)>>) EXCEPT !.file.ext = e]
        @@ [sheet |-> <<n>>] :
        rows \in {<<>>} \cup { <<p, q, <<B>> >> : p \in Ragged, q \in Ragged }, n \in {"s", "u"}, e \in {"xlsb"} }

MergeHeaders == {<<X, Y>>, <<Y, X>>, <<X, X>>, <<None, B>>, <<X>>}
MergeBooks ==
    { <<Sheet("s", <<h, <<A, Num(1)>>, <<None, B>> >>), Sheet("t", <<k, <<Num(2), A>> >>), Sheet("u", m)>> :
        h \in MergeHeaders, k \in MergeHeaders, m \in {<<>>, << <<Str(<<"z">>), X>> >>} }
MergeRequests ==
    { Form("merge-sheets", b) @@ [sheetNames |-> n, outputSheet |-> o] : b \in MergeBooks,
        n \in {<<>>, <<"t", ",", "s">>, <<"u", ",", "s", ",", "s">>, <<"z">>}, o \in {<<"M">>, <<>>, <<"/">>} }

SplitBookTitles == {<<"a">>, <<"a", " ", "b">>, <<"a", "_", "b">>, <<"s">>}
SplitWorkbookRequests ==
    { Form("split-workbook", [k \in DOMAIN b |-> [title |-> b[k], rows |-> << <<Num(k)>> >>]]) @@ [sheetNames |-> n] :
        b \in {t \in SplitBookTitles \X SplitBookTitles \X SplitBookTitles : IsInjective(t)},
        n \in {<<>>, <<"a">>, <<"a", " ", "b", ",", "s">>, <<"z">>} }

PartRequests ==
    { Form("split-sheet", <<Sheet("s", IF n = 0 THEN <<>> ELSE <<<<X>>>> \o [i \in 1..(n - 1) |-> <<Num(i)>>])>>)
        @@ [sheet |-> <<t>>, chunkSize |-> c, partBase |-> b, separator |-> p, style |-> y, customSequence |-> q] :
        n \in 0..10, t \in {"s"}, c \in 1..4, b \in {<<"p">>, <<"l", "o", "n", "g">>, <<>>}, p \in {<<"_">>, <<>>},
        y \in {"numeric", "alpha", "roman", "custom"}, q \in {<<>>, <<"a", ",", "A", ",", "a">>} }
    \cup { Form("split-sheet", <<Sheet("s", <<<<X>>>>)>>)
        @@ [sheet |-> <<t>>, chunkSize |-> 2, partBase |-> <<"p">>, separator |-> p, style |-> y, customSequence |-> <<>>] :
        t \in {"s", "u"}, p \in {<<"_">>, <<"-", "-", "-", "-", "-">>}, y \in {"numeric", "other"} }

AppendTitles == {<<"a">>, <<"A">>, <<"l", "o", "n", "g">>}
AppendFiles ==
    { [File("xlsx", [k \in DOMAIN b |-> [title |-> b[k], rows |-> << <<Num(k), None>> >>]]) EXCEPT !.size = z]
        @@ [name |-> n] : b \in {<<>>} \cup {<<t>> : t \in AppendTitles} \cup {<<<<"a">>, <<"b">>>>},
        n \in {<<"f">>, <<"[", "l", "o", "n">>}, z \in {1, 2} }
AppendRequests ==
    { [tool |-> "append-workbooks", principal |-> p, files |-> f] : p \in {"anon", "free"},
        f \in {<<x>> : x \in AppendFiles} \cup (AppendFiles \X AppendFiles) \cup
             {<<x, [x EXCEPT !.name = <<"F">>], x>> : x \in AppendFiles} }

-----------------------------------------------------------------------------
Blankish == {None, Str(<<" ">>), A, Num(1), Formula(<<"=", "a">>, 0)}
BlankBooks ==
    {<<Sheet("s", <<h, <<c, d>>, <<e, None>>, <<A>> >>), Sheet("t", << <<X>>, <<e>> >>), Sheet("u", <<>>)>> :
        h \in {<<X, None>>, <<X>>}, c \in Blankish, d \in Blankish, e \in Blankish}
BlankRequests == Uploads([tool |-> "detect-blanks", principal |-> "free"], BlankBooks)

MailCells == {None, Str(<<" ", "a@b.co">>), Num(1), Str(<<" ">>)}
MailRequests ==
    {[Form("validate-emails", <<Sheet("s", <<h, <<A, c, B>>, <<d>>, <<c, d>> >>), Sheet("t", << <<X>> >>)>>) EXCEPT !.file.ext = e]
        @@ [sheet |-> <<t>>, column |-> <<n>>] :
        h \in {<<X, Y>>, <<Y, None, X>>, <<Y>>}, c \in MailCells, d \in MailCells, e \in {"xlsx", "xlsb"},
        t \in {"s", "t", "u"}, n \in {"y", "None"}}

StatCells == {None, A, Num(0), Num(3), Truth, Str(<<"2">>)}
StatBooks ==
    {<<Sheet("s", <<h, <<c, d>>, <<e, Str(<<" ">>)>> >>), Sheet("t", << <<X>>, <<d>> >>), Sheet("u", << <<Num(1)>> >>)>> :
        h \in {<<X, Y>>, <<None>>}, c \in StatCells, d \in StatCells, e \in StatCells}
StatRequests == {Form("summary-stats", b) : b \in StatBooks}

DiffCells == {None, Str(<<>>), Num(1), Formula(<<"=", "a">>, 1), Formula(<<"=", "b">>, 1), Formula(<<"=", "b">>, 0)}
DiffBooks(t) == {<<Sheet("s", << <<c, A>>, <<d>> >>), Sheet(t, << <<c>> >>)>> : c \in DiffCells, d \in DiffCells}
CompareForm(f, g) == [tool |-> "compare-workbooks", principal |-> "free", fileA |-> f, fileB |-> g]
CompareRequests ==
    {CompareForm(File("xlsx", a), File("xlsx", b)) : a \in DiffBooks("t"), b \in DiffBooks("t")}
    \cup {CompareForm(File("xlsx", a), File("xlsx", b)) : a \in DiffBooks("Summary"), b \in DiffBooks("t")}
    \cup UNION {{CompareForm(File("xlsx", <<Sheet(t, << <<A>> >>)>>), File("xlsx", <<Sheet(t, << <<c>> >>)>>)) :
                   c \in DiffCells} : t \in {"Summary", "summary"}}
    \cup {CompareForm(File("xlsx", <<Sheet("Summary", <<r>>), [title |-> <<"Summary", "_", "2">>, rows |-> <<r>>],
                                    Sheet(t, <<r>>)>>),
                       File("xlsx", <<Sheet("Summary", << <<c>> >>), [title |-> <<"Summary", "_", "2">>, rows |-> << <<A>> >>],
                                    Sheet(t, << <<A>> >>)>>)) :
            r \in {<<>>, <<Num(1)>>}, c \in {A, Num(1)}, t \in {"Sheet", "sheet"}}
    \cup {CompareForm(f, g) : f \in OddFiles(AnyText), g \in OddFiles(AnyText)}

ErrCells == {None, A, Str(<<"#N/A">>), Formula(<<"=", "a">>, 9), Formula(<<"#REF!">>, 1)}
ErrorRequests ==
    Uploads([tool |-> "scan-formula-errors", principal |-> "free"],
        {<<Sheet("s", << <<c, d>>, <<e>> >>), Sheet("t", << <<c>> >>)>> : c \in ErrCells, d \in ErrCells, e \in ErrCells})
    \cup Odd([tool |-> "scan-formula-errors"], AnyText)

-----------------------------------------------------------------------------
WidthCells == {None, A, Num(1), Str(<<"a", "b", "a">>), Str(<<"a", "b", "a", "b", "a", "b">>), Formula(<<"=", "a", "b">>, 1)}
WidthRequests ==
    {Form("auto-size-columns", <<Sheet("s", << <<c, d>>, <<e>> >>), Sheet("t", <<>>)>>) :
        c \in WidthCells, d \in WidthCells, e \in WidthCells}
    \cup {[Form("freeze-header", AnyText) EXCEPT !.file = f] @@ [rows |-> n] : n \in {0, 1, 100, 101}, f \in OddFiles(AnyText)}
LockBooks == {<<Sheet("s", <<>>), Sheet("t", <<>>), [title |-> t, rows |-> <<>>]>> :
    t \in {<<"a", ",", "b">>, <<" ", "s">>, <<"a", " ", "b">>}}
LockRequests ==
    {Form("password-protect", b) @@ [password |-> p, sheets |-> n, protectStructure |-> x, protectContent |-> c,
        protectFormatting |-> f, structure |-> y, locks |-> [s \in DOMAIN b |-> IF s = 1 THEN Open ELSE l]] :
        b \in LockBooks, p \in {"", "pw"}, x \in BOOLEAN, c \in BOOLEAN, f \in BOOLEAN, y \in BOOLEAN,
        n \in {<<>>, <<",">>, <<"t">>, <<"s", ",", "t">>, <<"a", " ", "b">>, <<"a", ",", "b">>, <<"z">>},
        l \in {Open, [Open EXCEPT !.sheet = TRUE, !.password = "old"]}}
    \cup {[Form("remove-password", AnyText) EXCEPT !.file = f] @@ [structure |-> TRUE] : f \in OddFiles(AnyText)}
StoreRequests ==
    [tool : {"store-file"}, kek : {"", "short", "k1", "k2"}, kekLater : {"", "short", "k1", "k2"},
     plain : {<<>>, <<"a">>, <<"a", "b">>}]

-----------------------------------------------------------------------------
CsvTitles == {<<"a">>, <<"A">>, <<"a", " ">>, <<" ", "?", "a">>, <<"a", "_", "2">>, <<",">>}
CsvRequests ==
    {Form("xlsx-to-csv-zip", [k \in DOMAIN b |-> [title |-> b[k], rows |-> << <<Num(k), None>> >>]]) @@ [sheets |-> n] :
        b \in {t \in CsvTitles \X CsvTitles \X CsvTitles : IsInjective(t)},
        n \in {<<>>, << <<"a">>, <<"a">>, <<"a">> >>, << <<"a", "_", "2">>, <<"A">> >>}}
    \cup {Form("xlsx-to-csv", <<Sheet("s", << <<c>>, <<>> >>)>>) @@ [sheet |-> <<t>>] : c \in TextCells, t \in {"s", "u"}}
    \cup [tool : {"csv-to-xlsx"}, principal : {"anon", "free"}, isCsv : BOOLEAN, size : {1, 2, 3}, delimiter : {<<",">>, <<>>},
          sheetName : {<<"s">>, <<>>, <<"\\">>}, doc : {<<>>, << <<>>, << <<"a">>, <<"=", "a">> >> >>}]

\* A formula without a saved value is exported as its text.
Uncalculated == Formula(<<"=", "a">>, 0)
PlainCells == {None, A, Num(1), Truth, Str(<<>>)}
JsonBooks ==
    {<<Sheet("s", <<h, <<c, d>>, <<e>> >>), Sheet(t, << <<X>>, <<e>> >>), Sheet(u, r)>> :
        h \in Headers2 \cup {<<Y, Y>>, <<Str(<<"column", "_", "2">>), None>>}, c \in PlainCells, d \in {None, Uncalculated}, e \in PlainCells,
        t \in {"t", "headers"}, u \in {"u", "rows"}, r \in {<<>>, << <<X>> >>, << <<X>>, <<A, A>> >>}}
ToJsonRequests ==
    {Form("xlsx-to-json", b) @@ [sheets |-> n] : b \in JsonBooks,
        n \in {<<>>, << <<"s">> >>, << <<"s", ",", "s">> >>, << <<"z">> >>}}
Scalars == {None, A, Num(1)}
JsonItems ==
    Scalars \cup {Array(<<>>), Array(<<A, Array(<<B>>)>>), Object(<<>>)}
        \cup {Object(<< <<k, v>>, <<<<"b">>, A>> >>) : k \in {<<"a">>, <<" ", "b">>}, v \in {None, Object(<<>>)}}
JsonLists == {Array(<<>>)} \cup {Array(<<i>>) : i \in JsonItems} \cup {Array(<<i, j>>) : i \in JsonItems, j \in JsonItems}
JsonDocs ==
    JsonLists \cup Scalars \cup {Object(<<>>)}
    \cup {Object(<< <<<<"headers">>, h>>, <<<<"rows">>, l>> >>) : h \in {Array(<<>>), Array(<<X, X>>), A}, l \in JsonLists}
    \cup {Object(<< <<k, l>>, <<<<"a">>, Array(<<A>>)>> >>) : k \in {<<>>, <<"A">>, <<"/">>}, l \in JsonLists}
FromJsonRequests ==
    [tool : {"json-to-xlsx"}, principal : {"free"}, isJson : {TRUE}, size : {1}, wellFormed : {TRUE},
     include : BOOLEAN, doc : JsonDocs]
    \cup [tool : {"json-to-xlsx"}, principal : {"anon"}, isJson : BOOLEAN, size : {1, 2}, wellFormed : BOOLEAN,
          include : {TRUE}, doc : {A}]

SqlCells ==
    {None, Num(1), Truth, Str(<<>>), Str(<<"'">>), Str(<<"a", "'", ",", " ">>), Str(<<"(", "a", ")", ";">>), Str(<<"NULL">>),
     Str(<<"a", "\n">>), Str(<<"\"", ")">>), [None EXCEPT !.kind = "date", !.text = <<"2", "-", "1">>],
     [None EXCEPT !.kind = "real", !.text = <<"1", ".", "2">>]}
SqlBooks ==
    {<<Sheet("s", <<<<X, h>>, <<c, d>>, <<e>> >>), [title |-> t, rows |-> << <<X>>, <<c>> >>]>> :
        h \in {X, None, Str(<<"1", " ">>)}, c \in SqlCells, d \in SqlCells, e \in {None, Uncalculated, Str(<<"'", ",">>)},
        t \in {<<"t">>, <<"s", " ">>}}
ToSqlRequests ==
    {Form("xlsx-to-sql", b) @@ [sheets |-> n, prefix |-> p] : b \in SqlBooks, n \in {<<>>, << <<"s">> >>}, p \in {<<>>, <<"1">>}}
    \cup {Form("xlsx-to-sql", <<Sheet("s", <<>>)>>) @@ [sheets |-> n, prefix |-> <<>>] : n \in {<<>>, << <<"z">> >>}}
SqlInsert(t, c, v) == [insert |-> <<t>>, columns |-> c, values |-> v]
SqlDocs ==
    {<<SqlInsert("s", << <<"a">>, <<"b">> >>, v), SqlInsert(t, << <<"b">> >>, w)>> : t \in {"s", "t"},
        v \in {<<>>, <<"1">>, <<"1", ",", "'", "a", "'">>, <<"1", ",", "2", ",", "3">>}, w \in {<<>>, <<"a", ",">>, <<" ", "TRUE">>}}
FromSqlRequests ==
    [tool : {"sql-to-xlsx"}, principal : {"anon", "free"}, isSql : BOOLEAN, size : {1, 2}, include : BOOLEAN, doc : SqlDocs]

XmlBooks ==
    {<<Sheet("s", <<h, <<c, d>>, <<e>> >>), Sheet("t", r), Sheet("u", << <<X>>, <<Str(<<" ", "a">>)>> >>)>> :
        h \in Headers2 \cup {<<Str(<<"1">>), Str(<<"?">>)>>, <<>>}, c \in PlainCells, d \in {None, Uncalculated}, e \in PlainCells,
        r \in {<<>>, << <<X>> >>, << <<X, X>>, <<A>> >>}}
ToXmlRequests ==
    {Form("xlsx-to-xml", b) @@ [sheets |-> n, rootTag |-> t, rowTag |-> t] : b \in XmlBooks,
        n \in {<<>>, << <<"t", ",", "s">> >>, << <<"z">> >>}, t \in {<<"row">>, <<"?">>}}
Leaf(t) == Element(<<t>>, <<>>, <<>>, <<" ", "a">>)
XmlRows == {Leaf("a"), Element(<<"row">>, <<>>, <<Leaf("a"), Leaf("b"), Leaf("a")>>, <<>>), Element(<<"row">>, <<>>, <<Leaf("b")>>, <<>>)}
XmlParts == {Leaf("b")} \cup {Element(<<"t">>, n, <<p, q>>, <<>>) : n \in {<<>>, <<"s">>}, p \in XmlRows, q \in XmlRows}
FromXmlRequests ==
    [tool : {"xml-to-xlsx"}, principal : {"free"}, isXml : {TRUE}, size : {1}, wellFormed : {TRUE}, include : BOOLEAN,
     doc : {Element(<<"A">>, <<>>, <<>>, <<>>)} \cup {Element(<<"A">>, <<>>, <<p, q>>, <<>>) : p \in XmlParts, q \in XmlParts}]
    \cup [tool : {"xml-to-xlsx"}, principal : {"anon"}, isXml : BOOLEAN, size : {1, 2}, wellFormed : BOOLEAN, include : {TRUE},
          doc : {Leaf("a")}]

Long(n) == Str([i \in 1..n |-> "a"])
PdfRows == {<<Long(a), Long(b), Long(c), Long(d)>> : a \in {1, 5, 20}, b \in {0, 6, 11}, c \in {2, 5}, d \in {3, 4}}
PdfRequests ==
    {Form("xlsx-to-pdf", <<Sheet("s", <<h, <<X>> >>), Sheet("t", r)>>) @@ [sheets |-> <<>>, mode |-> m] :
        h \in PdfRows \cup {<<X, X, X, X, X>>}, m \in {"fit", "wrap", "ellipsis"}, r \in {<<>>, << <<>>, <<>> >>, << <<X>> >>}}
    \cup {Form("xlsx-to-pdf", <<Sheet("s", <<>>)>>) @@ [sheets |-> n, mode |-> "fit"] : n \in {<<>>, << <<"z">> >>}}

-----------------------------------------------------------------------------
Happened(name, path, user, time, ok, n) ==
    [id |-> n, name |-> name, path |-> path, user |-> user, at |-> time, ok |-> ok]
Paths == {<<>>, <<"clean", "trim">>, <<"old", "trim">>, <<"merge">>, <<"split">>}
RankingRequests ==
    {[tool |-> "popular", limit |-> n,
      events |-> {Happened("tool_usage", p[i], "u", 1, i # 5, i) : i \in DOMAIN p}] :
        n \in {0, 1, 2, 9}, p \in {q \in [1..5 -> Paths] : q[1] # q[2] \/ q[3] = q[4]}}
UserMails == {<<"a", "x">>, <<"b", "A">>, <<"%">>}
Account(u, address, role, created) ==
    [id |-> u, mail |-> address, role |-> role, state |-> "active", created |-> created]
Tables ==
    {[users  |-> {Account("u", m, "admin", c), Account("v", <<"b", "x">>, "user", 3), Account("w", <<"x">>, "user", 5)},
      events |-> {Happened("tool_usage", <<"trim">>, "u", t, TRUE, 1), Happened("tool_usage", <<"trim">>, "v", 3, ok, 2),
                  Happened("tool_usage", <<"merge">>, "v", 4, FALSE, 3), Happened("file_upload", <<"trim">>, "u", c, TRUE, 4),
                  Happened("endpoint_performance", <<"trim">>, "u", t, ok, 5)},
      days   |-> {[user |-> "u", day |-> DateOf(t)], [user |-> "v", day |-> 1], [user |-> "v", day |-> 2]},
      jobs   |-> {[user |-> "u", kept |-> ok], [user |-> "v", kept |-> TRUE]},
      charges |-> "u" :> 2] :
        m \in UserMails, c \in {1, 3, 5}, t \in {1, 3, 5}, ok \in BOOLEAN}
QueryRequests ==
    UNION {{q @@ t : q \in
        [tool : {"trend", "kpi", "users", "tools", "performance"}, role : {"admin"}, from : {0, 2, 3, 5}]
        \cup [tool : {"users-list"}, role : {"admin", "user"}, onlyRole : {""}, onlyState : {"", "suspended"},
              search : {<<>>, <<" ", "A">>, <<"_", "x">>, <<"%">>}, page : 0..3, size : {1, 2, 101}]
        \cup [tool : {"users-list"}, role : {"admin"}, onlyRole : {"user"}, onlyState : {"active"}, search : {<<>>},
              page : {1, 2}, size : {0, 1}]
        \cup [tool : {"activity"}, role : {"admin"}, success : {"any", "yes", "no"}, path : {<<>>, <<"trim">>},
              offset : {0, 1}, limit : {1, 2, 201}]} : t \in Tables}

MCLetters == <<"A", "B", "C">>

-----------------------------------------------------------------------------
(* The store: three small workbooks, one that fills the byte budget alone    *)
(* and one that exceeds it.                                                  *)
MCTokens == {t1, t2, t3, t4, t5}
MCSize == t1 :> 1 @@ t2 :> 1 @@ t3 :> 1 @@ t4 :> 3 @@ t5 :> 4

\* Three of the workbooks have one size, and requests of a person are alike.
MCSymmetry == Permutations({t1, t2, t3}) \cup Permutations(AuthCalls)

MCLimit == [f \in Forms |-> IF f = "contact" THEN 2 ELSE 3]
MCHits == 1..2
MCPlan == <<[kind |-> "upload", user |-> "u"], [kind |-> "run", user |-> "u"]>>

ServerParts == {"tools", "store", "profile", "contact", "analytics"}
serverVars == <<part, sheetVars, vars, profileVars, contactVars, analyticsVars>>

PartsInit ==
    /\ part \in ServerParts
    /\ Init
    /\ ProfileInit /\ (part = "profile" \/ (row = NoRow /\ given = NoName /\ ~account /\ mail = CHOOSE m \in Mails : TRUE))
    /\ ContactInit /\ (part = "contact" \/ (form = "contact" /\ enabled = {} /\ ~secret))
    /\ AnalyticsInit /\ (part = "analytics" \/ profiles = {})
    /\ answer = Pending

ServerInit ==
    /\ PartsInit
    /\ \/ part # "tools" /\ request = [tool |-> "none"]
       \/ part = "tools" /\ request \in TrimRequests
       \/ part = "tools" /\ request \in ReplaceRequests
       \/ part = "tools" /\ request \in CaseRequests
       \/ part = "tools" /\ request \in DuplicateRequests
       \/ part = "tools" /\ request \in EmptyRequests
       \/ part = "tools" /\ request \in SortRequests
       \/ part = "tools" /\ request \in ColumnRequests
       \/ part = "tools" /\ request \in TransposeRequests
       \/ part = "tools" /\ request \in MergeRequests
       \/ part = "tools" /\ request \in SplitWorkbookRequests
       \/ part = "tools" /\ request \in PartRequests
       \/ part = "tools" /\ request \in AppendRequests
       \/ part = "tools" /\ request \in BlankRequests
       \/ part = "tools" /\ request \in MailRequests
       \/ part = "tools" /\ request \in StatRequests
       \/ part = "tools" /\ request \in CompareRequests
       \/ part = "tools" /\ request \in ErrorRequests
       \/ part = "tools" /\ request \in WidthRequests
       \/ part = "tools" /\ request \in LockRequests
       \/ part = "tools" /\ request \in StoreRequests
       \/ part = "tools" /\ request \in CsvRequests
       \/ part = "tools" /\ request \in ToJsonRequests
       \/ part = "tools" /\ request \in FromJsonRequests
       \/ part = "tools" /\ request \in ToSqlRequests
       \/ part = "tools" /\ request \in FromSqlRequests
       \/ part = "tools" /\ request \in ToXmlRequests
       \/ part = "tools" /\ request \in FromXmlRequests
       \/ part = "tools" /\ request \in PdfRequests
       \/ part = "tools" /\ request \in RankingRequests
       \/ part = "tools" /\ request \in QueryRequests

ServerNext ==
    \/ /\ part = "tools"
       /\ CleanNext \/ TableNext \/ ReportNext \/ FileNext \/ ConvertNext \/ QueryNext
       /\ UNCHANGED <<part, vars, profileVars, contactVars, analyticsVars>>
    \/ /\ part = "store" /\ Next
       /\ UNCHANGED <<part, sheetVars, profileVars, contactVars, analyticsVars>>
    \/ /\ part = "profile" /\ ProfileNext
       /\ UNCHANGED <<part, sheetVars, vars, contactVars, analyticsVars>>
    \/ /\ part = "contact" /\ ContactNext
       /\ UNCHANGED <<part, sheetVars, vars, profileVars, analyticsVars>>
    \/ /\ part = "analytics" /\ AnalyticsNext
       /\ UNCHANGED <<part, sheetVars, vars, profileVars, contactVars>>

ServerSpec == ServerInit /\ [][ServerNext]_serverVars

\* The two tools of which the repository says what the code does not do.
RearrangingInit == PartsInit /\ part = "tools" /\ (request \in SortRequests \/ request \in PartRequests)
RearrangingSpec == RearrangingInit /\ [][ServerNext]_serverVars

\* Files and conversions: what is sealed, protected or converted is there, and
\* comes back.
FormatInv == FileInv /\ ConvertInv
=============================================================================
