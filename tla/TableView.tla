----------------------------- MODULE TableView -----------------------------
(***************************************************************************)
(* The table of the Inspect Sheets page (InspectSheets.tsx): which of the  *)
(* rows at hand it shows, in which order and size, and the gestures that   *)
(* scroll it and change its sizes.  How the rows get there is the subject  *)
(* of InspectViewer; here they change as that page changes them: with the  *)
(* tab, with another workbook and with every answer.                       *)
(*                                                                         *)
(* A table is a sequence of rows, the header first, and a row a sequence   *)
(* of cells [kind, text, num]; rows need not be of one length.  What a     *)
(* search compares is in the constants: the lower case of a text, and the  *)
(* texts that contain another.                                             *)
(***************************************************************************)
EXTENDS Integers, Sequences, FiniteSets

CONSTANTS
    Grids,          \* the tables that may be at hand
    TabIndices,     \* indices of the tabs, 0 among them
    Texts,          \* the texts of the cells and what is typed in the quick search
    Trimmed,        \* Trimmed[t]: t without blanks around it
    LowerCase,      \* LowerCase[t]
    Within,         \* <<q, t>>: t contains q
    Rank,           \* Rank[t]: the place of t in the order of localeCompare, digits as numbers
    Inks,           \* widths of texts as they are drawn
    Shifts,         \* by how much a pointer moves
    Pointers,       \* pointer ids
    MaxEvents       \* bound on the events of a behaviour

DefaultColumnWidth == 180
MinColumnWidth == 72
MaxColumnWidth == 640
DefaultRowHeight == 44
CompactRowHeight == 30
MinRowHeight == 28
MaxRowHeight == 240

\* null, and the empty text: cells without a value both; that JSON.stringify tells
\* them apart is what num stands for here.
Blank == [kind |-> "empty", text |-> "", num |-> 0]
EmptyText == [Blank EXCEPT !.num = 1]
IsEmptyCell(cell) == cell.kind = "empty"

CellsOf(g) == UNION {{g[i][c] : c \in DOMAIN g[i]} : i \in DOMAIN g}

\* The order of localeCompare agrees with that of the numbers that occur.  (It
\* would not for negative ones, where the order of a mixed column has cycles.)
ASSUME TableViewAssumption ==
    /\ "" \in Texts /\ Trimmed \in [Texts -> Texts] /\ LowerCase \in [Texts -> Texts]
    /\ Rank \in [Texts -> Nat] /\ Trimmed[""] = "" /\ LowerCase[""] = ""
    /\ 0 \in TabIndices /\ Shifts \subseteq Int /\ Inks \subseteq Nat /\ MaxEvents \in Nat
    /\ Pointers \subseteq Nat
    /\ \A g \in Grids :
          Len(g) \in Nat /\ DOMAIN g = 1..Len(g) /\ \A i \in DOMAIN g : DOMAIN g[i] \subseteq Nat \ {0}
    /\ \A g \in Grids : \A x, y \in CellsOf(g) :
          /\ x.text \in Texts /\ x.num \in Nat
          /\ x.kind = "number" /\ y.kind = "number" => (x.num < y.num <=> Rank[x.text] < Rank[y.text])

VARIABLES
    opened,         \* a sheet is shown
    sheetTab,       \* activeSheetIndex
    atHand,         \* the table at hand: the header and pagedRows, or the sample
    globalQuery, sortColumnIndex, sortDirection,
    settings,       \* the switches that are not as they are at first
    columnWidths, rowHeights, columnWidthMode, rowDensity, baseRowHeight, decimalPlaces,
    menus,          \* the menus that are open: "stats", "decimal"
    resizeState,    \* resizeStateRef; NoHold: null
    isResizing, isPanningTable,
    panPointer,     \* tablePanStateRef.pointerId
    events

rowsShown == <<globalQuery, sortColumnIndex, sortDirection>>
sizes == <<columnWidths, rowHeights, columnWidthMode, rowDensity, baseRowHeight>>
gestures == <<resizeState, isResizing, isPanningTable, panPointer>>
tableVars == <<opened, sheetTab, atHand, rowsShown, settings, sizes, decimalPlaces, menus, gestures, events>>

Switches == {"stickyHeader", "hideRowNumbers", "caseSensitiveSearch", "hideEmptyRows",
             "highlightEmptyCells", "zebraRows", "fullWidthPreview"}
NoColumn == 0
NoPointer == -1
NoDecimals == -1
NoHold == [kind |-> "none", index |-> 0, pointerId |-> NoPointer, startSize |-> 0]

-----------------------------------------------------------------------------
(* What is shown: tableModel.                                              *)

TableColumns == UNION {DOMAIN atHand[i] : i \in DOMAIN atHand}
CellAt(i, c) == IF c \in DOMAIN atHand[i] THEN atHand[i][c] ELSE Blank

\* The text and the query that are compared.
Comparable(t) == IF "caseSensitiveSearch" \in settings THEN t ELSE LowerCase[t]

Matching(i) ==
    LET query == Comparable(Trimmed[globalQuery])
    IN  query = "" \/ \E c \in TableColumns : <<query, Comparable(CellAt(i, c).text)>> \in Within

Kept ==
    {i \in DOMAIN atHand :
        /\ Matching(i)
        /\ "hideEmptyRows" \in settings => \E c \in TableColumns : ~IsEmptyCell(CellAt(i, c))}

Smaller(x, y) ==
    IF x.kind = "number" /\ y.kind = "number" THEN x.num < y.num ELSE Rank[x.text] < Rank[y.text]

InOrder(x, y) == IF sortDirection = "asc" THEN Smaller(x, y) ELSE Smaller(y, x)

\* Variant for a mutation: blanks are turned with the direction.
BeforeTurned(i, j) ==
    LET left == CellAt(i, sortColumnIndex)
        right == CellAt(j, sortColumnIndex)
        blanks(x, y) == IsEmptyCell(y) /\ (IsEmptyCell(x) => i < j)
    IN  IF sortColumnIndex = NoColumn THEN i < j
        ELSE IF IsEmptyCell(left) \/ IsEmptyCell(right)
        THEN IF sortDirection = "asc" THEN blanks(left, right) ELSE blanks(right, left)
        ELSE InOrder(left, right) \/ (~InOrder(right, left) /\ i < j)

\* Row i stands before row j: by the sort column, blanks last in either
\* direction, and else as they come, since Array.sort is stable.
Before(i, j) ==
    LET left == CellAt(i, sortColumnIndex)
        right == CellAt(j, sortColumnIndex)
    IN  IF sortColumnIndex = NoColumn THEN i < j
        ELSE IF IsEmptyCell(left) \/ IsEmptyCell(right)
        THEN IsEmptyCell(right) /\ (IsEmptyCell(left) => i < j)
        ELSE InOrder(left, right) \/ (~InOrder(right, left) /\ i < j)

Place(i, kept) == Cardinality({j \in kept : Before(j, i)}) + 1
TableRows ==
    LET kept == Kept
    IN  [k \in 1..Cardinality(kept) |-> CHOOSE i \in kept : Place(i, kept) = k]

\* The statistics are of all rows at hand, those the table leaves out included.
EmptyCells(c) == Cardinality({i \in DOMAIN atHand : IsEmptyCell(CellAt(i, c))})
InferredType(c) ==
    LET found == {CellAt(i, c).kind : i \in DOMAIN atHand} \ {"empty"}
    IN  IF found = {} THEN "empty"
        ELSE IF \E kind \in found : found = {kind} THEN CHOOSE kind \in found : TRUE ELSE "mixed"
EmptyRows == Cardinality({i \in DOMAIN atHand : \A c \in TableColumns : IsEmptyCell(CellAt(i, c))})
DuplicateRows ==
    Len(atHand) - Cardinality({[c \in TableColumns |-> CellAt(i, c)] : i \in DOMAIN atHand})

ColumnWidth(c) == IF c \in DOMAIN columnWidths THEN columnWidths[c] ELSE DefaultColumnWidth
\* The height belongs to the place in the table, whatever row stands there.
RowHeight(k) == IF k \in DOMAIN rowHeights THEN rowHeights[k] ELSE baseRowHeight
RowNumber(k) == IF "hideEmptyRows" \in settings THEN TableRows[k] ELSE k

\* Variant for a mutation: nobody thought of the rows' heights.
IsViewDirtyButRows ==
    \/ Trimmed[globalQuery] # "" \/ sortColumnIndex # NoColumn
    \/ DOMAIN columnWidths # {}
    \/ columnWidthMode # "fixed" \/ rowDensity # "comfortable" \/ baseRowHeight # DefaultRowHeight
    \/ settings # {} \/ decimalPlaces # NoDecimals

IsViewDirty ==
    \/ Trimmed[globalQuery] # "" \/ sortColumnIndex # NoColumn
    \/ DOMAIN columnWidths # {} \/ DOMAIN rowHeights # {}
    \/ columnWidthMode # "fixed" \/ rowDensity # "comfortable" \/ baseRowHeight # DefaultRowHeight
    \/ settings # {} \/ decimalPlaces # NoDecimals

Clamp(value, min, max) == IF value < min THEN min ELSE IF value > max THEN max ELSE value
Sized(f, k, size) == [x \in DOMAIN f \cup {k} |-> IF x = k THEN size ELSE f[x]]
NoSizes == [x \in {} |-> 0]

-----------------------------------------------------------------------------

\* The effects of the first render have run.
TableInit ==
    /\ opened = FALSE /\ sheetTab = 0 /\ atHand \in Grids
    /\ globalQuery = "" /\ sortColumnIndex = NoColumn /\ sortDirection = "desc"
    /\ settings = {} /\ columnWidths = NoSizes /\ rowHeights = NoSizes
    /\ columnWidthMode = "fixed" /\ rowDensity = "comfortable" /\ baseRowHeight = DefaultRowHeight
    /\ decimalPlaces = NoDecimals /\ menus = {}
    /\ resizeState = NoHold /\ isResizing = FALSE /\ isPanningTable = FALSE /\ panPointer = NoPointer
    /\ events = 0

Event == events < MaxEvents /\ events' = events + 1
OnTable == opened /\ Event

StopTablePan == isPanningTable' = FALSE /\ panPointer' = NoPointer

\* The reset effect of the tab: the sizes and the switches stay.
ResetOfTab ==
    /\ globalQuery' = "" /\ sortColumnIndex' = NoColumn /\ sortDirection' = "desc"
    /\ menus' = {}
    /\ resizeState' = NoHold /\ isResizing' = FALSE
    /\ UNCHANGED <<isPanningTable, panPointer>>

\* The user clicks a tab.
ChooseSheetTab(s) ==
    /\ OnTable /\ s # sheetTab
    /\ sheetTab' = s /\ atHand' \in Grids
    /\ ResetOfTab
    /\ UNCHANGED <<opened, settings, sizes, decimalPlaces>>

\* onFile ends: the first tab of the new workbook.  The effect is that of the
\* index: from the first tab to the first tab nothing is reset.
WorkbookComes ==
    /\ Event
    /\ opened' = TRUE /\ sheetTab' = 0 /\ atHand' \in Grids
    /\ IF sheetTab # 0 THEN ResetOfTab ELSE UNCHANGED <<rowsShown, menus, gestures>>
    /\ UNCHANGED <<settings, sizes, decimalPlaces>>

WorkbookFails ==
    /\ Event
    /\ opened' = FALSE
    /\ UNCHANGED <<sheetTab, atHand, rowsShown, settings, sizes, decimalPlaces, menus, gestures>>

RowsCome ==
    /\ OnTable
    /\ atHand' \in Grids
    /\ UNCHANGED <<opened, sheetTab, rowsShown, settings, sizes, decimalPlaces, menus, gestures>>

-----------------------------------------------------------------------------
(* Search, sort and switches.                                              *)

QuickSearch(q) ==
    /\ OnTable /\ globalQuery' = q
    /\ UNCHANGED <<opened, sheetTab, atHand, sortColumnIndex, sortDirection, settings, sizes, decimalPlaces,
                   menus, gestures>>

SortedBy(column, direction) ==
    /\ sortColumnIndex' = column /\ sortDirection' = direction
    /\ UNCHANGED <<opened, sheetTab, atHand, globalQuery, settings, sizes, decimalPlaces, menus, gestures>>

ClearSorting == OnTable /\ SortedBy(NoColumn, "desc")

\* Descending first, then ascending, then as the rows come.
ToggleSort(c) ==
    /\ OnTable /\ c \in TableColumns
    /\ IF sortColumnIndex # c THEN SortedBy(c, "desc")
       ELSE IF sortDirection = "desc" THEN SortedBy(c, "asc") ELSE SortedBy(NoColumn, "desc")

Switch(o) ==
    /\ OnTable
    /\ settings' = IF o \in settings THEN settings \ {o} ELSE settings \cup {o}
    /\ UNCHANGED <<opened, sheetTab, atHand, rowsShown, sizes, decimalPlaces, menus, gestures>>

ToggleCaseSensitiveSearch == Switch("caseSensitiveSearch")
ToggleHideEmptyRows == Switch("hideEmptyRows")
ToggleHighlightEmptyCells == Switch("highlightEmptyCells")
ToggleZebraRows == Switch("zebraRows")
ToggleStickyHeader == Switch("stickyHeader")
ToggleRowNumbers == Switch("hideRowNumbers")
ToggleFullWidthPreview == Switch("fullWidthPreview")

-----------------------------------------------------------------------------
(* Menus and decimals.                                                     *)

MenuIs(open) ==
    /\ menus' = open
    /\ UNCHANGED <<opened, sheetTab, atHand, rowsShown, settings, sizes, gestures>>

ToggleMenu(m) ==
    /\ OnTable /\ MenuIs(IF m \in menus THEN menus \ {m} ELSE menus \cup {m})
    /\ UNCHANGED decimalPlaces

\* A pointer goes down outside of one menu or of both.
PointerDownOutside ==
    /\ Event
    /\ \/ \E m \in menus : MenuIs(menus \cap {m})
       \/ MenuIs({})
    /\ UNCHANGED decimalPlaces

ChangeDecimals ==
    /\ OnTable /\ "decimal" \in menus
    /\ \/ decimalPlaces' = IF decimalPlaces = NoDecimals THEN 0
                           ELSE IF decimalPlaces = 0 THEN NoDecimals ELSE decimalPlaces - 1
       \/ decimalPlaces' = IF decimalPlaces = NoDecimals THEN 1
                           ELSE IF decimalPlaces = 10 THEN 10 ELSE decimalPlaces + 1
    /\ MenuIs(menus)

NoMoreDecimals ==
    /\ OnTable /\ "decimal" \in menus /\ decimalPlaces # NoDecimals
    /\ decimalPlaces' = NoDecimals
    /\ MenuIs(menus \ {"decimal"})

-----------------------------------------------------------------------------
(* Sizes.                                                                  *)

\* autofitColumnWidth, on a double click: the widest of the header and of the
\* first 300 rows, and 28 pixels.
AutofitColumnWidth(c, ink) ==
    /\ OnTable /\ c \in TableColumns
    /\ columnWidths' = Sized(columnWidths, c, Clamp(ink + 28, MinColumnWidth, MaxColumnWidth))
    /\ UNCHANGED <<opened, sheetTab, atHand, rowsShown, settings, rowHeights, columnWidthMode, rowDensity,
                   baseRowHeight, decimalPlaces, menus, gestures>>

\* autofitAllColumns: every column gets a width of its own; resetColumnWidths:
\* the default one.
ToggleColumnWidthMode(ink) ==
    /\ OnTable
    /\ IF columnWidthMode = "fixed"
       THEN /\ columnWidthMode' = "expanded"
            /\ columnWidths' = IF TableColumns = {} THEN columnWidths
                               ELSE [c \in TableColumns |-> Clamp(ink + 28, MinColumnWidth, MaxColumnWidth)]
       ELSE /\ columnWidthMode' = "fixed"
            /\ columnWidths' = [c \in TableColumns |-> DefaultColumnWidth]
    /\ UNCHANGED <<opened, sheetTab, atHand, rowsShown, settings, rowHeights, rowDensity, baseRowHeight,
                   decimalPlaces, menus, gestures>>

ToggleRowDensity ==
    /\ OnTable
    /\ IF rowDensity = "comfortable"
       THEN rowDensity' = "compact" /\ baseRowHeight' = CompactRowHeight
       ELSE rowDensity' = "comfortable" /\ baseRowHeight' = DefaultRowHeight
    /\ UNCHANGED <<opened, sheetTab, atHand, rowsShown, settings, columnWidths, rowHeights, columnWidthMode,
                   decimalPlaces, menus, gestures>>

Grab(kind, index, p, size) ==
    /\ StopTablePan
    /\ resizeState' = [kind |-> kind, index |-> index, pointerId |-> p, startSize |-> size]
    /\ isResizing' = TRUE
    /\ UNCHANGED <<opened, sheetTab, atHand, rowsShown, settings, sizes, decimalPlaces, menus>>

StartColumnResize(c, p) == OnTable /\ c \in TableColumns /\ Grab("column", c, p, ColumnWidth(c))
StartRowResize(k, p) ==
    OnTable /\ k \in DOMAIN TableRows /\ "hideRowNumbers" \notin settings /\ Grab("row", k, p, RowHeight(k))

\* pointermove while something is resized.
MoveResize(p, shift) ==
    /\ Event /\ isResizing /\ resizeState.pointerId = p
    /\ LET k == resizeState.index
           size == resizeState.startSize + shift
       IN  IF resizeState.kind = "column"
           THEN /\ columnWidths' = Sized(columnWidths, k, Clamp(size, MinColumnWidth, MaxColumnWidth))
                /\ UNCHANGED rowHeights
           ELSE /\ rowHeights' = Sized(rowHeights, k, Clamp(size, MinRowHeight, MaxRowHeight))
                /\ UNCHANGED columnWidths
    /\ UNCHANGED <<opened, sheetTab, atHand, rowsShown, settings, columnWidthMode, rowDensity, baseRowHeight,
                   decimalPlaces, menus, gestures>>

\* pointerup and pointercancel.
EndResize(p) ==
    /\ Event /\ isResizing /\ resizeState.pointerId = p
    /\ resizeState' = NoHold /\ isResizing' = FALSE
    /\ UNCHANGED <<opened, sheetTab, atHand, rowsShown, settings, sizes, decimalPlaces, menus,
                   isPanningTable, panPointer>>

\* Variant for a mutation: a pan may begin during a resize.
StartTablePanAnyway(p) ==
    /\ OnTable
    /\ panPointer' = p /\ isPanningTable' = TRUE
    /\ UNCHANGED <<opened, sheetTab, atHand, rowsShown, settings, sizes, decimalPlaces, menus,
                   resizeState, isResizing>>

\* Alt and the mouse button on the table.
StartTablePan(p) ==
    /\ OnTable /\ ~isResizing
    /\ panPointer' = p /\ isPanningTable' = TRUE
    /\ UNCHANGED <<opened, sheetTab, atHand, rowsShown, settings, sizes, decimalPlaces, menus,
                   resizeState, isResizing>>

\* The button goes up, or the pointer leaves the table.
EndTablePan ==
    /\ OnTable /\ StopTablePan
    /\ UNCHANGED <<opened, sheetTab, atHand, rowsShown, settings, sizes, decimalPlaces, menus,
                   resizeState, isResizing>>

ResetView ==
    /\ OnTable
    /\ globalQuery' = "" /\ sortColumnIndex' = NoColumn /\ sortDirection' = "desc"
    /\ settings' = {} /\ columnWidths' = NoSizes /\ rowHeights' = NoSizes
    /\ columnWidthMode' = "fixed" /\ rowDensity' = "comfortable" /\ baseRowHeight' = DefaultRowHeight
    /\ decimalPlaces' = NoDecimals
    /\ UNCHANGED <<opened, sheetTab, atHand, menus, gestures>>

TableNext ==
    \/ \E s \in TabIndices : ChooseSheetTab(s)
    \/ WorkbookComes \/ WorkbookFails \/ RowsCome
    \/ \E q \in Texts : QuickSearch(q)
    \/ ClearSorting \/ \E c \in TableColumns : ToggleSort(c)
    \/ ToggleCaseSensitiveSearch \/ ToggleHideEmptyRows \/ ToggleHighlightEmptyCells
    \/ ToggleZebraRows \/ ToggleStickyHeader \/ ToggleRowNumbers \/ ToggleFullWidthPreview
    \/ \E m \in {"stats", "decimal"} : ToggleMenu(m)
    \/ PointerDownOutside \/ ChangeDecimals \/ NoMoreDecimals
    \/ \E ink \in Inks : ToggleColumnWidthMode(ink) \/ \E c \in TableColumns : AutofitColumnWidth(c, ink)
    \/ ToggleRowDensity
    \/ \E p \in Pointers :
          \/ \E c \in TableColumns : StartColumnResize(c, p)
          \/ \E k \in DOMAIN TableRows : StartRowResize(k, p)
          \/ \E shift \in Shifts : MoveResize(p, shift)
          \/ EndResize(p) \/ StartTablePan(p)
    \/ EndTablePan \/ ResetView

TableSpec == TableInit /\ [][TableNext]_tableVars

-----------------------------------------------------------------------------

TableTypeOK ==
    /\ opened \in BOOLEAN /\ sheetTab \in TabIndices /\ atHand \in Grids
    /\ globalQuery \in Texts /\ sortColumnIndex \in Nat /\ sortDirection \in {"asc", "desc"}
    /\ settings \subseteq Switches /\ menus \subseteq {"stats", "decimal"}
    /\ decimalPlaces \in NoDecimals..10
    /\ \A c \in DOMAIN columnWidths : columnWidths[c] \in MinColumnWidth..MaxColumnWidth
    /\ \A k \in DOMAIN rowHeights : rowHeights[k] \in MinRowHeight..MaxRowHeight
    /\ <<rowDensity, baseRowHeight>> \in
          {<<"comfortable", DefaultRowHeight>>, <<"compact", CompactRowHeight>>}

\* The table is scrolled or a size is changed, never both, whichever pointers go
\* down and up and whatever tab or workbook comes meanwhile; and the reference
\* that the handlers of window read says the same as the state that is rendered.
OneGesture ==
    /\ ~(isResizing /\ isPanningTable)
    /\ isResizing <=> resizeState # NoHold
    /\ isPanningTable <=> panPointer # NoPointer
    /\ isResizing => resizeState.pointerId \in Pointers

\* Every row that matches the search is shown once, and no other; the sort keeps
\* blanks last in either direction and rows that tie in the order of the sheet.
EveryMatchOnce ==
    LET rows == TableRows
        cell(k) == CellAt(rows[k], sortColumnIndex)
    IN  /\ {rows[k] : k \in DOMAIN rows} = Kept
        /\ \A k, l \in DOMAIN rows : k < l =>
              /\ rows[k] # rows[l]
              /\ IF sortColumnIndex = NoColumn THEN rows[k] < rows[l]
                 ELSE IF IsEmptyCell(cell(k)) \/ IsEmptyCell(cell(l))
                 THEN IsEmptyCell(cell(l)) /\ (IsEmptyCell(cell(k)) => rows[k] < rows[l])
                 ELSE /\ ~InOrder(cell(l), cell(k))
                      /\ ~InOrder(cell(k), cell(l)) => rows[k] < rows[l]

\* "Reset view" is lit whenever the table differs from the way its rows came:
\* unlit, every row is there, in its place, under its number and in its size.
ResetIsOffered ==
    ~IsViewDirty =>
        /\ TableRows = [k \in DOMAIN atHand |-> k]
        /\ \A k \in DOMAIN atHand : RowHeight(k) = DefaultRowHeight /\ RowNumber(k) = k
        /\ \A c \in TableColumns : ColumnWidth(c) = DefaultColumnWidth

\* The statistics, which have their own notion of an empty cell, count the rows
\* that the switch hides; a column of type "empty" is one without a value; and
\* there are no duplicates where all rows differ.
StatisticsAgree ==
    /\ "hideEmptyRows" \in settings /\ Trimmed[globalQuery] = "" =>
          Len(TableRows) = Len(atHand) - EmptyRows
    /\ \A c \in TableColumns : InferredType(c) = "empty" <=> EmptyCells(c) = Len(atHand)
    /\ DuplicateRows = 0 <=>
          \A i, j \in DOMAIN atHand : i < j => \E c \in TableColumns : CellAt(i, c) # CellAt(j, c)

\* The table shows what its controls say.
TableViewInv == TableTypeOK /\ OneGesture /\ EveryMatchOnce /\ ResetIsOffered /\ StatisticsAgree
=============================================================================
