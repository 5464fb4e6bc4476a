------------------------------ MODULE MCPages ------------------------------
(* The pages, which share no state, and the key set of the server, whose    *)
(* checks must end as the calls of the pages must: one per behaviour.       *)
EXTENDS InspectViewer, TableView, ToolPages, ListPages, Dashboard, JwksCache, TLC

CONSTANTS w1, w2
VARIABLE part       \* the part that runs in this behaviour; the others stay as they start

\* Two workbooks: sheets of three pages, of one page and without rows.
MCWorkbooks == {w1, w2}
MCPages == w1 :> (0 :> 3 @@ 1 :> 1) @@ w2 :> (0 :> 1 @@ 1 :> 0)

\* Two files: sheets with columns, and one without.
MCBook ==
    "f" :> <<[name |-> "s", columns |-> <<"x", "y">>], [name |-> "t", columns |-> <<"z">>]>>
    @@ "g" :> <<[name |-> "s", columns |-> <<>>]>>
\* One page of each shape: the others differ from one of these in wording only.
MCKinds ==
    {MergeSheetsPage, SplitWorkbookPage, ConvertXlsxToCsvPage, RemoveEmptyRowsPage, PasswordProtectPage,
     TrimSpacesPage, FindReplacePage, RemoveDuplicatesPage, SortRowsPage, SplitColumnPage,
     ValidateEmailsPage, SplitSheetPage, TransposeSheetPage, ConvertCsvToXlsxPage, CompareWorkbooksPage,
     AutoSizeColumnsPage, DetectBlanksPage, AppendWorkbooksPage}
MCCollation == <<"f", "g", "s", "t">>

MCPlan ==
    <<[name |-> "m", ok |-> TRUE], [name |-> "n", ok |-> FALSE], [name |-> "m", ok |-> TRUE], [name |-> "m", ok |-> TRUE]>>

(* The table of the Inspect page.                                         *)
Number(t, n) == [kind |-> "number", text |-> t, num |-> n]
Text(t) == [kind |-> "text", text |-> t, num |-> 0]

\* No row; numbers and texts, a blank row, a short one and a tie; null and the empty
\* text between texts.
MCGrids ==
    {<<>>,
     << <<Text("a"), Text("A")>>, <<Number("10", 10), Text("A")>>, <<Blank>>, <<Number("9", 9), Blank>>,
        <<Text("9"), Blank>> >>,
     << <<Text("A")>>, <<Blank>>, <<EmptyText>>, <<Text("a")>> >>}

MCTexts == {"", " ", "a", "A", "9", "10"}
MCTrimmed == [t \in MCTexts |-> IF t = " " THEN "" ELSE t]
MCLowerCase == [t \in MCTexts |-> IF t = "A" THEN "a" ELSE t]
MCWithin == {<<"", t>> : t \in MCTexts} \cup {<<t, t>> : t \in MCTexts}
MCRank == [t \in MCTexts |-> CASE t \in {"", " "} -> 0 [] t = "9" -> 1 [] t = "10" -> 2 [] OTHER -> 3]
MCShifts == {-500, 30}

ClientParts == {"viewer", "table", "tool", "list", "dashboard", "keys"}
clientVars == <<part, vars, tableVars, pageVars, listVars, dashVars, keyVars>>

\* A part that does not run has one initial state.
PartsInit ==
    /\ Init
    /\ TableInit /\ (part = "table" \/ atHand = <<>>)
    /\ PageInit /\ (part = "tool" \/ page = CompareWorkbooksPage)
    /\ ListInit /\ (part = "list" \/ listPage = "users")
    /\ DashInit /\ (part = "dashboard" \/ activeTab = "overview")
    /\ KeysInit /\ (part = "keys" \/ published = {})

ClientInit == part \in ClientParts /\ PartsInit

ClientNext ==
    \/ /\ part = "viewer" /\ Next
       /\ UNCHANGED <<part, tableVars, pageVars, listVars, dashVars, keyVars>>
    \/ /\ part = "table" /\ TableNext
       /\ UNCHANGED <<part, vars, pageVars, listVars, dashVars, keyVars>>
    \/ /\ part = "tool" /\ PageNext
       /\ UNCHANGED <<part, vars, tableVars, listVars, dashVars, keyVars>>
    \/ /\ part = "list" /\ ListNext
       /\ UNCHANGED <<part, vars, tableVars, pageVars, dashVars, keyVars>>
    \/ /\ part = "dashboard" /\ DashNext
       /\ UNCHANGED <<part, vars, tableVars, pageVars, listVars, keyVars>>
    \/ /\ part = "keys" /\ KeysNext
       /\ UNCHANGED <<part, vars, tableVars, pageVars, listVars, dashVars>>

\* A call of the page that is open is answered, and so is a check of a token;
\* nothing is asked of the parts that do not run.
ClientFairness ==
    /\ \A c \in AllCalls : WF_vars(part = "viewer" /\ Respond(c))
    /\ \A c \in Checks : WF_keyVars(part = "keys" /\ CheckStep(c))

ClientSpec == ClientInit /\ [][ClientNext]_clientVars /\ ClientFairness

\* On every page a spinner that turns has a request in flight, so that it stops
\* in the end: none is left on by a failure, a newer request or another button.
EverySpinnerIsBacked ==
    SpinnersAreBacked /\ PageSpinnerIsBacked /\ ListSpinnerIsBacked /\ DashSpinnerIsBacked

\* What is chosen or listed is of the preview or the filter, once and without gaps.
ChoicesInv == PageInv /\ ListInv
=============================================================================
