----------------------------- MODULE FileTools -----------------------------
(***************************************************************************)
(* The tools that leave every cell alone: Auto-Size Columns, Freeze        *)
(* Header, Password Protect and Remove Password; and the envelope that a   *)
(* stored result is kept in (services/file_encryption.py).                 *)
(***************************************************************************)
EXTENDS Sheets

CONSTANTS MinWidth, MaxWidth    \* MIN_WIDTH (8) and MAX_WIDTH (60)

ASSUME FileToolsAssumption == MinWidth \in Nat /\ MaxWidth \in Nat /\ MinWidth <= MaxWidth

\* The gate of the four tools, and the workbook.
OnWorkbook(r, rest(_)) == Gate(r.file, r.principal, Then(LoadForEdit(r.file), rest))
LostVisuals(r) == VisualElementsLost(r.file) \/ HasVisualElements(r.file)

-----------------------------------------------------------------------------
(* Widths and panes.                                                       *)

Bounded(n) == IF n > MaxWidth THEN MaxWidth ELSE n

\* len(str(value)) + PADDING of every cell with a value, a formula by its text.
ColumnWidth(rows, j) ==
    Max({MinWidth} \cup {Bounded(Len(rows[i][j].text) + 2) :
                            i \in {i \in DOMAIN rows : j \in DOMAIN rows[i] /\ rows[i][j] # None}})

AutoSizeAnswer(r) ==
    OnWorkbook(r, LAMBDA book :
        Done([widths |-> [s \in DOMAIN book |->
                            [j \in 1..Width(book[s].rows) |-> ColumnWidth(book[s].rows, j)]],
              visualsLost |-> LostVisuals(r)]))

FreezeAnswer(r) ==
    Require(r.rows \in 1..100, 422,
    OnWorkbook(r, LAMBDA book :
        Done([panes |-> [s \in DOMAIN book |-> r.rows + 1], visualsLost |-> LostVisuals(r)])))

AutoSizeColumns == Asked("auto-size-columns") /\ Reply(AutoSizeAnswer(request))
FreezeHeader == Asked("freeze-header") /\ Reply(FreezeAnswer(request))

-----------------------------------------------------------------------------
(* Protection.  A sheet is Open or locked under a password, with or        *)
(* without its formats; a workbook's structure is locked or not.           *)

Open == [sheet |-> FALSE, password |-> "", formatCells |-> TRUE]

\* SheetProtection(...) of openpyxl: a password turns the protection on,
\* whatever "sheet" says.
SheetProtection(sheet, password, formatCells) ==
    [sheet |-> sheet \/ password # "", password |-> password, formatCells |-> formatCells]

\* Sheets that the workbook does not have are ignored; names that are all
\* blank choose every sheet.
ProtectedSheets(book, sheets) ==
    LET selected == IF Strip(sheets) = <<>> THEN <<>> ELSE NormalizeSheetSelection(<<sheets>>)
    IN  {s \in DOMAIN book : selected = <<>> \/ book[s].title \in ToSet(selected)}

PasswordProtectAnswer(r) ==
    Require(r.password # "", 422,
    OnWorkbook(r, LAMBDA book :
        Done([locks |-> [s \in DOMAIN book |->
                            IF s \in ProtectedSheets(book, r.sheets)
                            THEN SheetProtection(r.protectContent, r.password, ~r.protectFormatting)
                            ELSE r.locks[s]],
              structure |-> r.structure \/ r.protectStructure,
              visualsLost |-> LostVisuals(r)])))

RemovePasswordAnswer(r) ==
    OnWorkbook(r, LAMBDA book :
        Done([locks |-> [s \in DOMAIN book |-> Open], structure |-> FALSE,
              visualsLost |-> LostVisuals(r)]))

PasswordProtect == Asked("password-protect") /\ Reply(PasswordProtectAnswer(request))
RemovePassword == Asked("remove-password") /\ Reply(RemovePasswordAnswer(request))

-----------------------------------------------------------------------------
(* The envelope.  AES-GCM is external: what is sealed opens with the same  *)
(* key and nonce and with no other.  A sealed key is four tokens long, a   *)
(* nonce one, in the place of 48 and 12 bytes.                             *)

Seal(key, nonce, plain) == [i \in DOMAIN plain |-> <<key, nonce, plain[i]>>]
Unlocks(key, nonce, sealed) == \A i \in DOMAIN sealed : sealed[i][1] = key /\ sealed[i][2] = nonce
Unseal(sealed) == [i \in DOMAIN sealed |-> sealed[i][3]]

\* _get_kek: unset, or not 32 bytes, is a RuntimeError.
KekIsUsable(kek) == kek \notin {"", "short"}

DekOf(n) == <<n, "k", "e", "y">>

\* Variant for a mutation: the file's nonce is left out of the blob.
PackedWithoutNonce(dekNonce, sealedDek, fileNonce) == <<dekNonce>> \o sealedDek \o <<dekNonce>>

Packed(dekNonce, sealedDek, fileNonce) == <<dekNonce>> \o sealedDek \o <<fileNonce>>

\* encrypt_file with a fresh key and fresh nonces.
EncryptFile ==
    /\ Asked("store-file")
    /\ Reply(IF KekIsUsable(request.kek)
             THEN [status |-> 0, ciphertext |-> Seal(DekOf("n1"), "n2", request.plain),
                   blob |-> Packed("n3", Seal(request.kek, "n3", DekOf("n1")), "n2")]
             ELSE Refused(500))

\* decrypt_file, after a restart perhaps with another key.
DecryptFile ==
    LET dekNonce == answer.blob[1]
        sealedDek == SubSeq(answer.blob, 2, 5)
        fileNonce == answer.blob[6]
    IN  /\ request.tool = "store-file" /\ answer.status = 0 /\ "blob" \in DOMAIN answer
        /\ Reply(Require(KekIsUsable(request.kekLater), 500,
                 Require(Unlocks(request.kekLater, dekNonce, sealedDek), 500,
                 Require(Unlocks(Unseal(sealedDek), fileNonce, answer.ciphertext), 500,
                 Done(Unseal(answer.ciphertext))))))

FileNext ==
    AutoSizeColumns \/ FreezeHeader \/ PasswordProtect \/ RemovePassword \/ EncryptFile \/ DecryptFile

-----------------------------------------------------------------------------
(* Properties.                                                             *)

\* Auto-Size Columns: a column is as wide as the widest of its values needs,
\* header and ragged rows included, and never outside the two limits; only a
\* value cut off by the limit does not fit.
EveryValueFitsItsColumn ==
    Answered("auto-size-columns") =>
        \A s \in DOMAIN request.file.book :
            LET rows == request.file.book[s].rows
                widths == answer.result.widths[s]
            IN  /\ \A i \in DOMAIN rows : \A j \in DOMAIN rows[i] :
                      Len(rows[i][j].text) < widths[j] \/ widths[j] = MaxWidth
                /\ \A j \in DOMAIN widths :
                      /\ widths[j] \in MinWidth..MaxWidth
                      /\ widths[j] > MinWidth =>
                            \E i \in DOMAIN rows : Len(Cell(rows[i], j).text) >= widths[j] - 2

\* Password Protect on the sheets chosen in the tool's dialog, which sends
\* their titles joined by commas: exactly these are locked under the password
\* and the others are as they were.  (No title may hold a comma or end in a
\* space; the boxes for content and formats do not unlock a sheet.)
ChosenSheetsAreLocked ==
    Answered("password-protect") =>
        \A chosen \in SUBSET DOMAIN request.file.book :
            LET book == request.file.book
                titles == Titles(book)
                names == SelectSeq([s \in DOMAIN book |-> s], LAMBDA s : s \in chosen)
            IN  ( /\ \A s \in DOMAIN book : NamesIn(titles[s]) = <<titles[s]>>
                  /\ chosen # {}
                  /\ request.sheets = Joined([k \in DOMAIN names |-> titles[names[k]]], <<",">>) ) =>
                    \A s \in DOMAIN book :
                        IF s \in chosen
                        THEN answer.result.locks[s].sheet /\ answer.result.locks[s].password = request.password
                        ELSE answer.result.locks[s] = request.locks[s]

\* Remove Password after Password Protect: the second tool opens every sheet
\* and the structure, whatever the first was asked to lock.
RemovingUndoesProtecting ==
    Answered("password-protect") =>
        LET again == RemovePasswordAnswer([request EXCEPT !.locks = answer.result.locks,
                                                          !.structure = answer.result.structure])
        IN  /\ again.status = 200 /\ ~again.result.structure
            /\ \A s \in DOMAIN again.result.locks : ~again.result.locks[s].sheet

\* A stored file comes back as it was if the service still has the key it was
\* stored under; with any other key it is an error and never other content.
StoredFilesComeBack ==
    (request.tool = "store-file" /\ answer.status # 0) =>
        IF KekIsUsable(request.kek) /\ request.kekLater = request.kek
        THEN answer = Done(request.plain)
        ELSE answer = Refused(500)

\* What a file tool puts around the cells fits them, and comes off again.
FileInv ==
    /\ EveryValueFitsItsColumn /\ ChosenSheetsAreLocked
    /\ RemovingUndoesProtecting /\ StoredFilesComeBack
=============================================================================
