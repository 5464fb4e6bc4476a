-------------------------- MODULE UserProfileProofs --------------------------
(***************************************************************************)
(* Proofs about UserProfile for any number of requests and addresses.  The *)
(* statements of different requests interleave, so the invariant says for  *)
(* each statement a request can come to what it has seen of the row        *)
(* (CallsInStep), and why the address settles: requests that nobody with   *)
(* another address overlaps all write the same one (LoneCalls).            *)
(***************************************************************************)
EXTENDS UserProfile, TLAPS

Active(p) == p # NoRow /\ p.status = "active"

\* The history variables have the values they record.
HistoryTypeOK ==
    /\ shown \in [AuthCalls -> SUBSET (Profiles \cup {NoRow})]
    /\ clash \in [AuthCalls -> BOOLEAN] /\ alone \in [AuthCalls -> BOOLEAN]
    /\ settled \in Mails \cup {NoMail}
    /\ granted \in {"member", "admin"}
    /\ given \in {NoName, GivenName}

\* What a request has seen of the row at the statement it comes to.
InStep(c) ==
    /\ at[c] = "idle" => found[c] = NoRow
    /\ at[c] # "idle" =>
          /\ call[c].email \in Mails
          /\ row \in shown[c]
          /\ call[c].email \in rivals => clash[c]
    /\ found[c] # NoRow => found[c] \in shown[c] /\ row # NoRow
    /\ at[c] = "upsert" => call[c].kind # "update"
    /\ at[c] = "write" => call[c].kind = "update"
    /\ at[c] = "refresh" => call[c].kind = "update" \/ Active(found[c])
    /\ at[c] = "refresh" => row # NoRow
    /\ at[c] = "reload" => row # NoRow /\ \E p \in shown[c] : Active(p)
CallsInStep == \A c \in AuthCalls : InStep(c)

\* A request that nobody with another address overlaps finds its address in the
\* row once it has put it there, or read it there.
RowHasTheAddress(c) ==
    /\ alone[c]
    /\ \/ at[c] \in {"refresh", "reload"}
       \/ at[c] = "write" /\ found[c].email = call[c].email
    => row.email = call[c].email
LoneCalls ==
    /\ \A c, d \in AuthCalls :
          at[c] # "idle" /\ alone[c] /\ at[d] # "idle" => call[d].email = call[c].email
    /\ \A c \in AuthCalls : RowHasTheAddress(c)
    /\ settled # NoMail => \A d \in AuthCalls : at[d] # "idle" => call[d].email = settled

\* Operators have promoted only a row that there is.
RowIsGranted == row = NoRow => granted = "member" /\ settled = NoMail

UserInv == ProfileInv /\ HistoryTypeOK /\ CallsInStep /\ LoneCalls /\ RowIsGranted

-----------------------------------------------------------------------------

\* What an upsert makes of a row.
LEMMA MergedRow ==
  ASSUME NEW p \in Profiles \cup {NoRow},
         NEW claims \in [kind : Kinds, email : Mails \cup {NoMail}, name : {NoName, GivenName, ChosenName}],
         claims.email \in Mails
  PROVE  /\ Merged(p, claims) \in Profiles /\ Active(Merged(p, claims))
         /\ Merged(p, claims).email = claims.email
         /\ Merged(p, claims).role = IF p = NoRow THEN "member" ELSE p.role
         /\ p # NoRow /\ p.name = ChosenName => Merged(p, claims).name = ChosenName
<1>1. CASE p = NoRow
  BY <1>1, ProfileAssumption DEF Merged, Newcomer, Profiles, Active
<1>2. CASE p \in Profiles
  <2>1. p # NoRow
    BY <1>2, ProfileAssumption
  <2>2. /\ Merged(p, claims) \in Profiles /\ Merged(p, claims).status = "active"
        /\ Merged(p, claims).email = claims.email /\ Merged(p, claims).role = p.role
        /\ p.name = ChosenName => Merged(p, claims).name = ChosenName
    BY <1>2, <2>1, ProfileAssumption DEF Merged, Profiles
  <2>3. Merged(p, claims) # NoRow
    BY <2>2, ProfileAssumption
  <2>4. QED
    BY <2>1, <2>2, <2>3 DEF Active
<1>3. QED
  BY <1>1, <1>2

\* What update_profile writes.
Updated(c) ==
    [row EXCEPT !.name = IF call[c].name = found[c].name THEN @ ELSE call[c].name,
                !.email = IF call[c].email = found[c].email THEN @ ELSE call[c].email]

LEMMA UpdatedRow ==
  ASSUME UserInv, NEW c \in AuthCalls, at[c] = "write"
  PROVE  /\ row \in Profiles /\ found[c] \in Profiles
         /\ Updated(c) \in Profiles
         /\ Updated(c).email = IF call[c].email = found[c].email THEN row.email ELSE call[c].email
         /\ Updated(c).role = row.role
<1>1. row \in Profiles /\ found[c] \in Profiles
  BY DEF UserInv, ProfileInv, ProfileTypeOK, CallsInStep, InStep
<1>2. call[c].email \in Mails /\ call[c].name \in {NoName, GivenName, ChosenName}
  BY DEF UserInv, ProfileInv, ProfileTypeOK, CallsInStep, InStep
<1>3. QED
  BY <1>1, <1>2 DEF Updated, Profiles

-----------------------------------------------------------------------------
(* What the steps have in common.                                          *)

\* A step of request c alone: it goes on, or ends, and the others stay.
StepOf(c) ==
    /\ \A d \in AuthCalls \ {c} :
          at'[d] = at[d] /\ found'[d] = found[d] /\ call'[d] = call[d]
          /\ clash'[d] = clash[d] /\ alone'[d] = alone[d]
    /\ at'[c] # "idle" => call'[c] = call[c] /\ clash'[c] = clash[c] /\ alone'[c] = alone[c]
    /\ at'[c] = "idle" => found'[c] = NoRow /\ call'[c] = NoCall /\ ~alone'[c]

LEMMA ProceedStep ==
  ASSUME UserInv, NEW c \in AuthCalls,
         NEW s \in {"create", "signin", "read", "refresh", "upsert", "reload", "write"},
         NEW p \in Profiles \cup {NoRow}, Proceed(c, s, p)
  PROVE  /\ StepOf(c) /\ at'[c] = s /\ found'[c] = p /\ settled' = settled
         /\ lastAnswer' = NoAnswer
         /\ at' \in [AuthCalls -> {"idle", "create", "signin", "read", "refresh", "upsert",
                                   "reload", "write"}]
         /\ found' \in [AuthCalls -> Profiles \cup {NoRow}]
         /\ UNCHANGED <<call, clash, alone>>
  BY DEF Proceed, StepOf, UserInv, ProfileInv, ProfileTypeOK

LEMMA FinishStep ==
  ASSUME UserInv, NEW c \in AuthCalls, NEW s, NEW p, Finish(c, s, p)
  PROVE  /\ StepOf(c) /\ at'[c] = "idle"
         /\ lastAnswer' = [status |-> s, body |-> p]
         /\ settled' = IF s = "200" /\ alone[c] THEN call[c].email ELSE settled
         /\ at' \in [AuthCalls -> {"idle", "create", "signin", "read", "refresh", "upsert",
                                   "reload", "write"}]
         /\ found' \in [AuthCalls -> Profiles \cup {NoRow}]
         /\ call' \in [AuthCalls -> [kind : Kinds, email : Mails \cup {NoMail},
                                     name : {NoName, GivenName, ChosenName}]]
         /\ clash' \in [AuthCalls -> BOOLEAN] /\ alone' \in [AuthCalls -> BOOLEAN]
<1>1. NoCall \in [kind : Kinds, email : Mails \cup {NoMail}, name : {NoName, GivenName, ChosenName}]
  BY DEF NoCall, Kinds
<1>2. QED
  BY <1>1 DEF Finish, StepOf, UserInv, ProfileInv, ProfileTypeOK, HistoryTypeOK

\* A new row p, as the running requests see it.
LEMMA StoreStep ==
  ASSUME UserInv, NEW p \in Profiles, Store(p)
  PROVE  /\ row' = p /\ shown' \in [AuthCalls -> SUBSET (Profiles \cup {NoRow})]
         /\ \A c \in AuthCalls : at[c] # "idle" => shown'[c] = shown[c] \cup {p}
         /\ row' \in Profiles /\ row' # NoRow
  BY ProfileAssumption DEF Store, Running, UserInv, HistoryTypeOK
Call == [kind : Kinds, email : Mails \cup {NoMail}, name : {NoName, GivenName, ChosenName}]
Statement == {"idle", "create", "signin", "read", "refresh", "upsert", "reload", "write"}
Answer(a) == a.status \in {"none", "200", "409", "500", "502"} /\ a.body \in Profiles \cup {NoRow}

\* A step of request c that leaves the row alone keeps the invariant if it is
\* right about c, and settles only on the address that the row has.
LEMMA RowStays ==
  ASSUME UserInv, NEW c \in AuthCalls, at[c] # "idle", StepOf(c), KeepRow,
         UNCHANGED <<rivals, granted, given, mail>>, tokens' \subseteq Mails,
         at' \in [AuthCalls -> Statement], found' \in [AuthCalls -> Profiles \cup {NoRow}],
         call' \in [AuthCalls -> Call],
         clash' \in [AuthCalls -> BOOLEAN], alone' \in [AuthCalls -> BOOLEAN],
         Answer(lastAnswer'),
         at'[c] = "write" => found'[c] # NoRow,
         InStep(c)', RowHasTheAddress(c)',
         \/ settled' = settled
         \/ alone[c] /\ settled' = call[c].email /\ row # NoRow /\ row.email = call[c].email
  PROVE  UserInv'
<1>1. ProfileTypeOK'
  BY DEF UserInv, ProfileInv, ProfileTypeOK, KeepRow, StepOf, Call, Statement, Answer
<1>2. RoleIsTheOperators'
  BY DEF UserInv, ProfileInv, RoleIsTheOperators, KeepRow
<1>3. AddressSettles'
  BY DEF UserInv, ProfileInv, AddressSettles, KeepRow
<1>4. HistoryTypeOK'
  BY DEF UserInv, HistoryTypeOK, ProfileInv, ProfileTypeOK, CallsInStep, InStep, KeepRow
<1>5. CallsInStep'
  <2>1. ASSUME NEW d \in AuthCalls, d # c
        PROVE  InStep(d)'
    BY <2>1 DEF UserInv, CallsInStep, InStep, KeepRow, StepOf
  <2>2. QED
    BY <2>1 DEF CallsInStep
<1>6. LoneCalls'
  <2>1. ASSUME NEW d \in AuthCalls, NEW e \in AuthCalls,
               at'[d] # "idle", alone'[d], at'[e] # "idle"
        PROVE  call'[e].email = call'[d].email
    BY <2>1 DEF UserInv, LoneCalls, StepOf
  <2>2. ASSUME NEW d \in AuthCalls, d # c
        PROVE  RowHasTheAddress(d)'
    BY <2>2 DEF UserInv, LoneCalls, RowHasTheAddress, KeepRow, StepOf
  <2>3. ASSUME settled' # NoMail, NEW d \in AuthCalls, at'[d] # "idle"
        PROVE  call'[d].email = settled'
    BY <2>3 DEF UserInv, LoneCalls, StepOf
  <2>4. QED
    BY <2>1, <2>2, <2>3 DEF LoneCalls
<1>7. RowIsGranted'
  BY DEF UserInv, RowIsGranted, KeepRow
<1>8. QED
  BY <1>1, <1>2, <1>3, <1>4, <1>5, <1>6, <1>7 DEF UserInv, ProfileInv

\* A step of request c that writes the row, with its address or the one the
\* row has already.
LEMMA RowWritten ==
  ASSUME UserInv, NEW c \in AuthCalls, at[c] # "idle", NEW p \in Profiles, Store(p), Elsewhere,
         NEW s \in {"refresh", "reload"}, Goto(c, s),
         p.email \notin rivals,
         p.email = call[c].email \/ (row # NoRow /\ p.email = row.email),
         p.role = IF row = NoRow THEN "member" ELSE row.role,
         InStep(c)', alone[c] => p.email = call[c].email
  PROVE  UserInv'
<1>1. found[c] \in Profiles \cup {NoRow}
  BY DEF UserInv, ProfileInv, ProfileTypeOK
<1>2. /\ StepOf(c) /\ at'[c] = s /\ settled' = settled /\ lastAnswer' = NoAnswer
      /\ at' \in [AuthCalls -> {"idle", "create", "signin", "read", "refresh", "upsert",
                                "reload", "write"}]
      /\ found' \in [AuthCalls -> Profiles \cup {NoRow}]
      /\ UNCHANGED <<call, clash, alone>>
  BY <1>1, ProceedStep DEF Goto
<1>3. /\ row' = p /\ shown' \in [AuthCalls -> SUBSET (Profiles \cup {NoRow})]
      /\ \A d \in AuthCalls : at[d] # "idle" => shown'[d] = shown[d] \cup {p}
      /\ row' \in Profiles /\ row' # NoRow
  BY StoreStep
<1>4. UNCHANGED <<account, mail, tokens, given, rivals, granted>>
  BY DEF Elsewhere, provider
<1>5. ProfileTypeOK'
  BY <1>2, <1>3, <1>4 DEF UserInv, ProfileInv, ProfileTypeOK, StepOf, NoAnswer
<1>6. RoleIsTheOperators'
  BY <1>3, <1>4 DEF UserInv, ProfileInv, RoleIsTheOperators, RowIsGranted
<1>7. AddressSettles'
  BY <1>2, <1>3 DEF UserInv, ProfileInv, AddressSettles, LoneCalls
<1>8. HistoryTypeOK'
  BY <1>2, <1>3, <1>4 DEF UserInv, HistoryTypeOK
<1>9. CallsInStep'
  <2>1. ASSUME NEW d \in AuthCalls, d # c
        PROVE  InStep(d)'
    <3>1. CASE at[d] = "idle"
      BY <3>1, <2>1, <1>2 DEF UserInv, CallsInStep, InStep, StepOf
    <3>2. CASE at[d] # "idle"
      BY <3>2, <2>1, <1>2, <1>3, <1>4 DEF UserInv, CallsInStep, InStep, StepOf
    <3>3. QED
      BY <3>1, <3>2
  <2>2. QED
    BY <2>1 DEF CallsInStep
<1>10. LoneCalls'
  <2>1. ASSUME NEW d \in AuthCalls, d # c
        PROVE  RowHasTheAddress(d)'
    BY <2>1, <1>2, <1>3 DEF UserInv, LoneCalls, RowHasTheAddress, StepOf
  <2>2. RowHasTheAddress(c)'
    BY <1>2, <1>3 DEF RowHasTheAddress
  <2>3. \A d \in AuthCalls : at'[d] # "idle" => at[d] # "idle"
    BY <1>2 DEF StepOf
  <2>4. QED
    BY <2>1, <2>2, <2>3, <1>2 DEF UserInv, LoneCalls
<1>11. RowIsGranted'
  BY <1>3 DEF RowIsGranted
<1>12. QED
  BY <1>5, <1>6, <1>7, <1>8, <1>9, <1>10, <1>11 DEF UserInv, ProfileInv
-----------------------------------------------------------------------------
(* A request that ends, and the actions of the requests.                   *)

\* A request that is answered with an error keeps the invariant, and so does
\* one that is answered when the row has its address if nobody overlaps it.
LEMMA RequestEnds ==
  ASSUME UserInv, NEW c \in AuthCalls, at[c] # "idle", KeepRow,
         UNCHANGED <<rivals, granted, given, mail>>, tokens' \subseteq Mails,
         NEW s \in {"200", "409", "500", "502"}, NEW p \in Profiles \cup {NoRow},
         Finish(c, s, p),
         s = "200" /\ alone[c] => row # NoRow /\ row.email = call[c].email
  PROVE  UserInv'
<1>1. /\ StepOf(c) /\ at'[c] = "idle"
      /\ lastAnswer' = [status |-> s, body |-> p]
      /\ settled' = IF s = "200" /\ alone[c] THEN call[c].email ELSE settled
      /\ at' \in [AuthCalls -> {"idle", "create", "signin", "read", "refresh", "upsert",
                                "reload", "write"}]
      /\ found' \in [AuthCalls -> Profiles \cup {NoRow}]
      /\ call' \in [AuthCalls -> [kind : Kinds, email : Mails \cup {NoMail},
                                  name : {NoName, GivenName, ChosenName}]]
      /\ clash' \in [AuthCalls -> BOOLEAN] /\ alone' \in [AuthCalls -> BOOLEAN]
  BY FinishStep
<1>2. Answer(lastAnswer')
  BY <1>1 DEF Answer
<1>3. InStep(c)' /\ RowHasTheAddress(c)' /\ at'[c] # "write"
  BY <1>1 DEF InStep, RowHasTheAddress, StepOf
<1>4. QED
  BY <1>1, <1>2, <1>3, RowStays DEF Call, Statement

\* A request that goes on to statement s keeps the invariant if it has seen
\* what s says.
LEMMA RequestGoesOn ==
  ASSUME UserInv, NEW c \in AuthCalls, at[c] # "idle", KeepRow,
         UNCHANGED <<rivals, granted, given, mail>>, tokens' \subseteq Mails,
         NEW s \in {"create", "signin", "read", "refresh", "upsert", "reload", "write"},
         NEW p \in Profiles \cup {NoRow}, Proceed(c, s, p),
         s = "write" => p # NoRow, InStep(c)', RowHasTheAddress(c)'
  PROVE  UserInv'
<1>1. /\ StepOf(c) /\ at'[c] = s /\ found'[c] = p /\ settled' = settled
      /\ lastAnswer' = NoAnswer
      /\ at' \in [AuthCalls -> {"idle", "create", "signin", "read", "refresh", "upsert",
                                "reload", "write"}]
      /\ found' \in [AuthCalls -> Profiles \cup {NoRow}]
      /\ UNCHANGED <<call, clash, alone>>
  BY ProceedStep
<1>2. Answer(lastAnswer')
  BY <1>1 DEF Answer, NoAnswer
<1>3. /\ call' \in [AuthCalls -> Call]
      /\ clash' \in [AuthCalls -> BOOLEAN] /\ alone' \in [AuthCalls -> BOOLEAN]
  BY <1>1 DEF UserInv, ProfileInv, ProfileTypeOK, HistoryTypeOK, Call
<1>4. QED
  BY <1>1, <1>2, <1>3, RowStays DEF Statement

LEMMA CreateUserKeeps ==
  ASSUME UserInv, NEW c \in AuthCalls, CreateUser(c)
  PROVE  UserInv'
<1>1. at[c] = "create" /\ KeepRow /\ UNCHANGED <<rivals, granted, given, mail, tokens>>
  BY DEF CreateUser
<1>2. tokens' \subseteq Mails
  BY <1>1 DEF UserInv, ProfileInv, ProfileTypeOK
<1>3. CASE Fails(c, "409")
  BY <1>1, <1>2, <1>3, RequestEnds DEF Fails
<1>4. CASE Goto(c, "signin")
  <2>1. found[c] \in Profiles \cup {NoRow} /\ Proceed(c, "signin", found[c])
    BY <1>4 DEF Goto, UserInv, ProfileInv, ProfileTypeOK
  <2>2. at'[c] = "signin" /\ found'[c] = found[c] /\ UNCHANGED <<call, clash, alone>>
    BY <2>1, ProceedStep
  <2>3. InStep(c)' /\ RowHasTheAddress(c)'
    BY <1>1, <2>2 DEF InStep, RowHasTheAddress, UserInv, CallsInStep, KeepRow
  <2>4. QED
    BY <1>1, <1>2, <2>1, <2>3, RequestGoesOn
<1>5. QED
  BY <1>3, <1>4 DEF CreateUser

LEMMA SignInKeeps ==
  ASSUME UserInv, NEW c \in AuthCalls, SignIn(c)
  PROVE  UserInv'
<1>1. at[c] = "signin" /\ KeepRow /\ UNCHANGED <<rivals, granted, given, mail>>
  BY DEF SignIn
<1>2. tokens' \subseteq Mails
  BY DEF SignIn, UserInv, ProfileInv, ProfileTypeOK
<1>3. CASE Fails(c, "502")
  BY <1>1, <1>2, <1>3, RequestEnds DEF Fails
<1>4. CASE Goto(c, "read")
  <2>1. found[c] \in Profiles \cup {NoRow} /\ Proceed(c, "read", found[c])
    BY <1>4 DEF Goto, UserInv, ProfileInv, ProfileTypeOK
  <2>2. at'[c] = "read" /\ found'[c] = found[c] /\ UNCHANGED <<call, clash, alone>>
    BY <2>1, ProceedStep
  <2>3. InStep(c)' /\ RowHasTheAddress(c)'
    BY <1>1, <2>2 DEF InStep, RowHasTheAddress, UserInv, CallsInStep, KeepRow
  <2>4. QED
    BY <1>1, <1>2, <2>1, <2>3, RequestGoesOn
<1>5. QED
  BY <1>3, <1>4 DEF SignIn

LEMMA ReadRowKeeps ==
  ASSUME UserInv, NEW c \in AuthCalls, ReadRow(c)
  PROVE  UserInv'
<1>1. at[c] = "read" /\ KeepRow /\ UNCHANGED <<rivals, granted, given, mail, tokens>>
  BY DEF ReadRow, Elsewhere, provider
<1>2. tokens' \subseteq Mails /\ row \in Profiles \cup {NoRow}
  BY <1>1 DEF UserInv, ProfileInv, ProfileTypeOK
<1>3. CASE Fails(c, "500")
  BY <1>1, <1>2, <1>3, RequestEnds DEF Fails
<1>4. CASE UpToDate(row, call[c]) /\ Answers(c, row)
  BY <1>1, <1>2, <1>4, RequestEnds DEF Answers, UpToDate
<1>5. ASSUME NEW s \in {"write", "refresh", "upsert"}, Proceed(c, s, row),
             s = "write" => call[c].kind = "update" /\ row # NoRow,
             s = "refresh" => UpToDate(row, call[c]),
             s = "upsert" => call[c].kind # "update"
      PROVE  UserInv'
  <2>1. at'[c] = s /\ found'[c] = row /\ UNCHANGED <<call, clash, alone>>
    BY <1>2, <1>5, ProceedStep
  <2>2. InStep(c)'
    BY <1>1, <1>5, <2>1 DEF InStep, UserInv, CallsInStep, KeepRow, UpToDate, Active
  <2>3. RowHasTheAddress(c)'
    BY <1>1, <1>5, <2>1 DEF RowHasTheAddress, KeepRow, UpToDate
  <2>4. QED
    BY <1>1, <1>2, <1>5, <2>2, <2>3, RequestGoesOn
<1>6. QED
  BY <1>3, <1>4, <1>5 DEF ReadRow

LEMMA RefreshRowKeeps ==
  ASSUME UserInv, NEW c \in AuthCalls, RefreshRow(c)
  PROVE  UserInv'
<1>1. at[c] = "refresh" /\ KeepRow /\ UNCHANGED <<rivals, granted, given, mail, tokens>>
  BY DEF RefreshRow, Elsewhere, provider
<1>2. tokens' \subseteq Mails /\ row \in Profiles \cup {NoRow}
  BY <1>1 DEF UserInv, ProfileInv, ProfileTypeOK
<1>3. row # NoRow /\ (alone[c] => row.email = call[c].email)
  BY <1>1 DEF UserInv, CallsInStep, InStep, LoneCalls, RowHasTheAddress
<1>4. QED
  BY <1>1, <1>2, <1>3, RequestEnds DEF RefreshRow, Answers

LEMMA UpsertRowKeeps ==
  ASSUME UserInv, NEW c \in AuthCalls, UpsertRow(c)
  PROVE  UserInv'
<1>1. at[c] = "upsert" /\ UNCHANGED <<rivals, granted, given, mail, tokens>>
  BY DEF UpsertRow, Elsewhere, provider
<1>2. /\ tokens' \subseteq Mails /\ row \in Profiles \cup {NoRow} /\ call[c].email \in Mails
      /\ call[c] \in [kind : Kinds, email : Mails \cup {NoMail}, name : {NoName, GivenName, ChosenName}]
  BY <1>1 DEF UserInv, ProfileInv, ProfileTypeOK, CallsInStep, InStep
<1>3. CASE Fails(c, "500") /\ KeepRow
  BY <1>1, <1>2, <1>3, RequestEnds DEF Fails
<1>4. CASE call[c].email \notin rivals /\ Store(Merged(row, call[c])) /\ Goto(c, "reload")
  <2> DEFINE p == Merged(row, call[c])
  <2>1. /\ p \in Profiles /\ Active(p) /\ p.email = call[c].email
        /\ p.role = IF row = NoRow THEN "member" ELSE row.role
    BY <1>2, MergedRow
  <2> HIDE DEF p
  <2>2. Store(p) /\ row' = p /\ shown'[c] = shown[c] \cup {p}
    BY <1>1, <1>4, <2>1, StoreStep DEF p
  <2>3. at'[c] = "reload" /\ found'[c] = found[c] /\ UNCHANGED <<call, clash, alone>>
    BY <1>4, ProceedStep DEF Goto, UserInv, ProfileInv, ProfileTypeOK
  <2>4. InStep(c)'
    BY <1>1, <2>1, <2>2, <2>3 DEF InStep, UserInv, CallsInStep, Active
  <2>5. Elsewhere
    BY DEF UpsertRow
  <2>6. QED
    BY <1>1, <1>4, <2>1, <2>2, <2>4, <2>5, RowWritten
<1>5. QED
  BY <1>3, <1>4 DEF UpsertRow

LEMMA ReloadRowKeeps ==
  ASSUME UserInv, NEW c \in AuthCalls, ReloadRow(c)
  PROVE  UserInv'
<1>1. at[c] = "reload" /\ KeepRow /\ UNCHANGED <<rivals, granted, given, mail, tokens>>
  BY DEF ReloadRow, Elsewhere, provider
<1>2. /\ tokens' \subseteq Mails
      /\ (IF found[c] = NoRow THEN row ELSE found[c]) \in Profiles \cup {NoRow}
  BY <1>1 DEF UserInv, ProfileInv, ProfileTypeOK
<1>3. row # NoRow /\ (alone[c] => row.email = call[c].email)
  BY <1>1 DEF UserInv, CallsInStep, InStep, LoneCalls, RowHasTheAddress
<1>4. QED
  BY <1>1, <1>2, <1>3, RequestEnds DEF ReloadRow, Answers

LEMMA WriteRowKeeps ==
  ASSUME UserInv, NEW c \in AuthCalls, WriteRow(c)
  PROVE  UserInv'
<1>1. at[c] = "write" /\ UNCHANGED <<rivals, granted, given, mail, tokens>>
  BY DEF WriteRow, Elsewhere, provider
<1>2. tokens' \subseteq Mails
  BY <1>1 DEF UserInv, ProfileInv, ProfileTypeOK
<1>3. CASE Fails(c, "500") /\ KeepRow
  BY <1>1, <1>2, <1>3, RequestEnds DEF Fails
<1>4. CASE Updated(c).email \notin rivals /\ Store(Updated(c)) /\ Goto(c, "refresh")
  <2> DEFINE p == Updated(c)
  <2>1. /\ row \in Profiles /\ row # NoRow /\ p \in Profiles
        /\ p.email = IF call[c].email = found[c].email THEN row.email ELSE call[c].email
        /\ p.role = row.role
    BY <1>1, UpdatedRow, ProfileAssumption
  <2> HIDE DEF p
  <2>2. Store(p) /\ row' = p /\ row' # NoRow /\ shown'[c] = shown[c] \cup {p}
    BY <1>1, <1>4, <2>1, StoreStep DEF p
  <2>3. at'[c] = "refresh" /\ found'[c] = found[c] /\ UNCHANGED <<call, clash, alone>>
    BY <1>4, ProceedStep DEF Goto, UserInv, ProfileInv, ProfileTypeOK
  <2>4. InStep(c)'
    BY <1>1, <2>2, <2>3 DEF InStep, UserInv, CallsInStep
  <2>5. alone[c] => p.email = call[c].email
    BY <1>1, <2>1 DEF UserInv, LoneCalls, RowHasTheAddress
  <2>6. Elsewhere /\ p.email \notin rivals
    BY <1>4 DEF WriteRow, p
  <2>7. QED
    BY <1>1, <1>4, <2>1, <2>2, <2>4, <2>5, <2>6, RowWritten
<1>5. QED
  BY <1>3, <1>4 DEF WriteRow, Updated
Operations == {"signup", "login", "google", "refresh", "me", "update"}

LEMMA StartCallKeeps ==
  ASSUME UserInv, NEW c \in AuthCalls, NEW op \in Operations, NEW e \in Mails,
         NEW n \in {NoName, GivenName, ChosenName}, StartCall(c, op, e, n)
  PROVE  UserInv'
<1> DEFINE others == {d \in Running : call[d].email # e}
<1>1. Kind(op) \in Kinds /\ FirstStatement(op) \in {"create", "signin", "read"}
  BY DEF Operations, Kind, Kinds, FirstStatement
<1>2. /\ at[c] = "idle" /\ UNCHANGED <<provider, rivals, row, found, granted>>
      /\ lastAnswer' = NoAnswer
      /\ at' = [at EXCEPT ![c] = FirstStatement(op)]
      /\ call' = [call EXCEPT ![c] = [kind |-> Kind(op), email |-> e, name |-> n]]
      /\ shown' = [shown EXCEPT ![c] = {row}]
      /\ clash' = [clash EXCEPT ![c] = e \in rivals]
      /\ alone' = [d \in AuthCalls |-> IF d = c THEN others = {} ELSE alone[d] /\ d \notin others]
      /\ settled' = IF settled = e THEN e ELSE NoMail
  BY DEF StartCall
<1>3. /\ at \in [AuthCalls -> Statement] /\ row \in Profiles \cup {NoRow}
      /\ call \in [AuthCalls -> Call] /\ clash \in [AuthCalls -> BOOLEAN]
      /\ alone \in [AuthCalls -> BOOLEAN]
      /\ shown \in [AuthCalls -> SUBSET (Profiles \cup {NoRow})] /\ found[c] = NoRow
  BY <1>2 DEF UserInv, ProfileInv, ProfileTypeOK, HistoryTypeOK, Statement, Call, CallsInStep, InStep
<1>4. [kind |-> Kind(op), email |-> e, name |-> n] \in Call
  BY <1>1 DEF Call
<1>5. /\ at'[c] \in {"create", "signin", "read"} /\ shown'[c] = {row}
      /\ call'[c].email = e /\ clash'[c] = (e \in rivals) /\ alone'[c] = (others = {})
      /\ found'[c] = NoRow
  BY <1>1, <1>2, <1>3
<1>6. \A d \in AuthCalls \ {c} :
         /\ at'[d] = at[d] /\ call'[d] = call[d] /\ shown'[d] = shown[d] /\ clash'[d] = clash[d]
         /\ alone'[d] = (alone[d] /\ d \notin others) /\ found'[d] = found[d]
  BY <1>2, <1>3
<1>7. ProfileTypeOK'
  <2>1. at' \in [AuthCalls -> Statement] /\ call' \in [AuthCalls -> Call]
    BY <1>1, <1>2, <1>3, <1>4 DEF Statement
  <2>2. \A d \in AuthCalls : at'[d] = "write" => found'[d] # NoRow
    BY <1>5, <1>6 DEF UserInv, ProfileInv, ProfileTypeOK
  <2>3. QED
    BY <1>2, <2>1, <2>2
    DEF UserInv, ProfileInv, ProfileTypeOK, NoAnswer, provider, Statement, Call
<1>8. RoleIsTheOperators'
  BY <1>2 DEF UserInv, ProfileInv, RoleIsTheOperators
<1>9. AddressSettles'
  BY <1>2 DEF UserInv, ProfileInv, AddressSettles
<1>10. HistoryTypeOK'
  <2>1. /\ shown' \in [AuthCalls -> SUBSET (Profiles \cup {NoRow})]
        /\ clash' \in [AuthCalls -> BOOLEAN] /\ alone' \in [AuthCalls -> BOOLEAN]
    <3> HIDE DEF others
    <3>1. \A d \in AuthCalls :
             (IF d = c THEN others = {} ELSE alone[d] /\ d \notin others) \in BOOLEAN
      BY Zenon
    <3>2. (e \in rivals) \in BOOLEAN /\ {row} \in SUBSET (Profiles \cup {NoRow})
      BY <1>3
    <3>3. QED
      BY <1>2, <1>3, <3>1, <3>2
  <2>2. QED
    BY <1>2, <2>1 DEF UserInv, HistoryTypeOK, provider
<1>11. CallsInStep'
  <2>1. InStep(c)'
    BY <1>2, <1>5 DEF InStep
  <2>2. ASSUME NEW d \in AuthCalls, d # c
        PROVE  InStep(d)'
    BY <1>2, <1>6, <2>2 DEF UserInv, CallsInStep, InStep
  <2>3. QED
    BY <2>1, <2>2 DEF CallsInStep
<1>12. LoneCalls'
  <2>1. ASSUME NEW d \in AuthCalls, NEW f \in AuthCalls,
               at'[d] # "idle", alone'[d], at'[f] # "idle"
        PROVE  call'[f].email = call'[d].email
    <3>1. \A g \in AuthCalls \ {c} : at'[g] # "idle" => g \in Running
      BY <1>6 DEF Running
    <3>2. CASE d = c
      <4>1. others = {} /\ call'[d].email = e
        BY <2>1, <3>2, <1>5
      <4>2. f # c => call'[f].email = call[f].email /\ f \in Running
        BY <2>1, <3>1, <1>6
      <4>3. QED
        BY <3>2, <4>1, <4>2
    <3>3. CASE d # c
      <4>1. d \in Running /\ d \notin others /\ alone[d]
        BY <2>1, <3>1, <3>3, <1>6
      <4>2. call[d].email = e /\ at[d] # "idle"
        BY <4>1 DEF Running
      <4>3. f # c => call[f].email = call[d].email
        BY <2>1, <3>1, <4>1, <4>2 DEF UserInv, LoneCalls, Running
      <4>4. QED
        BY <3>3, <4>2, <4>3, <1>5, <1>6
    <3>4. QED
      BY <3>2, <3>3
  <2>2. ASSUME NEW d \in AuthCalls
        PROVE  RowHasTheAddress(d)'
    <3>1. CASE d = c
      <4>1. at'[d] \notin {"refresh", "reload", "write"}
        BY <3>1, <1>5
      <4>2. QED
        BY <4>1 DEF RowHasTheAddress
    <3>2. CASE d # c
      <4>1. /\ at'[d] = at[d] /\ call'[d] = call[d] /\ found'[d] = found[d] /\ row' = row
            /\ alone'[d] => alone[d]
        BY <3>2, <1>2, <1>6
      <4>2. RowHasTheAddress(d)
        BY DEF UserInv, LoneCalls
      <4>3. QED
        BY <4>1, <4>2 DEF RowHasTheAddress
    <3>3. QED
      BY <3>1, <3>2
  <2>3. ASSUME settled' # NoMail, NEW d \in AuthCalls, at'[d] # "idle"
        PROVE  call'[d].email = settled'
    <3>1. settled = e /\ settled' = e /\ settled # NoMail
      BY <2>3, <1>2
    <3>2. d # c => call[d].email = settled
      BY <2>3, <3>1, <1>6 DEF UserInv, LoneCalls
    <3>3. QED
      BY <3>1, <3>2, <1>5, <1>6
  <2>4. QED
    BY <2>1, <2>2, <2>3 DEF LoneCalls
<1>13. RowIsGranted'
  BY <1>2 DEF UserInv, RowIsGranted
<1>14. QED
  BY <1>7, <1>8, <1>9, <1>10, <1>11, <1>12, <1>13 DEF UserInv, ProfileInv

-----------------------------------------------------------------------------
(* The surroundings.                                                       *)

\* Operators change the status or the role of the row and nothing else.
LEMMA OperatorsKeep ==
  ASSUME UserInv, Suspend \/ Promote
  PROVE  UserInv'
<1>1. PICK p \in Profiles : /\ Store(p) /\ row # NoRow /\ p.email = row.email
                            /\ p.role = granted'
  <2>1. CASE Suspend
    <3>1. row \in Profiles /\ row.role = granted /\ granted' = granted
      BY <2>1 DEF Suspend, UserInv, ProfileInv, ProfileTypeOK, RoleIsTheOperators
    <3> DEFINE q == [row EXCEPT !.status = "suspended"]
    <3>2. q \in Profiles /\ q.email = row.email /\ q.role = row.role
      BY <3>1 DEF Profiles
    <3>3. Store(q) /\ row # NoRow
      BY <2>1 DEF Suspend
    <3> HIDE DEF q
    <3>4. QED
      BY <3>1, <3>2, <3>3
  <2>2. CASE Promote
    <3>1. row \in Profiles /\ granted' = "admin"
      BY <2>2 DEF Promote, UserInv, ProfileInv, ProfileTypeOK
    <3> DEFINE q == [row EXCEPT !.role = "admin"]
    <3>2. q \in Profiles /\ q.email = row.email /\ q.role = "admin"
      BY <3>1 DEF Profiles
    <3>3. Store(q) /\ row # NoRow
      BY <2>2 DEF Promote
    <3> HIDE DEF q
    <3>4. QED
      BY <3>1, <3>2, <3>3
  <2>3. QED
    BY <2>1, <2>2
<1>2. /\ UNCHANGED <<mail, tokens, given, rivals, call, at, found, alone, clash, settled>>
      /\ lastAnswer' = NoAnswer /\ granted' \in {"member", "admin"}
  BY DEF Suspend, Promote, Quiet, UserInv, HistoryTypeOK
<1>3. /\ row' = p /\ shown' \in [AuthCalls -> SUBSET (Profiles \cup {NoRow})]
      /\ \A d \in AuthCalls : at[d] # "idle" => shown'[d] = shown[d] \cup {p}
      /\ row' \in Profiles /\ row' # NoRow
  BY <1>1, StoreStep
<1>4. ProfileTypeOK'
  BY <1>1, <1>2, <1>3 DEF UserInv, ProfileInv, ProfileTypeOK, NoAnswer
<1>5. RoleIsTheOperators' /\ AddressSettles' /\ RowIsGranted' /\ HistoryTypeOK'
  BY <1>1, <1>2, <1>3 DEF UserInv, ProfileInv, RoleIsTheOperators, AddressSettles, RowIsGranted,
     HistoryTypeOK
<1>6. CallsInStep'
  <2>1. ASSUME NEW d \in AuthCalls
        PROVE  InStep(d)'
    BY <2>1, <1>2, <1>3 DEF UserInv, CallsInStep, InStep
  <2>2. QED
    BY <2>1 DEF CallsInStep
<1>7. LoneCalls'
  BY <1>1, <1>2, <1>3 DEF UserInv, LoneCalls, RowHasTheAddress
<1>8. QED
  BY <1>4, <1>5, <1>6, <1>7 DEF UserInv, ProfileInv

\* Nothing of the row or of a request moves: addresses and tokens do.
LEMMA AddressesMove ==
  ASSUME UserInv, (\E e \in Mails : ChangeMail(e) \/ RivalMoves(e)) \/ ExpireTokens
  PROVE  UserInv'
<1>1. /\ UNCHANGED <<row, shown, given, call, at, found, alone, settled, granted>>
      /\ lastAnswer' = NoAnswer
  BY DEF ChangeMail, RivalMoves, ExpireTokens, Quiet, KeepRow
<1>2. /\ mail' \in Mails /\ tokens' \subseteq Mails /\ rivals' \subseteq Mails
      /\ row # NoRow => row.email \notin rivals'
  BY DEF ChangeMail, RivalMoves, ExpireTokens, UserInv, ProfileInv, ProfileTypeOK
<1>3. /\ clash' \in [AuthCalls -> BOOLEAN]
      /\ \A c \in AuthCalls : InStep(c)'
  <2>1. CASE UNCHANGED <<rivals, clash>>
    BY <1>1, <2>1 DEF UserInv, HistoryTypeOK, CallsInStep, InStep
  <2>2. ASSUME NEW e \in Mails, RivalMoves(e)
        PROVE  /\ clash' \in [AuthCalls -> BOOLEAN]
               /\ \A c \in AuthCalls : InStep(c)'
    <3>1. /\ clash' = [c \in AuthCalls |-> clash[c] \/ call[c].email = e]
          /\ rivals' \subseteq rivals \cup {e}
      BY <2>2 DEF RivalMoves
    <3>2. clash' \in [AuthCalls -> BOOLEAN]
      <4>1. \A c \in AuthCalls : (clash[c] \/ call[c].email = e) \in BOOLEAN
        BY Zenon
      <4>2. QED
        BY <3>1, <4>1
    <3>3. ASSUME NEW c \in AuthCalls
          PROVE  InStep(c)'
      <4>1. clash'[c] = (clash[c] \/ call[c].email = e)
        BY <3>1
      <4>2. QED
        BY <1>1, <3>1, <4>1 DEF UserInv, CallsInStep, InStep
    <3>4. QED
      BY <3>2, <3>3
  <2>3. QED
    BY <2>1, <2>2 DEF ChangeMail, ExpireTokens
<1>4. ProfileTypeOK'
  BY <1>1, <1>2 DEF UserInv, ProfileInv, ProfileTypeOK, NoAnswer
<1>5. RoleIsTheOperators' /\ AddressSettles' /\ RowIsGranted' /\ HistoryTypeOK'
  BY <1>1, <1>3 DEF UserInv, ProfileInv, RoleIsTheOperators, AddressSettles, RowIsGranted, HistoryTypeOK
<1>6. CallsInStep' /\ LoneCalls'
  BY <1>1, <1>3 DEF UserInv, CallsInStep, LoneCalls, RowHasTheAddress
<1>7. QED
  BY <1>4, <1>5, <1>6 DEF UserInv, ProfileInv

-----------------------------------------------------------------------------
(* The theorems.                                                           *)

LEMMA UserInvInit == ProfileInit => UserInv
<1> SUFFICES ASSUME ProfileInit PROVE UserInv
  OBVIOUS
<1>1. \A n \in {NoName, ChosenName} : Newcomer(mail, n) \in Profiles
  BY DEF ProfileInit, Newcomer, Profiles
<1>2. row \in Profiles \cup {NoRow} /\ (row # NoRow => row.role = "member")
  BY <1>1 DEF ProfileInit, Newcomer
<1>3. NoCall \in Call
  BY DEF NoCall, Call, Kinds
<1>4. ProfileTypeOK
  BY <1>2, <1>3 DEF ProfileInit, ProfileTypeOK, NoAnswer, Call
<1>5. RoleIsTheOperators /\ AddressSettles /\ RowIsGranted /\ HistoryTypeOK
  BY <1>2 DEF ProfileInit, RoleIsTheOperators, AddressSettles, RowIsGranted, HistoryTypeOK
<1>6. CallsInStep /\ LoneCalls
  BY DEF ProfileInit, CallsInStep, InStep, LoneCalls, RowHasTheAddress
<1>7. QED
  BY <1>4, <1>5, <1>6 DEF UserInv, ProfileInv

LEMMA UserInvNext == UserInv /\ [ProfileNext]_profileVars => UserInv'
<1> SUFFICES ASSUME UserInv, [ProfileNext]_profileVars PROVE UserInv'
  OBVIOUS
<1>1. ASSUME NEW c \in AuthCalls, NEW op \in Operations, NEW e \in Mails,
             NEW n \in {NoName, GivenName, ChosenName}, StartCall(c, op, e, n)
      PROVE  UserInv'
  BY <1>1, StartCallKeeps
<1>2. ASSUME NEW c \in AuthCalls,
             \/ CreateUser(c) \/ SignIn(c) \/ ReadRow(c) \/ RefreshRow(c)
             \/ UpsertRow(c) \/ ReloadRow(c) \/ WriteRow(c)
      PROVE  UserInv'
  BY <1>2, CreateUserKeeps, SignInKeeps, ReadRowKeeps, RefreshRowKeeps, UpsertRowKeeps,
     ReloadRowKeeps, WriteRowKeeps
<1>3. CASE (\E e \in Mails : ChangeMail(e) \/ RivalMoves(e)) \/ ExpireTokens
  BY <1>3, AddressesMove
<1>4. CASE Suspend \/ Promote
  BY <1>4, OperatorsKeep
<1>5. CASE UNCHANGED profileVars
  BY <1>5 DEF profileVars, provider, UserInv, ProfileInv, ProfileTypeOK, RoleIsTheOperators,
     AddressSettles, HistoryTypeOK, CallsInStep, InStep, LoneCalls, RowHasTheAddress, RowIsGranted
<1>6. QED
  BY <1>1, <1>2, <1>3, <1>4, <1>5 DEF ProfileNext, Operations

\* The row of a user through every interleaving of sign-ups, requests and
\* operators: its role is the one the operators gave, and its address settles.
THEOREM ProfileIsKept == ProfileSpec => []ProfileInv
<1>1. UserInv => ProfileInv
  BY DEF UserInv
<1>2. QED
  BY <1>1, UserInvInit, UserInvNext, PTL DEF ProfileSpec
-----------------------------------------------------------------------------
(* What the answers say.                                                   *)

\* Only a step of the request itself answers it.
LEMMA TheRequestReplies ==
  ASSUME UserInv, ProfileNext, NEW c \in AuthCalls, NEW s \in {"200", "500"}, Replies(c, s)
  PROVE  ReadRow(c) \/ RefreshRow(c) \/ UpsertRow(c) \/ ReloadRow(c) \/ WriteRow(c)
<1>1. at[c] # "idle" /\ at'[c] = "idle" /\ lastAnswer'.status = s /\ lastAnswer' # NoAnswer
  BY DEF Replies, Running, NoAnswer
<1>2. ASSUME NEW d \in AuthCalls, NEW op \in Operations, NEW e \in Mails,
             NEW n \in {NoName, GivenName, ChosenName}, StartCall(d, op, e, n)
      PROVE  FALSE
  BY <1>1, <1>2 DEF StartCall
<1>3. ASSUME NEW d \in AuthCalls, NEW t, NEW p, Proceed(d, t, p)
      PROVE  FALSE
  BY <1>1, <1>3 DEF Proceed
<1>4. ASSUME NEW d \in AuthCalls, NEW t, NEW p, Finish(d, t, p)
      PROVE  d = c /\ t = s
  BY <1>1, <1>4 DEF Finish, UserInv, ProfileInv, ProfileTypeOK
<1>5. ASSUME NEW d \in AuthCalls, CreateUser(d) \/ SignIn(d)
      PROVE  FALSE
  BY <1>3, <1>4, <1>5 DEF CreateUser, SignIn, Goto, Fails
<1>6. ASSUME NEW d \in AuthCalls,
             ReadRow(d) \/ RefreshRow(d) \/ UpsertRow(d) \/ ReloadRow(d) \/ WriteRow(d)
      PROVE  d = c
  BY <1>3, <1>4, <1>6 DEF ReadRow, RefreshRow, UpsertRow, ReloadRow, WriteRow, Goto, Fails, Answers
<1>7. ASSUME \/ \E e \in Mails : ChangeMail(e) \/ RivalMoves(e)
             \/ ExpireTokens \/ Suspend \/ Promote
      PROVE  FALSE
  BY <1>1, <1>7 DEF ChangeMail, RivalMoves, ExpireTokens, Suspend, Promote, Quiet
<1>8. QED
  BY <1>2, <1>5, <1>6, <1>7 DEF ProfileNext, Operations

\* How a request comes to be answered.
LEMMA HowItAnswers ==
  ASSUME UserInv, ProfileNext, NEW c \in AuthCalls, Replies(c, "200")
  PROVE  \/ UpToDate(row, call[c]) /\ Answers(c, row) /\ KeepRow
         \/ RefreshRow(c) \/ ReloadRow(c)
<1>1. lastAnswer'.status = "200" /\ lastAnswer' # NoAnswer
  BY DEF Replies, NoAnswer
<1>2. ASSUME NEW t, NEW p, Proceed(c, t, p)
      PROVE  FALSE
  BY <1>1, <1>2 DEF Proceed
<1>3. ~Fails(c, "500")
  BY <1>1 DEF Fails, Finish
<1>4. ~UpsertRow(c) /\ ~WriteRow(c)
  BY <1>2, <1>3 DEF UpsertRow, WriteRow, Goto
<1>5. ReadRow(c) => UpToDate(row, call[c]) /\ Answers(c, row) /\ KeepRow
  BY <1>2, <1>3 DEF ReadRow
<1>6. QED
  BY <1>4, <1>5, TheRequestReplies

LEMMA AnswersStep ==
  ASSUME UserInv, ProfileNext, NEW c \in AuthCalls, Replies(c, "200")
  PROVE  /\ lastAnswer'.body \in Meanwhile(c)
         /\ call[c].kind # "update" => \E p \in Meanwhile(c) : Active(p)
<1>1. at[c] # "idle" /\ row \in shown[c]
  BY DEF Replies, Running, UserInv, CallsInStep, InStep
<1>2. CASE UpToDate(row, call[c]) /\ Answers(c, row) /\ KeepRow
  BY <1>1, <1>2 DEF Answers, Finish, Meanwhile, UpToDate, Active
<1>3. CASE RefreshRow(c)
  <2>1. at[c] = "refresh" /\ lastAnswer'.body = row /\ row' = row
    BY <1>3 DEF RefreshRow, Answers, Finish, KeepRow
  <2>2. call[c].kind # "update" => Active(found[c]) /\ found[c] \in shown[c]
    BY <2>1 DEF UserInv, CallsInStep, InStep, Active
  <2>3. QED
    BY <1>1, <2>1, <2>2 DEF Meanwhile
<1>4. CASE ReloadRow(c)
  <2>1. /\ at[c] = "reload"
        /\ lastAnswer'.body = IF found[c] = NoRow THEN row ELSE found[c]
    BY <1>4 DEF ReloadRow, Answers, Finish
  <2>2. /\ found[c] # NoRow => found[c] \in shown[c]
        /\ \E p \in shown[c] : Active(p)
    BY <2>1 DEF UserInv, CallsInStep, InStep
  <2>3. QED
    BY <1>1, <2>1, <2>2 DEF Meanwhile
<1>5. QED
  BY <1>2, <1>3, <1>4, HowItAnswers

LEMMA ErrorsStep ==
  ASSUME UserInv, ProfileNext, NEW c \in AuthCalls, Replies(c, "500")
  PROVE  clash[c] \/ (call[c].kind = "update" /\ NoRow \in shown[c])
<1>1. lastAnswer'.status = "500" /\ lastAnswer' # NoAnswer
  BY DEF Replies, NoAnswer
<1>2. at[c] # "idle" /\ row \in shown[c] /\ (call[c].email \in rivals => clash[c])
  BY DEF Replies, Running, UserInv, CallsInStep, InStep
<1>3. ASSUME NEW t, NEW p, Proceed(c, t, p)
      PROVE  FALSE
  BY <1>1, <1>3 DEF Proceed
<1>4. ASSUME NEW p, Answers(c, p)
      PROVE  FALSE
  BY <1>1, <1>4 DEF Answers, Finish
<1>5. ~RefreshRow(c) /\ ~ReloadRow(c)
  BY <1>4 DEF RefreshRow, ReloadRow
<1>6. ReadRow(c) => call[c].kind = "update" /\ row = NoRow
  BY <1>3, <1>4 DEF ReadRow
<1>7. UpsertRow(c) => call[c].email \in rivals
  BY <1>3 DEF UpsertRow, Goto
<1>8. WriteRow(c) => call[c].email \in rivals
  <2>1. SUFFICES ASSUME WriteRow(c) PROVE call[c].email \in rivals
    OBVIOUS
  <2>2. at[c] = "write" /\ Updated(c).email \in rivals
    BY <1>3, <2>1 DEF WriteRow, Goto, Updated
  <2>3. /\ row # NoRow
        /\ Updated(c).email = IF call[c].email = found[c].email THEN row.email ELSE call[c].email
    BY <2>2, UpdatedRow, ProfileAssumption
  <2>4. row.email \notin rivals
    BY <2>3 DEF UserInv, ProfileInv, ProfileTypeOK
  <2>5. QED
    BY <2>2, <2>3, <2>4
<1>9. QED
  BY <1>2, <1>5, <1>6, <1>7, <1>8, TheRequestReplies

\* Only a change by the user replaces a name that the user chose.
LEMMA ChosenNameStep ==
  ASSUME UserInv, ProfileNext, row # NoRow, row.name = ChosenName, row'.name # ChosenName
  PROVE  \E c \in AuthCalls : at[c] = "write" /\ at'[c] # "write"
<1>1. ~KeepRow /\ row' # row
  BY DEF KeepRow
<1>2. row \in Profiles
  BY DEF UserInv, ProfileInv, ProfileTypeOK
<1>3. ASSUME NEW c \in AuthCalls, UpsertRow(c)
      PROVE  FALSE
  <2>1. row' = Merged(row, call[c])
    BY <1>1, <1>3 DEF UpsertRow, Store
  <2>2. /\ call[c] \in [kind : Kinds, email : Mails \cup {NoMail}, name : {NoName, GivenName, ChosenName}]
        /\ call[c].email \in Mails
    BY <1>3 DEF UpsertRow, UserInv, ProfileInv, ProfileTypeOK, CallsInStep, InStep
  <2>3. QED
    BY <1>2, <2>1, <2>2, MergedRow
<1>4. ASSUME NEW c \in AuthCalls, WriteRow(c)
      PROVE  at[c] = "write" /\ at'[c] # "write"
  BY <1>1, <1>4 DEF WriteRow, Goto, Proceed, UserInv, ProfileInv, ProfileTypeOK
<1>5. ASSUME Suspend \/ Promote
      PROVE  FALSE
  <2>1. row' = [row EXCEPT !.status = "suspended"] \/ row' = [row EXCEPT !.role = "admin"]
    BY <1>5 DEF Suspend, Promote, Store
  <2>2. QED
    BY <1>2, <2>1 DEF Profiles
<1>6. ASSUME NEW c \in AuthCalls,
             \/ CreateUser(c) \/ SignIn(c) \/ ReadRow(c) \/ RefreshRow(c) \/ ReloadRow(c)
             \/ \E op \in Operations, e \in Mails, n \in {NoName, GivenName, ChosenName} :
                   StartCall(c, op, e, n)
      PROVE  FALSE
  BY <1>1, <1>6 DEF CreateUser, SignIn, ReadRow, RefreshRow, ReloadRow, StartCall
<1>7. ASSUME (\E e \in Mails : ChangeMail(e) \/ RivalMoves(e)) \/ ExpireTokens
      PROVE  FALSE
  BY <1>1, <1>7 DEF ChangeMail, RivalMoves, ExpireTokens
<1>8. QED
  BY <1>3, <1>4, <1>5, <1>6, <1>7 DEF ProfileNext, Operations

\* An answer shows a row as it was at some moment of the request, and an active
\* one met it; a name that the user chose stays until the user changes it; a
\* server error has another row with the address, or no row, for its cause.
THEOREM RequestsAreHonest == ProfileSpec => ProfileSteps
<1>1. UserInv /\ [ProfileNext]_profileVars =>
         [\A c \in AuthCalls : Replies(c, "200") => lastAnswer'.body \in Meanwhile(c)]_profileVars
  BY AnswersStep
<1>2. UserInv /\ [ProfileNext]_profileVars =>
         [\A c \in AuthCalls :
             Replies(c, "200") /\ call[c].kind # "update" =>
                \E p \in Meanwhile(c) : p # NoRow /\ p.status = "active"]_profileVars
  BY AnswersStep DEF Active
<1>3. UserInv /\ [ProfileNext]_profileVars =>
         [row # NoRow /\ row.name = ChosenName /\ row'.name # ChosenName =>
             \E c \in AuthCalls : at[c] = "write" /\ at'[c] # "write"]_profileVars
  BY ChosenNameStep
<1>4. UserInv /\ [ProfileNext]_profileVars =>
         [\A c \in AuthCalls :
             Replies(c, "500") =>
                clash[c] \/ (call[c].kind = "update" /\ NoRow \in shown[c])]_profileVars
  BY ErrorsStep
<1>5. QED
  BY <1>1, <1>2, <1>3, <1>4, UserInvInit, UserInvNext, PTL
  DEF ProfileSpec, ProfileSteps, AnswersWereRows, SuspensionEndsWithARequest, ChosenNameStays,
      ErrorsAreExplained
=============================================================================
