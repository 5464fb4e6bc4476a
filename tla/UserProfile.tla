----------------------------- MODULE UserProfile -----------------------------
(***************************************************************************)
(* The row of one person in the users table (services/auth_service.py):    *)
(* every sign-in, refresh and GET /auth/me reads it and, when it does not  *)
(* reflect the claims, writes it; PATCH /auth/me writes it, too.  Each     *)
(* statement is a transaction of its own, so that the statements of        *)
(* different requests interleave.                                          *)
(*                                                                         *)
(* External: the identity provider, which knows the present address of the *)
(* person and whose older tokens still carry the former one; the rows of   *)
(* the other people, of which only the addresses matter (users.email is    *)
(* unique); the operators, who suspend and promote with SQL of their own.  *)
(* avatar_url is merged like display_name and is left out.                 *)
(***************************************************************************)
EXTENDS Integers, FiniteSets

CONSTANTS
    AuthCalls,      \* requests of the person that may run at the same time
    Mails,
    NoRow, NoName, NoMail,
    GivenName,          \* the name the provider has for the person
    ChosenName,         \* a name typed in the account page
    MaxEvents,      \* bound on what the surroundings do
    MaxStarts       \* bound on the requests

VARIABLES
    account,        \* provider: the person has an account
    mail,           \* provider: its address
    tokens,         \* provider: addresses in tokens that are still valid
    given,          \* provider: the name it knows
    rivals,         \* addresses in the rows of others
    row,            \* the row
    call,           \* what each request does, and its claims
    at,             \* the statement it comes to
    found,          \* the row it read first
    lastAnswer,         \* the answer that the last step gave, if it gave one
    events, starts,
    shown,          \* history: the rows since the request started
    clash,          \* history: another row had its address meanwhile
    alone,          \* history: no request with another address since it started
    settled,        \* history: the address of the last lone answer
    granted         \* history: the role that operators gave last

provider == <<account, mail, tokens, given>>
profileVars == <<provider, rivals, row, call, at, found, lastAnswer, events, starts,
                 shown, clash, alone, settled, granted>>

Profiles == [email : Mails, name : {NoName, GivenName, ChosenName},
             role : {"member", "admin"}, status : {"active", "suspended"}]
ASSUME ProfileAssumption ==
    /\ NoRow \notin Profiles /\ NoMail \notin Mails
    /\ NoName # GivenName /\ NoName # ChosenName /\ GivenName # ChosenName

\* What a request does once the identity provider let it through: sign-ups and
\* sign-ins touch last_seen_at, refreshes and GET /auth/me do not.
Kinds == {"touch", "look", "update"}
NoCall == [kind |-> "look", email |-> NoMail, name |-> NoName]
NoAnswer == [status |-> "none", body |-> NoRow]
Newcomer(e, n) == [email |-> e, name |-> n, role |-> "member", status |-> "active"]

ProfileTypeOK ==
    /\ mail \in Mails /\ tokens \subseteq Mails /\ rivals \subseteq Mails
    /\ row \in Profiles \cup {NoRow}
    /\ call \in [AuthCalls -> [kind : Kinds, email : Mails \cup {NoMail},
                               name : {NoName, GivenName, ChosenName}]]
    /\ at \in [AuthCalls -> {"idle", "create", "signin", "read", "refresh", "upsert",
                             "reload", "write"}]
    /\ found \in [AuthCalls -> Profiles \cup {NoRow}]
    /\ \A c \in AuthCalls : at[c] = "write" => found[c] # NoRow
    /\ lastAnswer.status \in {"none", "200", "409", "500", "502"}
    /\ lastAnswer.body \in Profiles \cup {NoRow}
    \* The unique index.
    /\ row # NoRow => row.email \notin rivals

ProfileInit ==
    /\ account \in BOOLEAN /\ mail \in Mails
    /\ tokens = IF account THEN {mail} ELSE {}
    /\ given \in {NoName, GivenName}
    /\ rivals = {}
    /\ row \in {NoRow} \cup {Newcomer(mail, n) : n \in IF account THEN {NoName, ChosenName} ELSE {}}
    /\ call = [c \in AuthCalls |-> NoCall]
    /\ at = [c \in AuthCalls |-> "idle"]
    /\ found = [c \in AuthCalls |-> NoRow]
    /\ lastAnswer = NoAnswer
    /\ events = 0 /\ starts = 0
    /\ shown = [c \in AuthCalls |-> {}]
    /\ clash = [c \in AuthCalls |-> FALSE]
    /\ alone = [c \in AuthCalls |-> FALSE]
    /\ settled = NoMail
    /\ granted = "member"

-----------------------------------------------------------------------------
(* What the history variables record.                                      *)

Running == {c \in AuthCalls : at[c] # "idle"}

\* A new row, as the requests under way see it.
Store(p) ==
    /\ row' = p
    /\ shown' = [c \in AuthCalls |-> IF c \in Running THEN shown[c] \cup {p} ELSE {}]
KeepRow == UNCHANGED <<row, shown>>

\* The request comes to statement s, having read p.
Proceed(c, s, p) ==
    /\ at' = [at EXCEPT ![c] = s]
    /\ found' = [found EXCEPT ![c] = p]
    /\ lastAnswer' = NoAnswer
    /\ UNCHANGED <<call, clash, alone, settled>>
Goto(c, s) == Proceed(c, s, found[c])

Finish(c, status, p) ==
    /\ lastAnswer' = [status |-> status, body |-> p]
    /\ at' = [at EXCEPT ![c] = "idle"]
    /\ call' = [call EXCEPT ![c] = NoCall]
    /\ found' = [found EXCEPT ![c] = NoRow]
    /\ clash' = [clash EXCEPT ![c] = FALSE]
    /\ alone' = [alone EXCEPT ![c] = FALSE]
    /\ settled' = IF status = "200" /\ alone[c] THEN call[c].email ELSE settled
Fails(c, status) == Finish(c, status, NoRow)
Answers(c, p) == Finish(c, "200", p)

Elsewhere == UNCHANGED <<provider, rivals, events, starts, granted>>

-----------------------------------------------------------------------------
(* The requests.                                                           *)

\* The claims a request may come with: who signs in or refreshes has the
\* present address, who asks for or changes the profile has that of a token.
Claims(op) ==
    CASE op \in {"signup", "google"} -> {mail}
      [] op \in {"login", "refresh"} -> IF account THEN {mail} ELSE {}
      [] op \in {"me", "update"}     -> tokens

\* ... and the name: GET /auth/me leaves it out.
Names(op) ==
    CASE op = "me"     -> {NoName}
      [] op = "update" -> {NoName, ChosenName}
      [] OTHER         -> {given}

Kind(op) ==
    CASE op \in {"signup", "login", "google"} -> "touch"
      [] op \in {"refresh", "me"}             -> "look"
      [] op = "update"                        -> "update"

FirstStatement(op) ==
    CASE op = "signup" -> "create"
      [] op = "google" -> "signin"
      [] OTHER         -> "read"

StartCall(c, op, e, n) ==
    /\ at[c] = "idle"
    /\ starts < MaxStarts /\ starts' = starts + 1
    /\ e \in Claims(op) /\ n \in Names(op)
    /\ call' = [call EXCEPT ![c] = [kind |-> Kind(op), email |-> e, name |-> n]]
    /\ at' = [at EXCEPT ![c] = FirstStatement(op)]
    /\ lastAnswer' = NoAnswer
    /\ shown' = [shown EXCEPT ![c] = {row}]
    /\ clash' = [clash EXCEPT ![c] = e \in rivals]
    /\ LET others == {d \in Running : call[d].email # e} IN
       alone' = [d \in AuthCalls |-> IF d = c THEN others = {} ELSE alone[d] /\ d \notin others]
    /\ settled' = IF settled = e THEN e ELSE NoMail
    /\ UNCHANGED <<provider, rivals, row, found, events, granted>>

\* signup: create_user, which fails for an address that has an account.
CreateUser(c) ==
    /\ at[c] = "create"
    /\ IF account THEN Fails(c, "409") ELSE Goto(c, "signin")
    /\ account' = TRUE
    /\ KeepRow
    /\ UNCHANGED <<mail, tokens, given, rivals, events, starts, granted>>

\* sign_in_with_password after create_user, or sign_in_with_id_token, which
\* opens an account where there is none.  Either may fail.
SignIn(c) ==
    /\ at[c] = "signin"
    /\ \/ Goto(c, "read") /\ account' = TRUE /\ tokens' = tokens \cup {mail}
       \/ Fails(c, "502") /\ UNCHANGED <<account, tokens>>
    /\ KeepRow
    /\ UNCHANGED <<mail, given, rivals, events, starts, granted>>

\* _profile_is_up_to_date.
UpToDate(p, claims) ==
    /\ p # NoRow /\ p.status = "active"
    /\ p.email = claims.email
    /\ claims.name # NoName => p.name # NoName

\* _ensure_profile and update_profile: the first SELECT.
ReadRow(c) ==
    /\ at[c] = "read"
    /\ LET kind == call[c].kind
           ready == UpToDate(row, call[c])
       IN  \/ kind = "update" /\ row = NoRow /\ Fails(c, "500")
           \/ kind = "update" /\ row # NoRow /\ Proceed(c, "write", row)
           \/ kind = "look" /\ ready /\ Answers(c, row)
           \/ kind = "touch" /\ ready /\ Proceed(c, "refresh", row)
           \/ kind # "update" /\ ~ready /\ Proceed(c, "upsert", row)
    /\ KeepRow /\ Elsewhere

\* db.refresh, after last_seen_at or the user's change has been written.
RefreshRow(c) ==
    /\ at[c] = "refresh"
    /\ Answers(c, row)
    /\ KeepRow /\ Elsewhere

\* Variant for a mutation: the row is replaced.
MergedWhole(p, claims) ==
    Newcomer(claims.email, IF p = NoRow \/ p.name = NoName THEN claims.name ELSE p.name)

\* INSERT ... ON CONFLICT (id) DO UPDATE.
Merged(p, claims) ==
    IF p = NoRow THEN Newcomer(claims.email, claims.name)
    ELSE [p EXCEPT !.email = claims.email, !.status = "active",
                   !.name = IF @ = NoName THEN claims.name ELSE @]

\* The upsert of _ensure_profile; the address of another row makes it fail.
UpsertRow(c) ==
    /\ at[c] = "upsert"
    /\ \/ call[c].email \in rivals /\ Fails(c, "500") /\ KeepRow
       \/ /\ call[c].email \notin rivals
          /\ Store(Merged(row, call[c]))
          /\ Goto(c, "reload")
    /\ Elsewhere

\* Variant for a mutation: half of the answer is what was read first.
ReloadMixed(c) ==
    /\ at[c] = "reload"
    /\ Answers(c, IF found[c] = NoRow THEN row ELSE [row EXCEPT !.role = found[c].role])
    /\ KeepRow /\ Elsewhere

\* The SELECT after the upsert.  Objects do not expire at a commit
\* (expire_on_commit=False), so that a row that was read before comes back as
\* it was read.
ReloadRow(c) ==
    /\ at[c] = "reload"
    /\ Answers(c, IF found[c] = NoRow THEN row ELSE found[c])
    /\ KeepRow /\ Elsewhere

\* update_profile: the session writes the columns whose value differs from the
\* one it read.
WriteRow(c) ==
    /\ at[c] = "write"
    /\ LET old == found[c]
           new == [row EXCEPT !.name = IF call[c].name = old.name THEN @ ELSE call[c].name,
                              !.email = IF call[c].email = old.email THEN @ ELSE call[c].email]
       IN  \/ new.email \in rivals /\ Fails(c, "500") /\ KeepRow
           \/ new.email \notin rivals /\ Store(new) /\ Goto(c, "refresh")
    /\ Elsewhere

-----------------------------------------------------------------------------
(* The surroundings.                                                       *)

Event == events < MaxEvents /\ events' = events + 1
Quiet == UNCHANGED <<call, at, found, starts, alone, settled, given>> /\ lastAnswer' = NoAnswer

\* The person changes the address; the tokens in use keep the former.
ChangeMail(e) ==
    /\ Event /\ Quiet /\ KeepRow
    /\ account /\ e # mail
    /\ mail' = e
    /\ tokens' = tokens \cup {e}
    /\ UNCHANGED <<account, rivals, clash, granted>>

ExpireTokens ==
    /\ Quiet /\ KeepRow
    /\ tokens' = tokens \cap {mail}
    /\ UNCHANGED <<account, mail, rivals, clash, events, granted>>

\* Somebody else takes an address that is free, or leaves one.
RivalMoves(e) ==
    /\ Event /\ Quiet /\ KeepRow
    /\ mail # e /\ (row # NoRow => row.email # e)
    /\ rivals' = IF e \in rivals THEN rivals \ {e} ELSE rivals \cup {e}
    /\ clash' = [c \in AuthCalls |-> clash[c] \/ call[c].email = e]
    /\ UNCHANGED <<account, mail, tokens, granted>>

Suspend ==
    /\ Event /\ Quiet
    /\ row # NoRow /\ Store([row EXCEPT !.status = "suspended"])
    /\ UNCHANGED <<account, mail, tokens, rivals, clash, granted>>

Promote ==
    /\ Event /\ Quiet
    /\ row # NoRow /\ Store([row EXCEPT !.role = "admin"])
    /\ granted' = "admin"
    /\ UNCHANGED <<account, mail, tokens, rivals, clash>>

ProfileNext ==
    \/ \E c \in AuthCalls :
          \/ \E op \in {"signup", "login", "google", "refresh", "me", "update"},
                e \in Mails, n \in {NoName, GivenName, ChosenName} : StartCall(c, op, e, n)
          \/ CreateUser(c) \/ SignIn(c) \/ ReadRow(c) \/ RefreshRow(c)
          \/ UpsertRow(c) \/ ReloadRow(c) \/ WriteRow(c)
    \/ \E e \in Mails : ChangeMail(e) \/ RivalMoves(e)
    \/ ExpireTokens \/ Suspend \/ Promote

ProfileSpec == ProfileInit /\ [][ProfileNext]_profileVars

-----------------------------------------------------------------------------

\* The step answers request c with status s.
Replies(c, s) == c \in Running /\ at'[c] = "idle" /\ lastAnswer'.status = s
Meanwhile(c) == shown[c] \cup {row'}

\* A profile that a request answers was the row at some moment of the request,
\* whatever other requests and operators write in between: no answer mixes two
\* of its states.
AnswersWereRows ==
    [][\A c \in AuthCalls : Replies(c, "200") => lastAnswer'.body \in Meanwhile(c)]_profileVars

\* A sign-up, sign-in, refresh or GET /auth/me that is answered with 200 had an
\* active row at some moment of the call: no such answer is given for a row that
\* is suspended all along.  (PATCH /auth/me is answered for a suspended row.)
SuspensionEndsWithARequest ==
    [][\A c \in AuthCalls :
          Replies(c, "200") /\ call[c].kind # "update" =>
             \E p \in Meanwhile(c) : p # NoRow /\ p.status = "active"]_profileVars

\* The role is the one operators gave: no request that read the row before a
\* promotion takes it back.
RoleIsTheOperators == row # NoRow => row.role = granted

\* A name that the user chose is replaced only by the user: not by the name
\* that the provider has, in a request that read the row before.
ChosenNameStays ==
    [][row # NoRow /\ row.name = ChosenName /\ row'.name # ChosenName =>
          \E c \in AuthCalls : at[c] = "write" /\ at'[c] # "write"]_profileVars

\* The address settles: after a request that no request with another address
\* overlapped, the row has its address until such a request starts.
AddressSettles == settled # NoMail => row.email = settled

\* A server error is explained by the address, which another row had meanwhile,
\* or by a change to a profile that does not exist yet.
ErrorsAreExplained ==
    [][\A c \in AuthCalls :
          Replies(c, "500") => clash[c] \/ (call[c].kind = "update" /\ NoRow \in shown[c])]_profileVars

\* The row of a user through every interleaving of sign-ups, requests and
\* operators: upserts leave the role to the operator and the address settles.
ProfileInv == ProfileTypeOK /\ RoleIsTheOperators /\ AddressSettles

\* What a step may never do: answer with a row that was not the row during the
\* call, lift a suspension without a request, replace a chosen name, fail
\* without a cause.
ProfileSteps ==
    AnswersWereRows /\ SuspensionEndsWithARequest /\ ChosenNameStays /\ ErrorsAreExplained
=============================================================================
