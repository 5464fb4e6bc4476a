---------------------------- MODULE AccountPages ----------------------------
(***************************************************************************)
(* One tab of the browser among the pages of an account: signing in and    *)
(* up, a forgotten password and its replacement, the profile; with the     *)
(* AuthProvider that tells them who is signed in, and the effects that     *)
(* send the visitor from page to page.  A page that is left does not take  *)
(* its requests with it: their handlers go on, set the user and navigate.  *)
(*                                                                         *)
(* There is one account.  How its session is kept in cookies is the        *)
(* subject of AuthSession; here the browser has one or has none.           *)
(***************************************************************************)
EXTENDS Integers, FiniteSets

CONSTANTS
    DisplayNames,   \* display names of the account
    Passwords,      \* what is typed as a password; "": nothing
    Nobody,         \* user is null
    MaxRequests     \* bound on the requests the visitor makes

ASSUME AccountAssumption ==
    /\ Nobody \notin DisplayNames /\ "" \in Passwords /\ MaxRequests \in Nat

VARIABLES
    route,          \* the page that is mounted
    nextPath,       \* of the login page: where to go when signed in
    heading,        \* the last navigation that is still under way, or Nowhere
    shownUser,      \* user of the AuthProvider: its display name, or Nobody
    isLoading,
    form,           \* state of the form of the page that is mounted, or NoFields
    cards,          \* state of the cards of my-account, or NoCards
    requests,       \* requests in flight
    requested,      \* how many the visitor made
    session,        \* the browser has the cookies of a session
    storedName,     \* the display name on the server
    lapsed,         \* history: the session ended, or began, without an answer to this tab
    muddled         \* history: requests about the user overlapped since it was last read

place == <<route, nextPath, heading>>
provider == <<shownUser, isLoading>>
backend == <<session, storedName, lapsed>>
accountVars == <<place, provider, form, cards, requests, requested, backend, muddled>>

Routes == {"home", "login", "forgot", "reset", "account"}
Nowhere == [to |-> "nowhere", next |-> "home"]
To(r) == [to |-> r, next |-> "home"]
LoginFor(r) == [to |-> "login", next |-> r]
Destinations == [to : Routes \cup {"nowhere"}, next : {"home", "account"}]

NoFields == [on |-> "none"]
NewForm(r) ==
    [on |-> r, mode |-> "login", password |-> "", confirmPassword |-> "", isSubmitting |-> FALSE,
     errorMessage |-> "none", done |-> FALSE, verifying |-> FALSE, accessToken |-> FALSE,
     switched |-> FALSE]    \* history: the mode was switched since the form was sent
NoCards == [on |-> FALSE]
NewCards(u) ==
    [on |-> TRUE, editing |-> FALSE, draft |-> u, saving |-> FALSE, nameError |-> FALSE, reset |-> "idle"]

HasForm(r) == r \in {"login", "forgot", "reset"}
FormAt(r) == IF HasForm(r) THEN NewForm(r) ELSE NoFields

\* fn: who waits for the answer; here: it is still mounted; goal: where it will
\* navigate; name: the name to store, or the one that is answered.
NewRequest(n, fn, goal, name) ==
    [n |-> n, fn |-> fn, here |-> TRUE, goal |-> goal, name |-> name, phase |-> "sent"]

\* Requests about the user, and those of a form.
Identity == {"me", "refresh", "login", "register", "logout", "save"}
FormCalls == {"login", "register", "forgot", "reset"}

-----------------------------------------------------------------------------
(* Rendering.  useRequireAuth and the effect of the login page run when     *)
(* what they depend on has changed; MyAccountPage shows its cards only to a  *)
(* user who is known, and forgets their state otherwise.                    *)

SeesCards(r, u, busy) == r = "account" /\ ~busy /\ u # Nobody

CardsFor(r, u, busy) ==
    IF ~SeesCards(r, u, busy) THEN NoCards
    ELSE IF ~cards.on THEN NewCards(u)
    ELSE IF cards.editing THEN cards ELSE [cards EXCEPT !.draft = u]

\* Who waited in a card or a form that is gone is not mounted any more.
InCards == {"save", "mail"}
Left(S, fns) == {[c EXCEPT !.here = c.here /\ c.fn \notin fns] : c \in S}

\* Variant for a mutation: the effect of useRequireAuth waits for isAuthenticated only.
RenderLate(u, busy, goal) ==
    /\ shownUser' = u /\ isLoading' = busy
    /\ cards' = CardsFor(route, u, busy)
    /\ heading' = IF route = "account" /\ shownUser # Nobody /\ ~busy /\ u = Nobody
                  THEN LoginFor("account") ELSE goal

\* The user or isLoading has changed, and the handler navigates to goal.
Render(u, busy, goal) ==
    LET changed == <<u # Nobody, busy>> # <<shownUser # Nobody, isLoading>>
    IN  /\ shownUser' = u /\ isLoading' = busy
        /\ cards' = CardsFor(route, u, busy)
        /\ heading' = IF route = "account" /\ changed /\ ~busy /\ u = Nobody THEN LoginFor("account") ELSE goal

\* The same on the login page, whose form may end its attempt in the same step.
RenderLogin(u, busy, goal, submitting) ==
    LET changed == <<u # Nobody, busy, submitting>> # <<shownUser # Nobody, isLoading, form.isSubmitting>>
    IN  /\ shownUser' = u /\ isLoading' = busy
        /\ cards' = NoCards
        /\ heading' = IF changed /\ ~busy /\ u # Nobody /\ ~submitting THEN To(nextPath) ELSE goal

Renders(u, busy, goal) ==
    IF route = "login" THEN RenderLogin(u, busy, goal, form.isSubmitting) ELSE Render(u, busy, goal)

-----------------------------------------------------------------------------

AccountInit ==
    /\ route \in Routes /\ nextPath \in {"home", "account"} /\ (route # "login" => nextPath = "home")
    /\ heading = Nowhere
    /\ shownUser = Nobody /\ isLoading = TRUE
    /\ cards = NoCards
    /\ requested = 0
    /\ session \in BOOLEAN /\ storedName \in DisplayNames /\ lapsed = FALSE /\ muddled = FALSE
    /\ \E link \in {"hash", "fragment", "none"} :
          /\ route # "reset" => link = "none"
          /\ form = IF route = "reset"
                    THEN [NewForm(route) EXCEPT !.verifying = link = "hash", !.accessToken = link = "fragment"]
                    ELSE FormAt(route)
          /\ requests = {NewRequest(0, "me", Nowhere, Nobody)}
                        \cup (IF link = "hash" THEN {NewRequest(0, "verify", Nowhere, Nobody)} ELSE {})

\* A request of the visitor.
AskFor(fn, goal, name) ==
    /\ requested < MaxRequests
    /\ requested' = requested + 1
    /\ requests' = requests \cup {NewRequest(requested + 1, fn, goal, name)}
    /\ muddled' = (muddled \/ (fn \in Identity /\ \E c \in requests : c.fn \in Identity))

-----------------------------------------------------------------------------
(* Navigation.                                                             *)

Click(target) ==
    /\ heading' = target
    /\ UNCHANGED <<route, nextPath, provider, form, cards, requests, requested, backend, muddled>>

FollowLink ==
    \/ Click(To("home"))
    \/ ~isLoading /\ shownUser # Nobody /\ Click(To("account"))
    \/ ~isLoading /\ shownUser = Nobody /\ Click(To("login"))
    \/ route \in {"forgot", "reset"} /\ ~(form.verifying) /\ Click(To("login"))
    \/ route = "reset" /\ ~form.verifying /\ ~form.accessToken /\ ~form.done /\ Click(To("forgot"))
    \/ route = "login" /\ ~isLoading /\ shownUser = Nobody /\ form.mode = "login" /\ Click(To("forgot"))

\* The page arrives.  The same page with other parameters stays mounted; a new
\* one runs its effects.
Arrive ==
    /\ heading # Nowhere
    /\ route' = heading.to /\ nextPath' = heading.next
    /\ IF heading.to = route
       THEN UNCHANGED <<form, cards, requests>>
       ELSE /\ form' = FormAt(heading.to)
            /\ cards' = IF SeesCards(heading.to, shownUser, isLoading) THEN NewCards(shownUser) ELSE NoCards
            /\ requests' = Left(requests, FormCalls \cup {"verify"} \cup InCards)
    /\ heading' =
          IF heading.to = "login" /\ ~isLoading /\ shownUser # Nobody /\ ~form'.isSubmitting
             /\ <<heading.to, heading.next>> # <<route, nextPath>>
          THEN To(heading.next)
          ELSE IF heading.to = "account" /\ route # "account" /\ ~isLoading /\ shownUser = Nobody
          THEN LoginFor("account") ELSE Nowhere
    /\ UNCHANGED <<provider, requested, backend, muddled>>

-----------------------------------------------------------------------------
(* The forms: login/page.tsx, forgot-password/page.tsx, reset-password.     *)

FormIs(f) ==
    /\ form' = f
    /\ UNCHANGED <<place, provider, cards, backend>>
Quietly == UNCHANGED <<requests, requested, muddled>>

LoginShown == route = "login" /\ ~isLoading /\ shownUser = Nobody

\* Variant for a mutation: the error stays.
SwitchModeKeeping(m) ==
    /\ LoginShown
    /\ FormIs([form EXCEPT !.mode = m, !.password = "", !.confirmPassword = "",
                           !.switched = form.isSubmitting /\ (form.switched \/ m # form.mode)])
    /\ Quietly

SwitchMode(m) ==
    /\ LoginShown
    /\ FormIs([form EXCEPT !.mode = m, !.errorMessage = "none", !.password = "", !.confirmPassword = "",
                           !.switched = form.isSubmitting /\ (form.switched \/ m # form.mode)])
    /\ Quietly

FieldsShown ==
    \/ LoginShown
    \/ route = "reset" /\ ~form.verifying /\ form.accessToken /\ ~form.done
TypePassword(p) == FieldsShown /\ FormIs([form EXCEPT !.password = p]) /\ Quietly
TypeConfirmPassword(p) ==
    /\ FieldsShown /\ (route = "reset" \/ form.mode = "register")
    /\ FormIs([form EXCEPT !.confirmPassword = p]) /\ Quietly

Submitted == [form EXCEPT !.errorMessage = "none", !.isSubmitting = TRUE, !.switched = FALSE]

\* The browser sends no form with an empty field, and none whose button is disabled.
SubmitLogin ==
    /\ LoginShown /\ ~form.isSubmitting /\ form.password # ""
    /\ IF form.mode = "register" /\ form.password # form.confirmPassword
       THEN form.confirmPassword # "" /\ FormIs([form EXCEPT !.errorMessage = "mismatch"]) /\ Quietly
       ELSE /\ FormIs(Submitted)
            /\ \E name \in DisplayNames :
                  AskFor(form.mode, IF form.mode = "login" THEN To(nextPath) ELSE To("home"), name)

SubmitForgot ==
    /\ route = "forgot" /\ ~form.isSubmitting /\ ~form.done
    /\ FormIs(Submitted) /\ AskFor("forgot", Nowhere, Nobody)

SubmitReset ==
    /\ route = "reset" /\ FieldsShown /\ ~form.isSubmitting
    /\ form.password # "" /\ form.confirmPassword # ""
    /\ IF form.password # form.confirmPassword
       THEN FormIs([form EXCEPT !.errorMessage = "mismatch"]) /\ Quietly
       ELSE FormIs(Submitted) /\ AskFor("reset", Nowhere, Nobody)

-----------------------------------------------------------------------------
(* The cards of my-account: ProfileHeader and SecurityCard.                 *)

CardsAre(k) ==
    /\ cards' = k
    /\ UNCHANGED <<place, provider, form, backend>>

EditName == cards.on /\ ~cards.editing /\ CardsAre([cards EXCEPT !.editing = TRUE]) /\ Quietly

TypeName(name) ==
    /\ cards.on /\ cards.editing /\ ~cards.saving
    /\ CardsAre([cards EXCEPT !.draft = name]) /\ Quietly

\* Enter, the button, or a click anywhere else.
CommitName ==
    /\ cards.on /\ cards.editing /\ ~cards.saving
    /\ IF cards.draft = shownUser
       THEN CardsAre([cards EXCEPT !.editing = FALSE]) /\ Quietly
       ELSE /\ CardsAre([cards EXCEPT !.saving = TRUE, !.nameError = FALSE])
            /\ AskFor("save", Nowhere, cards.draft)

CancelName ==
    /\ cards.on /\ cards.editing /\ ~cards.saving
    /\ CardsAre([cards EXCEPT !.draft = shownUser, !.editing = FALSE, !.nameError = FALSE])
    /\ Quietly

ChangePassword ==
    /\ cards.on /\ cards.reset \in {"idle", "error"}
    /\ CardsAre([cards EXCEPT !.reset = "sending"])
    /\ AskFor("mail", Nowhere, Nobody)

\* From the page or from the header.
SignOut ==
    /\ ~isLoading /\ shownUser # Nobody
    /\ \/ route = "account" /\ AskFor("logout", To("login"), Nobody)
       \/ AskFor("logout", To("home"), Nobody)
    /\ UNCHANGED <<place, provider, form, cards, backend>>

-----------------------------------------------------------------------------
(* The server.                                                             *)

Becomes(c, d) == requests' = (requests \ {c}) \cup {d}
Tab == <<place, provider, form, cards, requested>>

AnswerIs(c, phase, name) == Becomes(c, [c EXCEPT !.phase = phase, !.name = name])

AnswerMe(c) ==
    /\ c.fn \in {"me", "refresh"}
    /\ IF session THEN AnswerIs(c, "ok", storedName) ELSE AnswerIs(c, "failed", Nobody)
    /\ UNCHANGED backend
AnswerLogin(c) ==
    /\ c.fn \in {"login", "register"}
    /\ session' = TRUE /\ lapsed' = FALSE
    /\ storedName' = IF c.fn = "register" THEN c.name ELSE storedName
    /\ AnswerIs(c, "ok", storedName')
AnswerLogout(c) ==
    /\ c.fn = "logout"
    /\ session' = FALSE
    /\ AnswerIs(c, "ok", Nobody)
    /\ UNCHANGED <<storedName, lapsed>>
AnswerSave(c) ==
    /\ c.fn = "save"
    /\ IF session THEN storedName' = c.name /\ AnswerIs(c, "ok", c.name)
                  ELSE UNCHANGED storedName /\ AnswerIs(c, "refused", c.name)
    /\ UNCHANGED <<session, lapsed>>
AnswerOther(c) ==
    /\ c.fn \in {"forgot", "mail", "verify", "reset"}
    /\ AnswerIs(c, "ok", Nobody)
    /\ UNCHANGED backend

ServerAnswers(c) ==
    /\ c.phase = "sent"
    /\ AnswerMe(c) \/ AnswerLogin(c) \/ AnswerLogout(c) \/ AnswerSave(c) \/ AnswerOther(c)
    /\ UNCHANGED <<Tab, muddled>>

\* The request is refused or fails, or its answer is lost.
Fail(c) ==
    /\ c.phase \in {"sent", "ok"}
    /\ Becomes(c, [c EXCEPT !.phase = "failed"])
    /\ lapsed' = (lapsed \/ (c.phase = "ok" /\ c.fn = "logout"))
    /\ muddled' = (muddled \/ (c.phase = "ok" /\ c.fn = "save"))
    /\ UNCHANGED <<Tab, session, storedName>>

\* The session is over: it expired, or was ended in another tab.
SessionEnds ==
    /\ session /\ session' = FALSE /\ lapsed' = TRUE
    /\ UNCHANGED <<Tab, requests, storedName, muddled>>

-----------------------------------------------------------------------------
(* The answers.                                                            *)

\* The mount effect of AuthProvider, and its refresh.
ReceiveMe(c) ==
    /\ c.fn \in {"me", "refresh"} /\ c.phase # "sent"
    /\ LET u == IF c.phase = "ok" THEN c.name ELSE Nobody
       IN  /\ Renders(u, FALSE, heading)
           /\ requests' = IF cards.on /\ ~cards'.on THEN Left(requests \ {c}, InCards) ELSE requests \ {c}
    /\ UNCHANGED <<route, nextPath, form, requested, backend, muddled>>

\* handleSubmit of the login page goes on, mounted or not.
Attempted(c, error) ==
    IF c.here THEN [form EXCEPT !.isSubmitting = FALSE, !.errorMessage = error] ELSE form
ReceiveLogin(c) ==
    /\ c.fn \in {"login", "register"} /\ c.phase # "sent"
    /\ LET u == IF c.phase = "ok" THEN c.name ELSE shownUser
           goal == IF c.phase = "ok" THEN c.goal ELSE heading
       IN  /\ form' = Attempted(c, IF c.phase = "ok" THEN form.errorMessage ELSE c.fn)
           /\ IF route = "login" THEN RenderLogin(u, isLoading, goal, form'.isSubmitting)
                                 ELSE Render(u, isLoading, goal)
    /\ requests' = requests \ {c}
    /\ UNCHANGED <<route, nextPath, requested, backend, muddled>>

ReceiveLogout(c) ==
    /\ c.fn = "logout" /\ c.phase # "sent"
    /\ IF c.phase = "ok" THEN Renders(Nobody, isLoading, c.goal) ELSE UNCHANGED <<heading, provider, cards>>
    /\ requests' = IF cards.on /\ ~cards'.on THEN Left(requests \ {c}, InCards) ELSE requests \ {c}
    /\ UNCHANGED <<route, nextPath, form, requested, backend, muddled>>

\* commit goes on: the profile is read again, which takes every card off the
\* page, mounted or not.
ReceiveSave(c) ==
    /\ c.fn = "save" /\ c.phase = "ok"
    /\ Renders(shownUser, TRUE, heading)
    /\ requests' = Left((requests \ {c}) \cup {[c EXCEPT !.fn = "refresh", !.phase = "sent", !.name = Nobody]},
                        InCards)
    /\ muddled' = (\E d \in requests \ {c} : d.fn \in Identity)
    /\ UNCHANGED <<route, nextPath, form, requested, backend>>

\* Variant for a mutation: the name goes on being saved.
SaveFailsSaving(c) ==
    /\ c.fn = "save" /\ c.phase = "failed"
    /\ requests' = requests \ {c}
    /\ cards' = IF c.here THEN [cards EXCEPT !.nameError = TRUE] ELSE cards
    /\ UNCHANGED <<place, provider, form, requested, backend, muddled>>

SaveFails(c) ==
    /\ c.fn = "save" /\ c.phase = "failed"
    /\ requests' = requests \ {c}
    /\ cards' = IF c.here THEN [cards EXCEPT !.saving = FALSE, !.nameError = TRUE] ELSE cards
    /\ UNCHANGED <<place, provider, form, requested, backend, muddled>>

\* Refused, and so was the renewal: clearSessionAndRedirect loads the login page.
LoadLoginPage(c) ==
    /\ c.phase = "refused"
    /\ route' = "login" /\ nextPath' = (IF route = "account" THEN "account" ELSE "home")
    /\ heading' = Nowhere
    /\ shownUser' = Nobody /\ isLoading' = TRUE
    /\ form' = NewForm("login") /\ cards' = NoCards
    /\ requests' = {NewRequest(c.n, "me", Nowhere, Nobody)}
    /\ session' = FALSE /\ muddled' = FALSE
    /\ UNCHANGED <<requested, storedName, lapsed>>

ReceiveMail(c) ==
    /\ c.fn = "mail" /\ c.phase # "sent"
    /\ requests' = requests \ {c}
    /\ cards' = IF ~c.here THEN cards ELSE [cards EXCEPT !.reset = IF c.phase = "ok" THEN "sent" ELSE "error"]
    /\ UNCHANGED <<place, provider, form, requested, backend, muddled>>

ReceiveForm(c) ==
    /\ c.fn \in {"forgot", "reset"} /\ c.phase # "sent"
    /\ requests' = requests \ {c}
    /\ form' = IF ~c.here THEN form
               ELSE IF c.phase = "ok" THEN [form EXCEPT !.isSubmitting = FALSE, !.done = TRUE]
               ELSE Attempted(c, c.fn)
    /\ UNCHANGED <<place, provider, cards, requested, backend, muddled>>

ReceiveVerify(c) ==
    /\ c.fn = "verify" /\ c.phase # "sent"
    /\ requests' = requests \ {c}
    /\ form' = IF c.here THEN [form EXCEPT !.verifying = FALSE, !.accessToken = c.phase = "ok"] ELSE form
    /\ UNCHANGED <<place, provider, cards, requested, backend, muddled>>

Answered(c) ==
    \/ ReceiveMe(c) \/ ReceiveLogin(c) \/ ReceiveLogout(c) \/ ReceiveSave(c) \/ SaveFails(c)
    \/ LoadLoginPage(c) \/ ReceiveMail(c) \/ ReceiveForm(c) \/ ReceiveVerify(c)

AccountNext ==
    \/ FollowLink \/ Arrive
    \/ \E m \in {"login", "register"} : SwitchMode(m)
    \/ \E p \in Passwords : TypePassword(p) \/ TypeConfirmPassword(p)
    \/ SubmitLogin \/ SubmitForgot \/ SubmitReset
    \/ EditName \/ (\E name \in DisplayNames : TypeName(name)) \/ CommitName \/ CancelName
    \/ ChangePassword \/ SignOut
    \/ \E c \in requests : ServerAnswers(c) \/ Fail(c) \/ Answered(c)
    \/ SessionEnds

AccountSpec == AccountInit /\ [][AccountNext]_accountVars

-----------------------------------------------------------------------------

Awaited(fns) == {c \in requests : c.here /\ c.fn \in fns}

\* A settled page shows what it is for: a visitor who is not signed in is on the
\* way from my-account to the login page, and one who is, from there.
SentAway ==
    ~isLoading /\ heading = Nowhere =>
        /\ route = "account" => shownUser # Nobody
        /\ route = "login" /\ ~form.isSubmitting => shownUser = Nobody

\* The user that is shown has the name that is stored, and a session, unless
\* this session ended elsewhere, or requests about the user overlapped.
ShownIsStored ==
    ~muddled /\ shownUser # Nobody /\ (\A c \in requests : c.fn \notin Identity) =>
        shownUser = storedName /\ (session \/ lapsed)

\* What turns or is disabled has one request in flight, made where it turns, and
\* the editor holds the name that is being saved.
AccountSpinnersAreBacked ==
    /\ isLoading => \E c \in requests : c.fn \in {"me", "refresh"}
    /\ form.on = "none" => Awaited(FormCalls \cup {"verify"}) = {}
    /\ form.on # "none" =>
          /\ Awaited(FormCalls) = {} <=> ~form.isSubmitting
          /\ Awaited({"verify"}) = {} <=> ~form.verifying
    /\ ~cards.on => Awaited(InCards) = {}
    /\ cards.on =>
          /\ Awaited({"save"}) = {} <=> ~cards.saving
          /\ Awaited({"mail"}) = {} <=> cards.reset # "sending"
          /\ \A c \in Awaited({"save"}) : cards.editing /\ cards.draft = c.name
    /\ \A fns \in {FormCalls, {"save"}, {"mail"}} : \A c, d \in Awaited(fns) : c = d

\* The error under the form is of what the form is for now, unless the mode was
\* switched while the form was on its way.
ErrorIsOfTheForm ==
    form.on = "login" /\ ~form.switched => form.errorMessage \in {"none", "mismatch", form.mode}

AccountTypeOK ==
    /\ route \in Routes /\ nextPath \in {"home", "account"} /\ heading \in Destinations
    /\ shownUser \in DisplayNames \cup {Nobody} /\ storedName \in DisplayNames
    /\ form.on = IF HasForm(route) THEN route ELSE "none"
    /\ cards.on <=> SeesCards(route, shownUser, isLoading)
    /\ requested \in 0..MaxRequests

AccountInv ==
    AccountTypeOK /\ SentAway /\ ShownIsStored /\ AccountSpinnersAreBacked /\ ErrorIsOfTheForm
=============================================================================
