--------------------------- MODULE ContactDelivery ---------------------------
(***************************************************************************)
(* The contact form and the footer's launch sign-up, from the button to    *)
(* the channels: ContactForm.tsx and FooterLaunchSignup.tsx, the routes    *)
(* contact and launch_updates, and contact_delivery.py, which posts to a   *)
(* webhook and then to Telegram, each if it is configured.                 *)
(*                                                                         *)
(* External: a channel may take a message and still not answer in time;    *)
(* Turnstile accepts a token once, and the widget replaces the token that  *)
(* it gave only when that expires.                                         *)
(***************************************************************************)
EXTENDS Integers, Sequences, FiniteSets

CONSTANTS
    Limit,          \* Limit[f]: requests a minute and address, of each form
    MaxMessages,    \* bound on the messages a visitor writes
    MaxWidget,      \* bound on the tokens the widget gets
    MaxReached      \* bound on the requests that get to the channels

Forms == {"contact", "footer"}
Channels == {"webhook", "telegram"}
ASSUME ContactAssumption ==
    /\ Limit \in [Forms -> Nat \ {0}] /\ MaxMessages \in Nat /\ MaxWidget \in Nat

VARIABLES
    form,           \* which form
    enabled,        \* channels that are configured
    ready,          \* of those, the ones whose settings are complete
    secret,         \* TURNSTILE_SECRET_KEY is set
    written,        \* messages written so far
    filled,         \* the last of them is in the form
    widget,         \* the token the form holds; 0: none
    shownStatus,    \* status of the form
    server,         \* requests: what comes next, for which message and token
    spent,          \* tokens Turnstile has seen
    rate,           \* requests counted in this minute
    copies,         \* copies[ch][m]: how often channel ch has message m
    told,           \* history: messages the visitor was told are sent
    failed,         \* history: messages of which a request has failed
    reached         \* history: the tokens of the requests that got to the channels

contactVars == <<form, enabled, ready, secret, written, filled, widget, shownStatus, server,
                 spent, rate, copies, told, failed, reached>>

Messages == 1..MaxMessages
Steps == {"limit", "captcha", "webhook", "telegram", "200", "400", "429", "500", "502"}

ContactTypeOK ==
    /\ form \in Forms /\ ready \subseteq enabled /\ enabled \subseteq Channels
    /\ written \in 0..MaxMessages /\ filled \in BOOLEAN /\ widget \in 0..MaxWidget
    /\ shownStatus \in {"idle", "sending", "sent", "error"}
    /\ server \subseteq [step : Steps, msg : Messages, token : 0..MaxWidget,
                            live : BOOLEAN]
    \* The form waits for one request at a time, for the message in it.
    /\ Cardinality({r \in server : r.live}) = IF shownStatus = "sending" THEN 1 ELSE 0
    /\ \A r \in server : r.live => r.msg = written
    /\ spent \subseteq 1..MaxWidget
    /\ rate \in 0..Limit[form]
    /\ copies \in [Channels -> [Messages -> Nat]]

ContactInit ==
    /\ form \in Forms
    /\ enabled \in SUBSET Channels
    /\ ready \in SUBSET enabled /\ ("webhook" \in enabled => "webhook" \in ready)
    /\ secret \in BOOLEAN
    /\ written = 0 /\ filled = FALSE /\ widget = 0 /\ shownStatus = "idle"
    /\ server = {} /\ spent = {} /\ rate = 0
    /\ copies = [ch \in Channels |-> [m \in Messages |-> 0]]
    /\ told = {} /\ failed = {} /\ reached = <<>>

config == <<form, enabled, ready, secret>>

-----------------------------------------------------------------------------
(* The page.                                                               *)

\* The visitor fills in an empty form or writes another message over the one in
\* it; what the form shows of the one before stays.  The fields are disabled
\* while a request is under way.
Write ==
    /\ shownStatus # "sending" /\ written < MaxMessages
    /\ written' = written + 1 /\ filled' = TRUE
    /\ UNCHANGED <<config, widget, shownStatus, server, spent, rate, copies, told, failed, reached>>

\* onSuccess of the widget: the first token, or the one after an expiry.
Solve ==
    /\ form = "contact" /\ widget < MaxWidget
    /\ widget' = widget + 1
    /\ UNCHANGED <<config, written, filled, shownStatus, server, spent, rate, copies, told, failed, reached>>

\* The fields are filled and the widget has given a token.
Complete == filled /\ (form = "contact" => widget > 0)

\* What handleSubmit does with a complete form.
SendForm ==
    /\ Complete /\ Len(reached) + Cardinality(server) < MaxReached
    /\ shownStatus' = "sending"
    /\ server' = server \cup {[step |-> "limit", msg |-> written, token |-> widget,
                              live |-> TRUE]}

\* Variant for a mutation: the button stays enabled while a request is under way.
SubmitAgain ==
    /\ SendForm
    /\ UNCHANGED <<config, written, filled, widget, spent, rate, copies, told, failed, reached>>

\* handleSubmit: a form that lacks a field (it is empty after a success) or a token
\* is an error; the browser does not submit the footer's required field empty.
Submit ==
    /\ shownStatus # "sending"
    /\ \/ SendForm
       \/ form = "contact" /\ ~Complete /\ shownStatus' = "error" /\ UNCHANGED server
    /\ UNCHANGED <<config, written, filled, widget, spent, rate, copies, told, failed, reached>>

\* The answer: a success empties the form, but not the token.
Receive(r) ==
    /\ r \in server
    /\ \/ /\ r.live /\ r.step = "200"
          /\ shownStatus' = "sent" /\ filled' = FALSE /\ told' = told \cup {r.msg} /\ UNCHANGED failed
       \/ /\ r.live /\ r.step \in {"400", "429", "500", "502"}
          /\ shownStatus' = "error" /\ failed' = failed \cup {r.msg} /\ UNCHANGED <<filled, told>>
       \/ /\ ~r.live /\ r.step \notin {"limit", "captcha"} \cup Channels
          /\ UNCHANGED <<shownStatus, filled, told, failed>>
    /\ server' = server \ {r}
    /\ UNCHANGED <<config, written, widget, spent, rate, copies, reached>>

\* The connection breaks: an error for the page, while the server goes on.
Lose(r) ==
    /\ r \in server /\ r.live
    /\ shownStatus' = "error" /\ failed' = failed \cup {r.msg}
    /\ server' = (server \ {r}) \cup {[r EXCEPT !.live = FALSE]}
    /\ UNCHANGED <<config, written, filled, widget, spent, rate, copies, told, reached>>

-----------------------------------------------------------------------------
(* The routes.                                                             *)

Become(r, s) == server' = (server \ {r}) \cup {[r EXCEPT !.step = s]}

\* The rate limit of the route.
CountRequest(r) ==
    /\ r \in server /\ r.step = "limit"
    /\ \/ rate >= Limit[form] /\ Become(r, "429") /\ UNCHANGED rate
       \/ /\ rate < Limit[form] /\ rate' = rate + 1
          /\ Become(r, IF form = "contact" THEN "captcha" ELSE "webhook")
    /\ UNCHANGED <<config, written, filled, widget, shownStatus, spent, copies, told, failed, reached>>

\* submit_contact: Turnstile is asked if there is a secret; it may not answer,
\* and has then seen the token or not.
CheckCaptcha(r) ==
    /\ r \in server /\ r.step = "captcha"
    /\ \/ ~secret /\ Become(r, "webhook") /\ UNCHANGED spent
       \/ secret /\ r.token \in spent /\ Become(r, "400") /\ UNCHANGED spent
       \/ /\ secret /\ r.token \notin spent
          /\ Become(r, "webhook") /\ spent' = spent \cup {r.token}
       \/ /\ secret /\ Become(r, "500")
          /\ spent' \in {spent, spent \cup {r.token}}
    /\ UNCHANGED <<config, written, filled, widget, shownStatus, rate, copies, told, failed, reached>>

Deliver(ch, m) == copies' = [copies EXCEPT ![ch][m] = @ + 1]
Arrives(r) == reached' = IF r.step = "webhook" THEN Append(reached, r.token) ELSE reached

\* forward_contact_webhook, then send_telegram_message: a channel that is not
\* configured is passed over, one that lacks settings fails, and a failure of
\* the first keeps the message from the second.
Post(r) ==
    /\ r \in server /\ r.step \in Channels
    /\ LET ch == r.step
           next == IF ch = "webhook" THEN "telegram" ELSE "200"
       IN  \/ ch \notin enabled /\ Become(r, next) /\ UNCHANGED copies
           \/ ch \in enabled \ ready /\ Become(r, "500") /\ UNCHANGED copies
           \/ ch \in ready /\ Deliver(ch, r.msg) /\ Become(r, next)
           \/ ch \in ready /\ Become(r, "502") /\ (UNCHANGED copies \/ Deliver(ch, r.msg))
    /\ Arrives(r)
    /\ UNCHANGED <<config, written, filled, widget, shownStatus, spent, rate, told, failed>>

\* A minute has passed.
NextMinute ==
    /\ rate > 0 /\ rate' = 0
    /\ UNCHANGED <<config, written, filled, widget, shownStatus, server, spent, copies, told, failed, reached>>

ContactNext ==
    \/ Write \/ Solve \/ Submit \/ NextMinute
    \/ \E r \in server :
          Receive(r) \/ Lose(r) \/ CountRequest(r) \/ CheckCaptcha(r) \/ Post(r)

ContactSpec == ContactInit /\ [][ContactNext]_contactVars

-----------------------------------------------------------------------------

\* Every message the visitor was told is sent has arrived in every channel that is
\* configured, however many attempts it took and whatever was written after it.
SentIsDelivered ==
    \A m \in told, ch \in enabled : copies[ch][m] > 0

\* A channel has a message twice only if an attempt was reported as failed: the
\* webhook may have it again because Telegram failed, or an answer was lost.
TwiceOnlyAfterAFailure ==
    \A ch \in Channels, m \in 1..written : copies[ch][m] > 1 => m \in failed

\* With a secret, every attempt that gets to the channels has a token of its own:
\* after a failed delivery the visitor is refused until the widget has a new one.
EachTokenPaysOnce ==
    form = "contact" /\ secret =>
       \A i, j \in 1..Len(reached) : i # j => reached[i] # reached[j]

\* "Sent" on the page, the copies in the channels and the failures the visitor
\* was told of agree, however answers and channels fail.
ContactInv == ContactTypeOK /\ SentIsDelivered /\ TwiceOnlyAfterAFailure /\ EachTokenPaysOnce
=============================================================================
