---------------------------- MODULE DeliveryProofs ----------------------------
(***************************************************************************)
(* Proofs about what the server passes on: the messages of the contact     *)
(* form (ContactDelivery), for any number of messages and tokens, and the  *)
(* events of production (Analytics), for any number of requests and days.  *)
(***************************************************************************)
EXTENDS ContactDelivery, Analytics, FiniteSetTheorems, TLAPS

-----------------------------------------------------------------------------
(* The contact form.                                                       *)

Live == {r \in server : r.live}
Request == [step : Steps, msg : Messages, token : 0..MaxWidget, live : BOOLEAN]

\* ContactTypeOK without the cardinality, which OneLive makes precise.
FormTypeOK ==
    /\ form \in Forms /\ ready \subseteq enabled /\ enabled \subseteq Channels
    /\ written \in 0..MaxMessages /\ widget \in 0..MaxWidget
    /\ shownStatus \in {"idle", "sending", "sent", "error"}
    /\ server \subseteq Request
    /\ spent \subseteq 1..MaxWidget
    /\ rate \in 0..Limit[form]
    /\ copies \in [Channels -> [Messages -> Nat]]
    /\ reached \in Seq(0..MaxWidget)
    /\ \A r \in server : r.msg <= written
    /\ failed \subseteq 1..written /\ told \subseteq 1..written
    /\ filled \in BOOLEAN /\ (filled => written > 0)
    /\ secret \in BOOLEAN

\* The form waits for the answer to the message that is in it.
OneLive ==
    /\ shownStatus = "sending" => \E r \in server : Live = {r} /\ r.msg = written
    /\ shownStatus # "sending" => Live = {}

\* A request leaves a copy in each channel it passes.
PassedIsDelivered ==
    \A r \in server :
       /\ r.step = "telegram" /\ "webhook" \in enabled => copies["webhook"][r.msg] > 0
       /\ r.step = "200" => \A ch \in enabled : copies[ch][r.msg] > 0

\* Until a request for a message has failed, there is one at most, and a channel
\* has a copy only when this one has passed it: none while the message waits in
\* the form.
FirstAttempt(m) ==
    /\ \A r \in server : r.msg = m => r.live
    /\ m > written \/ (m = written /\ filled /\ shownStatus # "sending") =>
          \A ch \in Channels : copies[ch][m] = 0
    /\ \A r \in server : r.msg = m =>
          /\ r.step \in {"limit", "captcha", "webhook"} =>
                \A ch \in Channels : copies[ch][m] = 0
          /\ r.step = "telegram" => copies["telegram"][m] = 0
    /\ \A ch \in Channels : copies[ch][m] <= 1

\* A token is spent before the request that has it gets to the channels, and one
\* request at most has a token that was accepted.
PaidOnce ==
    /\ form = "footer" => \A r \in server : r.step # "captcha"
    /\ form = "contact" => \A r \in server : r.token > 0
    /\ form = "contact" /\ secret =>
          /\ \A i \in 1..Len(reached) : reached[i] \in spent
          /\ \A r \in server : r.step = "webhook" =>
                /\ r.token \in spent
                /\ \A i \in 1..Len(reached) : reached[i] # r.token
                /\ \A q \in server : q.step = "webhook" /\ q.token = r.token => q = r

MailInv ==
    /\ FormTypeOK /\ OneLive /\ PassedIsDelivered /\ SentIsDelivered
    /\ \A m \in Messages : m \notin failed => FirstAttempt(m)
    /\ PaidOnce /\ EachTokenPaysOnce
\* The request r comes to step t.
LEMMA RequestMoves ==
  ASSUME MailInv, NEW r \in server, NEW t \in Steps, Become(r, t), UNCHANGED <<written, shownStatus>>
  PROVE  /\ server' \subseteq Request /\ \A x \in server' : x.msg <= written
         /\ OneLive'
         /\ \E q \in server' : /\ q.step = t /\ q.msg = r.msg /\ q.token = r.token /\ q.live = r.live
                               /\ \A x \in server' : x = q \/ (x \in server /\ x # r)
<1> DEFINE q == [r EXCEPT !.step = t]
<1>1. server \subseteq Request /\ r \in Request /\ \A x \in server : x.msg <= written
  BY DEF MailInv, FormTypeOK
<1>2. q \in Request /\ q.step = t /\ q.msg = r.msg /\ q.token = r.token /\ q.live = r.live
  BY <1>1 DEF Request
<1>3. server' = (server \ {r}) \cup {q}
  BY DEF Become
<1> HIDE DEF q
<1>4. server' \subseteq Request /\ \A x \in server' : x.msg <= written
  BY <1>1, <1>2, <1>3
<1>5. Live' = IF r.live THEN (Live \ {r}) \cup {q} ELSE Live \ {r}
  BY <1>2, <1>3 DEF Live
<1>6. OneLive'
  <2>1. CASE shownStatus = "sending"
    <3>1. PICK x \in server : Live = {x} /\ x.msg = written
      BY <2>1 DEF MailInv, OneLive
    <3>2. CASE r.live
      <4>1. r = x
        BY <3>1, <3>2 DEF Live
      <4>2. Live' = {q} /\ q \in server' /\ q.msg = written
        BY <1>2, <1>3, <1>5, <3>1, <3>2, <4>1
      <4>3. QED
        BY <2>1, <4>2 DEF OneLive
    <3>3. CASE ~r.live
      <4>1. Live' = {x} /\ x \in server'
        BY <1>3, <1>5, <3>1, <3>3 DEF Live
      <4>2. QED
        BY <2>1, <3>1, <4>1 DEF OneLive
    <3>4. QED
      BY <3>2, <3>3
  <2>2. CASE shownStatus # "sending"
    <3>1. Live = {}
      BY <2>2 DEF MailInv, OneLive
    <3>2. ~r.live
      BY <3>1 DEF Live
    <3>3. QED
      BY <2>2, <1>5, <3>1, <3>2 DEF OneLive
  <2>3. QED
    BY <2>1, <2>2
<1>7. q \in server' /\ \A x \in server' : x = q \/ (x \in server /\ x # r)
  BY <1>3
<1>8. QED
  BY <1>2, <1>4, <1>6, <1>7

\* A message that has not failed has one request at most.
LEMMA OneRequest ==
  ASSUME MailInv, NEW r \in server, NEW x \in server, x.msg = r.msg, r.msg \notin failed
  PROVE  x = r /\ r.live /\ shownStatus = "sending" /\ r.msg = written
<1>1. r.msg \in Messages
  BY DEF MailInv, FormTypeOK, Request
<1>2. r.live /\ x.live
  BY <1>1 DEF MailInv, FirstAttempt
<1>3. r \in Live /\ x \in Live
  BY <1>2 DEF Live
<1>4. QED
  BY <1>2, <1>3 DEF MailInv, OneLive

LEMMA SubmitKeeps == ASSUME MailInv, Submit PROVE MailInv'
<1> DEFINE q == [step |-> "limit", msg |-> written, token |-> widget, live |-> TRUE]
<1>1. /\ shownStatus # "sending"
      /\ UNCHANGED <<config, written, filled, widget, spent, rate, copies, told, failed, reached>>
  BY DEF Submit
<1>2. CASE shownStatus' = "error" /\ UNCHANGED server
  <2>1. FormTypeOK' /\ OneLive' /\ PassedIsDelivered' /\ SentIsDelivered' /\ PaidOnce' /\ EachTokenPaysOnce'
    BY <1>1, <1>2 DEF MailInv, FormTypeOK, OneLive, Live, PassedIsDelivered, SentIsDelivered, PaidOnce,
       EachTokenPaysOnce, config
  <2>2. ASSUME NEW m \in Messages, m \notin failed'
        PROVE  FirstAttempt(m)'
    BY <1>1, <1>2, <2>2 DEF MailInv, FirstAttempt
  <2>3. QED
    BY <2>1, <2>2 DEF MailInv
<1>3. CASE SendForm
  <2>1. /\ filled /\ shownStatus' = "sending" /\ server' = server \cup {q}
        /\ form = "contact" => widget > 0
    BY <1>3 DEF SendForm, Complete
  <2>2. written \in Messages /\ widget \in 0..MaxWidget
    BY <2>1, ContactAssumption DEF MailInv, FormTypeOK, Messages
  <2>3. q \in Request /\ q.step = "limit" /\ q.msg = written /\ q.token = widget /\ q.live
    BY <2>2 DEF Request, Steps
  <2> HIDE DEF q
  <2>4. FormTypeOK'
    BY <1>1, <2>1, <2>2, <2>3 DEF MailInv, FormTypeOK, config
  <2>5. OneLive'
    <3>1. Live' = {q}
      BY <1>1, <2>1, <2>3 DEF Live, MailInv, OneLive
    <3>2. QED
      BY <1>1, <2>1, <2>3, <3>1 DEF OneLive
  <2>6. PassedIsDelivered' /\ SentIsDelivered'
    BY <1>1, <2>1, <2>3 DEF MailInv, PassedIsDelivered, SentIsDelivered, config
  <2>7. ASSUME NEW m \in Messages, m \notin failed'
        PROVE  FirstAttempt(m)'
    <3>1. m \notin failed /\ FirstAttempt(m)
      BY <1>1, <2>7 DEF MailInv
    <3>2. m = written => \A ch \in Channels : copies[ch][m] = 0
      BY <1>1, <2>1, <3>1 DEF FirstAttempt
    <3>3. QED
      BY <1>1, <2>1, <2>3, <3>1, <3>2 DEF FirstAttempt
  <2>8. PaidOnce' /\ EachTokenPaysOnce'
    BY <1>1, <2>1, <2>3 DEF MailInv, PaidOnce, EachTokenPaysOnce, config
  <2>9. QED
    BY <2>4, <2>5, <2>6, <2>7, <2>8 DEF MailInv
<1>4. QED
  BY <1>2, <1>3 DEF Submit

LEMMA WriteKeeps == ASSUME MailInv, Write PROVE MailInv'
<1>1. /\ shownStatus # "sending" /\ UNCHANGED shownStatus
      /\ written < MaxMessages /\ written' = written + 1 /\ filled' = TRUE
      /\ UNCHANGED <<config, widget, server, spent, rate, copies, told, failed, reached>>
  BY DEF Write
<1>2. written \in Nat /\ MaxMessages \in Nat
  BY ContactAssumption DEF MailInv, FormTypeOK
<1>3. FormTypeOK'
  <2>1. /\ written' \in 0..MaxMessages /\ failed' \subseteq 1..written' /\ told' \subseteq 1..written'
        /\ written' > 0
    BY <1>1, <1>2 DEF MailInv, FormTypeOK
  <2>2. \A r \in server : r.msg \in Nat /\ r.msg <= written
    BY DEF MailInv, FormTypeOK, Request, Messages
  <2>3. \A r \in server' : r.msg <= written'
    BY <1>1, <1>2, <2>2
  <2>4. QED
    BY <1>1, <2>1, <2>3 DEF MailInv, FormTypeOK, config
<1>4. OneLive' /\ PassedIsDelivered' /\ SentIsDelivered'
  BY <1>1 DEF MailInv, OneLive, Live, PassedIsDelivered, SentIsDelivered, config
<1>5. ASSUME NEW m \in Messages, m \notin failed'
      PROVE  FirstAttempt(m)'
  <2>1. FirstAttempt(m) /\ m \in Nat
    BY <1>1, <1>5 DEF MailInv, Messages
  <2>2. m > written' \/ m = written' => m > written
    BY <1>1, <1>2, <2>1
  <2>3. QED
    BY <1>1, <2>1, <2>2 DEF FirstAttempt
<1>6. PaidOnce' /\ EachTokenPaysOnce'
  BY <1>1 DEF MailInv, PaidOnce, EachTokenPaysOnce, config
<1>7. QED
  BY <1>3, <1>4, <1>5, <1>6 DEF MailInv

LEMMA SolveKeeps == ASSUME MailInv, Solve \/ NextMinute PROVE MailInv'
<1>1. /\ UNCHANGED <<config, written, filled, shownStatus, server, spent, copies, told, failed, reached>>
      /\ widget' \in 0..MaxWidget /\ rate' \in 0..Limit[form]
  BY ContactAssumption DEF Solve, NextMinute, MailInv, FormTypeOK, config
<1>2. FormTypeOK' /\ OneLive' /\ PassedIsDelivered' /\ SentIsDelivered' /\ PaidOnce' /\ EachTokenPaysOnce'
  BY <1>1 DEF MailInv, FormTypeOK, OneLive, Live, PassedIsDelivered, SentIsDelivered, PaidOnce,
     EachTokenPaysOnce, config
<1>3. ASSUME NEW m \in Messages, m \notin failed'
      PROVE  FirstAttempt(m)'
  BY <1>1, <1>3 DEF MailInv, FirstAttempt
<1>4. QED
  BY <1>2, <1>3 DEF MailInv
LEMMA ReceiveKeeps == ASSUME MailInv, NEW r \in server, Receive(r) PROVE MailInv'
<1>1. /\ server' = server \ {r}
      /\ UNCHANGED <<config, written, widget, spent, rate, copies, reached>>
      /\ \/ /\ r.live /\ r.step = "200" /\ shownStatus' = "sent" /\ filled' = FALSE
            /\ told' = told \cup {r.msg} /\ UNCHANGED failed
         \/ /\ r.live /\ shownStatus' = "error" /\ failed' = failed \cup {r.msg}
            /\ UNCHANGED <<filled, told>>
         \/ ~r.live /\ UNCHANGED <<shownStatus, filled, told, failed>>
  BY DEF Receive
<1>2. r.msg \in 1..written
  BY DEF MailInv, FormTypeOK, Request, Messages
<1>3. r.live => Live = {r} /\ r.msg = written /\ shownStatus = "sending"
  BY DEF MailInv, OneLive, Live
<1>4. Live' = Live \ {r}
  BY <1>1 DEF Live
<1>5. FormTypeOK'
  <2>1. filled' \in BOOLEAN /\ (filled' => written > 0)
    <3>1. filled \in BOOLEAN /\ (filled => written > 0)
      BY DEF MailInv, FormTypeOK
    <3>2. filled' = FALSE \/ filled' = filled
      BY <1>1
    <3>3. CASE filled' = FALSE
      BY <3>3
    <3>4. CASE filled' = filled
      BY <3>1, <3>4, Zenon
    <3>5. QED
      BY <3>2, <3>3, <3>4
  <2>2. told' \subseteq 1..written /\ failed' \subseteq 1..written
    BY <1>1, <1>2 DEF MailInv, FormTypeOK
  <2>3. shownStatus' \in {"idle", "sending", "sent", "error"}
    BY <1>1 DEF MailInv, FormTypeOK
  <2>4. QED
    BY <1>1, <2>1, <2>2, <2>3 DEF MailInv, FormTypeOK, config
<1>6. OneLive'
  <2>1. CASE r.live
    BY <2>1, <1>1, <1>3, <1>4 DEF OneLive
  <2>2. CASE ~r.live
    <3>1. Live' = Live /\ UNCHANGED <<shownStatus, written>>
      BY <2>2, <1>1, <1>4 DEF Live
    <3>2. \A x \in server : Live = {x} => x \in server'
      BY <2>2, <1>1 DEF Live
    <3>3. QED
      BY <3>1, <3>2 DEF MailInv, OneLive
  <2>3. QED
    BY <2>1, <2>2
<1>7. PassedIsDelivered' /\ SentIsDelivered'
  <2>1. r.step = "200" => \A ch \in enabled : copies[ch][r.msg] > 0
    BY DEF MailInv, PassedIsDelivered
  <2>2. QED
    BY <1>1, <2>1 DEF MailInv, PassedIsDelivered, SentIsDelivered, config
<1>8. ASSUME NEW m \in Messages, m \notin failed'
      PROVE  FirstAttempt(m)'
  <2>1. m \notin failed /\ FirstAttempt(m)
    BY <1>1, <1>8 DEF MailInv
  <2>2. m = written /\ filled' => filled /\ UNCHANGED shownStatus
    BY <1>1, <1>3, <1>8
  <2>3. QED
    BY <1>1, <2>1, <2>2 DEF FirstAttempt
<1>9. PaidOnce' /\ EachTokenPaysOnce'
  BY <1>1 DEF MailInv, PaidOnce, EachTokenPaysOnce, config
<1>10. QED
  BY <1>5, <1>6, <1>7, <1>8, <1>9 DEF MailInv

LEMMA LoseKeeps == ASSUME MailInv, NEW r \in server, Lose(r) PROVE MailInv'
<1> DEFINE q == [r EXCEPT !.live = FALSE]
<1>1. /\ r.live /\ shownStatus' = "error" /\ failed' = failed \cup {r.msg}
      /\ server' = (server \ {r}) \cup {q}
      /\ UNCHANGED <<config, written, filled, widget, spent, rate, copies, told, reached>>
  BY DEF Lose
<1>2. r \in Request /\ r.msg \in 1..written
  BY DEF MailInv, FormTypeOK, Request, Messages
<1>3. q \in Request /\ q.step = r.step /\ q.msg = r.msg /\ q.token = r.token /\ ~q.live
  BY <1>2 DEF Request
<1> HIDE DEF q
<1>4. Live = {r} /\ r.msg = written
  BY <1>1 DEF MailInv, OneLive, Live
<1>5. FormTypeOK'
  BY <1>1, <1>2, <1>3 DEF MailInv, FormTypeOK, config
<1>6. OneLive'
  <2>1. Live' = {}
    BY <1>1, <1>3, <1>4 DEF Live
  <2>2. QED
    BY <1>1, <2>1 DEF OneLive
<1>7. PassedIsDelivered' /\ SentIsDelivered'
  BY <1>1, <1>3 DEF MailInv, PassedIsDelivered, SentIsDelivered, config
<1>8. ASSUME NEW m \in Messages, m \notin failed'
      PROVE  FirstAttempt(m)'
  <2>1. m \notin failed /\ FirstAttempt(m) /\ m # r.msg /\ m # written
    BY <1>1, <1>4, <1>8 DEF MailInv
  <2>2. QED
    BY <1>1, <1>3, <2>1 DEF FirstAttempt
<1>9. PaidOnce'
  <2>1. \A x \in server' : \E y \in server : /\ y.step = x.step /\ y.token = x.token
                                             /\ x = q => y = r
                                             /\ x # q => y = x /\ x # r
    BY <1>1, <1>3
  <2>2. QED
    BY <1>1, <1>3, <2>1 DEF MailInv, PaidOnce, config
<1>10. EachTokenPaysOnce'
  BY <1>1 DEF MailInv, EachTokenPaysOnce, config
<1>11. QED
  BY <1>5, <1>6, <1>7, <1>8, <1>9, <1>10 DEF MailInv

\* A request that comes to step t without a copy, a token or a channel.
LEMMA RouteStep ==
  ASSUME MailInv, NEW r \in server, NEW t \in Steps, Become(r, t),
         r.step \in {"limit", "captcha"},
         t \in {"captcha", "webhook", "400", "429", "500"},
         t = "captcha" => form = "contact",
         UNCHANGED <<config, written, filled, widget, shownStatus, copies, told, failed, reached>>,
         rate' \in 0..Limit[form], spent \subseteq spent', spent' \subseteq 1..MaxWidget,
         form = "contact" /\ secret /\ t = "webhook" => r.token \notin spent /\ r.token \in spent'
  PROVE  MailInv'
<1>1. PICK q \in server' :
         /\ q.step = t /\ q.msg = r.msg /\ q.token = r.token /\ q.live = r.live
         /\ \A x \in server' : x = q \/ (x \in server /\ x # r)
  BY RequestMoves
<1>2. /\ server' \subseteq Request /\ \A x \in server' : x.msg <= written
      /\ OneLive'
  BY RequestMoves
<1>3. FormTypeOK'
  BY <1>2 DEF MailInv, FormTypeOK, config
<1>4. PassedIsDelivered' /\ SentIsDelivered'
  BY <1>1 DEF MailInv, PassedIsDelivered, SentIsDelivered, config
<1>5. ASSUME NEW m \in Messages, m \notin failed'
      PROVE  FirstAttempt(m)'
  <2>1. FirstAttempt(m)
    BY <1>5 DEF MailInv
  <2>2. QED
    BY <1>1, <2>1 DEF FirstAttempt
<1>6. PaidOnce'
  <2>1. CASE form = "contact" /\ secret
    <3>1. \A i \in 1..Len(reached) : reached[i] \in spent /\ reached[i] \in spent'
      BY <2>1 DEF MailInv, PaidOnce
    <3>2. \A x \in server' : x.token > 0
      BY <1>1, <2>1 DEF MailInv, PaidOnce
    <3>3. \A x \in server : x.step = "webhook" => x.token \in spent
      BY <2>1 DEF MailInv, PaidOnce
    <3>4. \A x \in server' : x.step = "webhook" =>
             /\ x.token \in spent' /\ \A i \in 1..Len(reached) : reached[i] # x.token
             /\ \A y \in server' : y.step = "webhook" /\ y.token = x.token => y = x
      BY <1>1, <2>1, <3>1, <3>3 DEF MailInv, PaidOnce
    <3>5. QED
      BY <2>1, <3>1, <3>2, <3>4 DEF PaidOnce, config
  <2>2. CASE ~(form = "contact" /\ secret)
    BY <1>1, <2>2 DEF MailInv, PaidOnce, config
  <2>3. QED
    BY <2>1, <2>2
<1>7. EachTokenPaysOnce'
  BY DEF MailInv, EachTokenPaysOnce, config
<1>8. QED
  BY <1>2, <1>3, <1>4, <1>5, <1>6, <1>7 DEF MailInv

LEMMA CountRequestKeeps == ASSUME MailInv, NEW r \in server, CountRequest(r) PROVE MailInv'
<1>1. /\ r.step = "limit"
      /\ UNCHANGED <<config, written, filled, widget, shownStatus, spent, copies, told, failed, reached>>
      /\ spent \subseteq 1..MaxWidget /\ form \in Forms
  BY DEF CountRequest, MailInv, FormTypeOK
<1>2. rate' \in 0..Limit[form]
  BY <1>1, ContactAssumption DEF CountRequest, MailInv, FormTypeOK
<1>3. CASE Become(r, "429")
  BY <1>1, <1>2, <1>3, RouteStep DEF Steps
<1>4. CASE form = "contact" /\ Become(r, "captcha")
  BY <1>1, <1>2, <1>4, RouteStep DEF Steps
<1>5. CASE form # "contact" /\ Become(r, "webhook")
  BY <1>1, <1>2, <1>5, RouteStep DEF Steps
<1>6. QED
  BY <1>3, <1>4, <1>5 DEF CountRequest

LEMMA CheckCaptchaKeeps == ASSUME MailInv, NEW r \in server, CheckCaptcha(r) PROVE MailInv'
<1>1. /\ r.step = "captcha"
      /\ UNCHANGED <<config, written, filled, widget, shownStatus, rate, copies, told, failed, reached>>
      /\ rate' \in 0..Limit[form] /\ form = "contact"
  BY DEF CheckCaptcha, MailInv, FormTypeOK, PaidOnce, Forms
<1>2. spent \subseteq spent' /\ spent' \subseteq spent \cup {r.token}
  BY DEF CheckCaptcha
<1>3. r.token \in 1..MaxWidget /\ spent' \subseteq 1..MaxWidget
  <2>1. r.token \in 0..MaxWidget /\ r.token > 0 /\ spent \subseteq 1..MaxWidget
    BY <1>1 DEF MailInv, FormTypeOK, Request, PaidOnce
  <2>2. r.token \in 1..MaxWidget
    BY <2>1, ContactAssumption
  <2>3. QED
    BY <1>2, <2>1, <2>2
<1>4. CASE Become(r, "400")
  BY <1>1, <1>2, <1>3, <1>4, RouteStep DEF Steps
<1>5. CASE Become(r, "500")
  BY <1>1, <1>2, <1>3, <1>5, RouteStep DEF Steps
<1>6. CASE Become(r, "webhook") /\ (secret => r.token \notin spent /\ r.token \in spent')
  BY <1>1, <1>2, <1>3, <1>6, RouteStep DEF Steps
<1>7. QED
  BY <1>4, <1>5, <1>6 DEF CheckCaptcha

LEMMA PostKeeps == ASSUME MailInv, NEW r \in server, Post(r) PROVE MailInv'
<1> DEFINE ch == r.step
           m == r.msg
<1>1. PICK t \in {"telegram", "200", "500", "502"} :
         /\ Become(r, t)
         /\ t = "telegram" => ch = "webhook" /\ (ch \notin enabled \/ Deliver(ch, m))
         /\ t = "200" => ch = "telegram" /\ (ch \notin enabled \/ Deliver(ch, m))
         /\ UNCHANGED copies \/ Deliver(ch, m)
  BY DEF Post, Channels, MailInv, FormTypeOK
<1>2. /\ ch \in Channels /\ Arrives(r)
      /\ UNCHANGED <<config, written, filled, widget, shownStatus, spent, rate, told, failed>>
  BY DEF Post
<1>3. t \in Steps /\ UNCHANGED <<written, shownStatus>>
  BY <1>2 DEF Steps
<1>4. PICK q \in server' :
         /\ q.step = t /\ q.msg = r.msg /\ q.token = r.token /\ q.live = r.live
         /\ \A x \in server' : x = q \/ (x \in server /\ x # r)
  BY <1>1, <1>3, RequestMoves
<1>5. /\ server' \subseteq Request /\ \A x \in server' : x.msg <= written
      /\ OneLive'
  BY <1>1, <1>3, RequestMoves
<1>6. /\ copies \in [Channels -> [Messages -> Nat]] /\ m \in Messages
      /\ r.token \in 0..MaxWidget /\ reached \in Seq(0..MaxWidget)
  BY DEF MailInv, FormTypeOK, Request
<1>7. /\ copies' \in [Channels -> [Messages -> Nat]]
      /\ \A c \in Channels, n \in Messages :
            copies'[c][n] = IF UNCHANGED copies \/ c # ch \/ n # m THEN copies[c][n]
                            ELSE copies[c][n] + 1
      /\ Deliver(ch, m) => copies'[ch][m] > 0
  <2>1. CASE UNCHANGED copies
    <3>1. ~Deliver(ch, m)
      <4>1. SUFFICES ASSUME Deliver(ch, m) PROVE FALSE
        OBVIOUS
      <4>2. copies'[ch][m] = copies[ch][m] + 1
        BY <4>1, <1>2, <1>6 DEF Deliver
      <4>3. copies[ch][m] \in Nat
        BY <1>2, <1>6
      <4>4. QED
        BY <2>1, <4>2, <4>3
    <3>2. QED
      BY <2>1, <3>1, <1>6
  <2>2. CASE Deliver(ch, m)
    <3>1. copies' = [copies EXCEPT ![ch][m] = copies[ch][m] + 1]
      BY <2>2 DEF Deliver
    <3>2. copies[ch][m] \in Nat /\ copies[ch] \in [Messages -> Nat]
      BY <1>2, <1>6
    <3>3. copies'[ch] = [copies[ch] EXCEPT ![m] = copies[ch][m] + 1]
      BY <3>1, <1>2, <1>6
    <3>4. copies' \in [Channels -> [Messages -> Nat]]
      BY <3>1, <3>2, <1>2, <1>6
    <3>5. copies'[ch][m] = copies[ch][m] + 1 /\ copies' # copies
      BY <3>2, <3>3, <1>6
    <3>6. \A c \in Channels, n \in Messages :
             c # ch \/ n # m => copies'[c][n] = copies[c][n]
      BY <3>1, <3>3, <1>2, <1>6
    <3>7. QED
      BY <3>2, <3>4, <3>5, <3>6
  <2>3. QED
    BY <1>1, <2>1, <2>2
<1>8. \A c \in Channels, n \in Messages :
         copies[c][n] \in Nat /\ copies'[c][n] \in Nat /\ copies'[c][n] >= copies[c][n]
  <2> HIDE DEF ch, m
  <2>1. ASSUME NEW c \in Channels, NEW n \in Messages
        PROVE  /\ copies[c][n] \in Nat /\ copies'[c][n] \in Nat
               /\ copies'[c][n] = copies[c][n] \/ copies'[c][n] = copies[c][n] + 1
    BY <1>6, <1>7
  <2>2. QED
    BY <2>1
<1> HIDE DEF ch, m
<1>9. /\ reached' \in Seq(0..MaxWidget)
      /\ r.step # "webhook" => reached' = reached
      /\ r.step = "webhook" =>
            /\ Len(reached') = Len(reached) + 1 /\ reached'[Len(reached) + 1] = r.token
            /\ \A i \in 1..Len(reached) : reached'[i] = reached[i]
  <2>1. CASE r.step = "webhook"
    <3>1. reached' = Append(reached, r.token) /\ r.token \in 0..MaxWidget
      BY <2>1, <1>2, <1>6 DEF Arrives
    <3>2. QED
      BY <2>1, <3>1, <1>6
  <2>2. CASE r.step # "webhook"
    BY <2>2, <1>2, <1>6 DEF Arrives
  <2>3. QED
    BY <2>1, <2>2
<1>10. FormTypeOK'
  BY <1>2, <1>5, <1>7, <1>9 DEF MailInv, FormTypeOK, config
<1>11. /\ enabled \subseteq Channels /\ written \in 0..MaxMessages /\ r.msg <= written
       /\ \A x \in server : x.msg \in Messages
  BY DEF MailInv, FormTypeOK, Request
<1>12. PassedIsDelivered'
  <2>1. t = "telegram" /\ "webhook" \in enabled => copies'["webhook"][m] > 0
    BY <1>1, <1>7
  <2>2. ASSUME t = "200", NEW c \in enabled
        PROVE  copies'[c][m] > 0
    <3>1. ch = "telegram" /\ (ch \in enabled => Deliver(ch, m))
      BY <1>1, <2>2
    <3>2. CASE c = "telegram"
      BY <3>1, <3>2, <2>2, <1>7
    <3>3. CASE c = "webhook"
      <4>1. copies["webhook"][m] > 0
        BY <3>1, <3>3, <2>2 DEF MailInv, PassedIsDelivered, ch, m
      <4>2. QED
        BY <3>3, <4>1, <1>6, <1>8 DEF Channels
    <3>4. QED
      BY <3>2, <3>3, <2>2, <1>11 DEF Channels
  <2>3. ASSUME NEW x \in server
        PROVE  /\ x.step = "telegram" /\ "webhook" \in enabled => copies'["webhook"][x.msg] > 0
               /\ x.step = "200" => \A c \in enabled : copies'[c][x.msg] > 0
    <3>1. \A c \in enabled : copies[c][x.msg] > 0 => copies'[c][x.msg] > 0
      BY <1>8, <1>11
    <3>2. QED
      BY <3>1 DEF MailInv, PassedIsDelivered
  <2>4. QED
    BY <1>2, <1>4, <2>1, <2>2, <2>3 DEF MailInv, PassedIsDelivered, config, m
<1>13. SentIsDelivered'
  <2>1. told \subseteq Messages
    BY <1>11, ContactAssumption DEF MailInv, FormTypeOK, Messages
  <2>2. \A n \in told, c \in enabled : copies[c][n] > 0
    BY DEF MailInv, SentIsDelivered
  <2>3. QED
    BY <1>2, <1>8, <1>11, <2>1, <2>2 DEF SentIsDelivered, config
<1>14. ASSUME NEW n \in Messages, n \notin failed'
       PROVE  FirstAttempt(n)'
  <2>1. n \notin failed /\ FirstAttempt(n)
    BY <1>2, <1>14 DEF MailInv
  <2>2. CASE n # m
    <3>1. \A c \in Channels : copies'[c][n] = copies[c][n]
      BY <2>2, <1>7
    <3>2. \A x \in server' : x.msg = n => x \in server
      BY <2>2, <1>4 DEF m
    <3>3. UNCHANGED <<written, filled, shownStatus>>
      BY <1>2
    <3>4. QED
      BY <2>1, <3>1, <3>2, <3>3 DEF FirstAttempt, Channels
  <2>3. CASE n = m
    <3>1. r.live /\ shownStatus = "sending" /\ \A x \in server : x.msg = n => x = r
      BY <2>1, <2>3, OneRequest DEF m
    <3>2. \A x \in server' : x.msg = n => x = q /\ x.live /\ x.step = t
      BY <1>4, <3>1
    <3>3. /\ ch = "webhook" => \A c \in Channels : copies[c][n] = 0
          /\ ch = "telegram" => copies["telegram"][n] = 0
      BY <2>1, <2>3 DEF FirstAttempt, ch, m
    <3>4. t = "telegram" => copies'["telegram"][n] = 0
      BY <1>1, <1>7, <2>3, <3>3 DEF Channels
    <3>5. \A c \in Channels : copies'[c][n] <= 1
      BY <1>2, <1>7, <1>8, <2>1, <2>3, <3>3 DEF FirstAttempt, Channels
    <3>6. ~(n > written)
      BY <2>3, <1>11 DEF m, Messages
    <3>7. QED
      BY <1>2, <1>3, <1>1, <3>1, <3>2, <3>4, <3>5, <3>6 DEF FirstAttempt
  <2>4. QED
    BY <2>2, <2>3
<1>15. PaidOnce' /\ EachTokenPaysOnce'
  <2>1. /\ form = "footer" => \A x \in server' : x.step # "captcha"
        /\ form = "contact" => \A x \in server' : x.token > 0
    BY <1>1, <1>4 DEF MailInv, PaidOnce
  <2>2. \A x \in server' : x.step = "webhook" => x \in server /\ x # r
    BY <1>1, <1>4
  <2>3. ASSUME form = "contact", secret
        PROVE  /\ \A i \in 1..Len(reached') : reached'[i] \in spent
               /\ \A x \in server' : x.step = "webhook" =>
                     /\ x.token \in spent
                     /\ \A i \in 1..Len(reached') : reached'[i] # x.token
                     /\ \A y \in server' : y.step = "webhook" /\ y.token = x.token => y = x
               /\ \A i, j \in 1..Len(reached') : i # j => reached'[i] # reached'[j]
    <3>1. /\ \A i \in 1..Len(reached) : reached[i] \in spent
          /\ \A x \in server : x.step = "webhook" =>
                /\ x.token \in spent
                /\ \A i \in 1..Len(reached) : reached[i] # x.token
                /\ \A y \in server : y.step = "webhook" /\ y.token = x.token => y = x
          /\ \A i, j \in 1..Len(reached) : i # j => reached[i] # reached[j]
      BY <2>3 DEF MailInv, PaidOnce, EachTokenPaysOnce
    <3>2. CASE r.step # "webhook"
      BY <3>1, <3>2, <2>2, <1>9
    <3>3. CASE r.step = "webhook"
      <4>1. \A i \in 1..Len(reached') : i \in 1..Len(reached) \/ i = Len(reached) + 1
        BY <3>3, <1>6, <1>9
      <4>2. r.token \in spent /\ \A i \in 1..Len(reached) : reached[i] # r.token
        BY <3>1, <3>3
      <4>3. \A i \in 1..Len(reached') : reached'[i] \in spent
        BY <3>1, <3>3, <4>1, <4>2, <1>9
      <4>4. \A i, j \in 1..Len(reached') : i # j => reached'[i] # reached'[j]
        BY <3>1, <3>3, <4>1, <4>2, <1>9
      <4>5. \A x \in server : x.step = "webhook" /\ x # r => x.token # r.token
        BY <3>1, <3>3
      <4>6. \A x \in server' : x.step = "webhook" => \A i \in 1..Len(reached') : reached'[i] # x.token
        BY <3>1, <3>3, <2>2, <4>1, <4>5, <1>9
      <4>7. QED
        BY <3>1, <2>2, <4>3, <4>4, <4>6
    <3>4. QED
      BY <3>2, <3>3
  <2>4. QED
    BY <1>2, <2>1, <2>3 DEF PaidOnce, EachTokenPaysOnce, config
<1>16. QED
  BY <1>5, <1>10, <1>12, <1>13, <1>14, <1>15 DEF MailInv

LEMMA MailInvInit == ContactInit => MailInv
<1> SUFFICES ASSUME ContactInit PROVE MailInv
  OBVIOUS
<1>1. FormTypeOK
  <2>1. filled \in BOOLEAN /\ ~filled /\ secret \in BOOLEAN
    BY DEF ContactInit
  <2>2. QED
    BY <2>1, ContactAssumption DEF ContactInit, FormTypeOK, Request, Channels, Forms
<1>2. QED
  BY <1>1 DEF ContactInit, MailInv, OneLive, Live, PassedIsDelivered, SentIsDelivered, FirstAttempt,
     PaidOnce, EachTokenPaysOnce, Messages

LEMMA MailInvNext == MailInv /\ [ContactNext]_contactVars => MailInv'
<1> SUFFICES ASSUME MailInv, [ContactNext]_contactVars PROVE MailInv'
  OBVIOUS
<1>1. CASE UNCHANGED contactVars
  BY <1>1 DEF contactVars, MailInv, FormTypeOK, OneLive, Live, PassedIsDelivered, SentIsDelivered,
     FirstAttempt, PaidOnce, EachTokenPaysOnce
<1>2. QED
  BY <1>1, WriteKeeps, SolveKeeps, SubmitKeeps, ReceiveKeeps, LoseKeeps, CountRequestKeeps,
     CheckCaptchaKeeps, PostKeeps DEF ContactNext

LEMMA MailInvIsContactInv == MailInv => ContactInv
<1> SUFFICES ASSUME MailInv PROVE ContactInv
  OBVIOUS
<1>1. Cardinality(Live) = IF shownStatus = "sending" THEN 1 ELSE 0
  BY FS_EmptySet, FS_Singleton DEF MailInv, OneLive
<1>2. \A r \in server : r.live => r.msg = written
  BY DEF MailInv, OneLive, Live
<1>3. ContactTypeOK
  BY <1>1, <1>2 DEF MailInv, FormTypeOK, ContactTypeOK, Live, Request
<1>4. TwiceOnlyAfterAFailure
  <2>1. ASSUME NEW ch \in Channels, NEW m \in 1..written, copies[ch][m] > 1, m \notin failed
        PROVE  FALSE
    <3>1. m \in Messages /\ copies[ch][m] \in Nat
      BY <2>1, ContactAssumption DEF MailInv, FormTypeOK, Messages
    <3>2. QED
      BY <2>1, <3>1 DEF MailInv, FirstAttempt
  <2>2. QED
    BY <2>1 DEF TwiceOnlyAfterAFailure
<1>5. QED
  BY <1>3, <1>4 DEF MailInv, ContactInv

\* "Sent" on the page, the copies in the channels and the failures the visitor
\* was told of agree, and every attempt pays with a token of its own, however
\* answers and channels fail.
THEOREM MessagesArrive == ContactSpec => []ContactInv
  BY MailInvInit, MailInvNext, MailInvIsContactInv, PTL DEF ContactSpec
-----------------------------------------------------------------------------
(* The analytics.                                                          *)

Hit == [state : {"fresh", "running", "over"}, since : Nat, ok : BOOLEAN]
Stored(u, d) == {e \in metrics : User(e[2]) = u /\ Day(hit[e[2]].since) = d}
Row == [count : Nat, first : Nat, last : Nat]

\* r is the activity of the events in S.
Summarises(r, S) ==
    /\ r.count = Cardinality(S)
    /\ \E e \in S : hit[e[2]].since = r.first
    /\ \E e \in S : hit[e[2]].since = r.last
    /\ \A e \in S : r.first <= hit[e[2]].since /\ hit[e[2]].since <= r.last

\* An event belongs to a request that is over, so that nothing of it changes.
EventsTypeOK ==
    /\ hit \in [Hits -> Hit] /\ instant \in Nat
    /\ \A e \in tasks \cup metrics : hit[e[2]].state = "over"
    /\ IsFiniteSet(metrics) /\ IsFiniteSet(Runs)
    /\ report \in [next : {"none", "uses", "errors", "today", "over"}, since : Nat, uses : Nat,
                   done : Nat, today : Nat, errors : Nat, errorsToday : Nat]
    /\ late \in Nat

DailyAddsUp ==
    \A u \in Accounts, d \in Nat :
       IF Stored(u, d) = {} THEN <<u, d>> \notin DOMAIN daily
       ELSE /\ <<u, d>> \in DOMAIN daily /\ daily[<<u, d>>] \in Row
            /\ Summarises(daily[<<u, d>>], Stored(u, d))

\* While the overview is computed, the failures that are stored are those of the
\* runs it counted and those that came since.
FailuresAddUp ==
    report.next = "errors" => Cardinality(Failed(Runs)) = report.uses - report.done + late

EventsInv == AnalyticsTypeOK /\ EventsTypeOK /\ DailyAddsUp /\ FailuresAddUp /\ OverviewAddsUp

LEMMA QuotientMono ==
  ASSUME NEW a \in Int, NEW b \in Int, NEW n \in Int, n > 0, 0 <= a, a <= b
  PROVE  (a \div n) \in Nat /\ (a \div n) <= (b \div n)
<1>1. (a \div n) <= (b \div n)
  OBVIOUS
<1>2. (a \div n) \in Nat
  OBVIOUS
<1>3. QED
  BY <1>1, <1>2

LEMMA DayMono ==
  ASSUME NEW a \in Nat, NEW b \in Nat, a <= b
  PROVE  Day(a) \in Nat /\ Day(b) \in Nat /\ Day(a) <= Day(b)
<1>1. DayLength \in Int /\ DayLength > 0
  BY AnalyticsAssumption
<1>2. Day(a) \in Nat /\ Day(a) <= Day(b)
  BY <1>1, QuotientMono DEF Day
<1>3. Day(b) \in Nat
  BY <1>1, QuotientMono DEF Day
<1>4. QED
  BY <1>2, <1>3

LEMMA LeastAndGreatest ==
  ASSUME NEW S \in SUBSET Int, NEW lo \in S, NEW hi \in S,
         \A x \in S : lo <= x /\ x <= hi
  PROVE  Min(S) = lo /\ Max(S) = hi
<1>1. \A x, y \in S : x \in Int /\ y \in Int
  OBVIOUS
<1>2. Min(S) \in S /\ \A y \in S : Min(S) <= y
  <2>1. \E x \in S : \A y \in S : x <= y
    OBVIOUS
  <2>2. QED
    BY <2>1, Zenon DEF Min
<1>3. Max(S) \in S /\ \A y \in S : Max(S) >= y
  <2>1. \E x \in S : \A y \in S : x >= y
    OBVIOUS
  <2>2. QED
    BY <2>1, Zenon DEF Max
<1>4. /\ Min(S) <= lo /\ lo <= Min(S) /\ Min(S) \in Int /\ lo \in Int
      /\ hi <= Max(S) /\ Max(S) <= hi /\ Max(S) \in Int /\ hi \in Int
  BY <1>1, <1>2, <1>3
<1>5. QED
  BY <1>4
\* The activity of a day with one event more.
LEMMA SummaryGrows ==
  ASSUME NEW S, IsFiniteSet(S), NEW e, e \notin S, NEW r \in Row,
         \A x \in S \cup {e} : hit[x[2]].since \in Nat,
         Summarises(r, S)
  PROVE  LET t == hit[e[2]].since
             n == [count |-> r.count + 1, first |-> Min({r.first, t}), last |-> Max({r.last, t})]
         IN  n \in Row /\ Summarises(n, S \cup {e})
<1> DEFINE t == hit[e[2]].since
           lo == IF r.first <= t THEN r.first ELSE t
           hi == IF r.last >= t THEN r.last ELSE t
<1>1. t \in Nat /\ r.count \in Nat /\ r.first \in Nat /\ r.last \in Nat
  BY DEF Row
<1>2. Min({r.first, t}) = lo
  <2>1. {r.first, t} \in SUBSET Int /\ lo \in {r.first, t} /\ \A x \in {r.first, t} : lo <= x
    BY <1>1
  <2>2. PICK m \in {r.first, t} : \A x \in {r.first, t} : x <= m
    BY <1>1
  <2> HIDE DEF lo, t
  <2>3. QED
    BY <2>1, <2>2, LeastAndGreatest
<1>3. Max({r.last, t}) = hi
  <2>1. {r.last, t} \in SUBSET Int /\ hi \in {r.last, t} /\ \A x \in {r.last, t} : x <= hi
    BY <1>1
  <2>2. PICK m \in {r.last, t} : \A x \in {r.last, t} : m <= x
    BY <1>1
  <2> HIDE DEF hi, t
  <2>3. QED
    BY <2>1, <2>2, LeastAndGreatest
<1> DEFINE n == [count |-> r.count + 1, first |-> Min({r.first, t}), last |-> Max({r.last, t})]
<1>4. n \in Row /\ n.count = r.count + 1 /\ n.first = lo /\ n.last = hi
  BY <1>1, <1>2, <1>3 DEF Row
<1>5. Cardinality(S \cup {e}) = Cardinality(S) + 1
  BY FS_AddElement
<1> HIDE DEF n
<1>6. n.count = Cardinality(S \cup {e})
  BY <1>4, <1>5 DEF Summarises
<1>7. \E x \in S \cup {e} : hit[x[2]].since = n.first
  BY <1>4 DEF Summarises
<1>8. \E x \in S \cup {e} : hit[x[2]].since = n.last
  BY <1>4 DEF Summarises
<1>9. \A x \in S \cup {e} : n.first <= hit[x[2]].since /\ hit[x[2]].since <= n.last
  <2>1. lo <= r.first /\ lo <= t /\ r.last <= hi /\ t <= hi /\ lo \in Nat /\ hi \in Nat
    BY <1>1
  <2>2. \A x \in S : r.first <= hit[x[2]].since /\ hit[x[2]].since <= r.last
    BY DEF Summarises
  <2> HIDE DEF lo, hi
  <2>3. ASSUME NEW x \in S
        PROVE  lo <= hit[x[2]].since /\ hit[x[2]].since <= hi
    BY <1>1, <2>1, <2>2
  <2>4. QED
    BY <1>4, <2>1, <2>3
<1>10. QED
  BY <1>4, <1>6, <1>7, <1>8, <1>9 DEF n, Summarises

LEMMA FirstSummary ==
  ASSUME NEW e, hit[e[2]].since \in Nat
  PROVE  LET t == hit[e[2]].since
             n == [count |-> 1, first |-> t, last |-> t]
         IN  n \in Row /\ Summarises(n, {e})
<1> DEFINE t == hit[e[2]].since
           n == [count |-> 1, first |-> t, last |-> t]
<1>1. n \in Row /\ n.count = 1 /\ n.first = t /\ n.last = t
  BY DEF Row
<1>2. Cardinality({e}) = 1
  BY FS_Singleton
<1>3. \A x \in {e} : x = e
  OBVIOUS
<1> HIDE DEF n
<1>4. QED
  BY <1>1, <1>2, <1>3 DEF Summarises, n

\* Requests begin and end, tasks are lost and the clock goes on: nothing that is
\* stored changes.
LEMMA NothingStored ==
  ASSUME EventsInv, UNCHANGED <<metrics, daily>>,
         \A e \in metrics : hit'[e[2]] = hit[e[2]]
  PROVE  /\ DailyAddsUp' /\ IsFiniteSet(metrics') /\ Runs' = Runs
         /\ Failed(Runs)' = Failed(Runs)
<1>1. ASSUME NEW u \in Accounts, NEW d \in Nat
      PROVE  /\ Stored(u, d)' = Stored(u, d)
             /\ \A r : Summarises(r, Stored(u, d)) => Summarises(r, Stored(u, d))'
  <2>1. Stored(u, d)' = Stored(u, d)
    BY DEF Stored, Day, User
  <2>2. \A e \in Stored(u, d) : hit'[e[2]].since = hit[e[2]].since
    BY DEF Stored
  <2>3. QED
    BY <2>1, <2>2 DEF Summarises
<1>2. DailyAddsUp'
  <2>1. ASSUME NEW u \in Accounts, NEW d \in Nat
        PROVE  IF Stored(u, d)' = {} THEN <<u, d>> \notin DOMAIN daily'
               ELSE /\ <<u, d>> \in DOMAIN daily' /\ daily'[<<u, d>>] \in Row
                    /\ Summarises(daily[<<u, d>>], Stored(u, d))'
    BY <1>1 DEF EventsInv, DailyAddsUp
  <2>2. QED
    BY <2>1 DEF DailyAddsUp
<1>3. Runs' = Runs /\ IsFiniteSet(metrics')
  BY DEF Runs, EventsInv, EventsTypeOK
<1>4. Failed(Runs)' = Failed(Runs)
  <2>1. \A h \in Runs : hit'[h] = hit[h]
    BY DEF Runs
  <2>2. QED
    BY <1>3, <2>1 DEF Failed
<1>5. QED
  BY <1>2, <1>3, <1>4

\* The steps of requests and tasks: a request that is over stays as it is.
OverStays ==
    /\ hit' \in [Hits -> Hit] /\ tasks' \subseteq EventNames \X Hits
    /\ \A h \in Hits : hit'[h].since \in 0..instant'
    /\ tasks' \cap metrics = {}
    /\ \A e \in tasks' : hit'[e[2]].state = "over"
    /\ \A h \in Hits : hit[h].state = "over" => hit'[h] = hit[h]

LEMMA RequestsEvents ==
  ASSUME EventsInv,
         \/ \E h \in Hits : BeginHit(h) \/ \E ok \in BOOLEAN : EndHit(h, ok)
         \/ \E task \in tasks : LoseTask(task)
         \/ \E u \in Accounts : AddProfile(u)
         \/ Crash \/ PassInstant
  PROVE  EventsInv'
<1>1. /\ hit \in [Hits -> Hit] /\ instant \in 0..MaxInstant /\ instant \in Nat
      /\ profiles \subseteq Accounts /\ tasks \cup metrics \subseteq EventNames \X Hits
      /\ tasks \cap metrics = {} /\ DOMAIN daily \subseteq Accounts \X (0..Day(instant))
      /\ \A h \in Hits : hit[h].since \in 0..instant
      /\ \A e \in tasks \cup metrics : hit[e[2]].state = "over"
  BY AnalyticsAssumption DEF EventsInv, AnalyticsTypeOK, EventsTypeOK
<1>2. /\ UNCHANGED <<metrics, daily>>
      /\ instant' \in 0..MaxInstant /\ instant' \in Nat /\ instant <= instant'
      /\ profiles' \subseteq Accounts
      /\ UNCHANGED <<report, late>> \/ (report' = NoReport /\ late' = 0)
  <2>1. UNCHANGED <<metrics, daily>>
    BY DEF BeginHit, EndHit, LoseTask, AddProfile, Crash, PassInstant
  <2>2. instant' = instant \/ (instant < MaxInstant /\ instant' = instant + 1)
    BY DEF BeginHit, EndHit, LoseTask, AddProfile, Crash, PassInstant
  <2>3. profiles' \subseteq Accounts
    BY <1>1 DEF BeginHit, EndHit, LoseTask, AddProfile, Crash, PassInstant
  <2>4. UNCHANGED <<report, late>> \/ (report' = NoReport /\ late' = 0)
    BY DEF BeginHit, EndHit, LoseTask, AddProfile, Crash, PassInstant
  <2>5. QED
    BY <1>1, <2>1, <2>2, <2>3, <2>4, AnalyticsAssumption
<1> USE DEF OverStays
<1>3. OverStays
  <2>1. ASSUME NEW h \in Hits, BeginHit(h)
        PROVE  OverStays
    <3> DEFINE n == [state |-> "running", since |-> instant, ok |-> TRUE]
    <3>1. hit' = [hit EXCEPT ![h] = n] /\ hit[h].state = "fresh" /\ UNCHANGED <<tasks, instant>>
      BY <2>1 DEF BeginHit
    <3>2. n \in Hit /\ n.since \in 0..instant
      BY <1>1 DEF Hit
    <3> HIDE DEF n
    <3>3. QED
      BY <1>1, <3>1, <3>2
  <2>2. ASSUME NEW h \in Hits, NEW ok \in BOOLEAN, EndHit(h, ok)
        PROVE  OverStays
    <3> DEFINE n == [hit[h] EXCEPT !.state = "over", !.ok = ok]
    <3>1. hit' = [hit EXCEPT ![h] = n] /\ hit[h].state = "running" /\ UNCHANGED instant
      BY <2>2 DEF EndHit
    <3>2. n \in Hit /\ n.since \in 0..instant /\ n.state = "over"
      BY <1>1 DEF Hit
    <3> HIDE DEF n
    <3>3. tasks' \subseteq tasks \cup (EventNames \X {h})
      <4>1. Plan[h].kind \in RequestKinds
        BY AnalyticsAssumption
      <4>2. Tracked(Plan[h].kind) \subseteq EventNames
        BY <4>1 DEF Tracked, EventNames, RequestKinds
      <4>3. tasks' = tasks \cup Tracked(Plan[h].kind) \X {h}
        BY <2>2 DEF EndHit
      <4>4. QED
        BY <4>2, <4>3
    <3>4. \A e \in EventNames \X {h} : e[2] = h /\ e \notin metrics
      BY <1>1, <3>1
    <3>5. QED
      BY <1>1, <3>1, <3>2, <3>3, <3>4
  <2>3. ASSUME Crash
        PROVE  OverStays
    <3>1. /\ hit' = [h \in Hits |-> IF hit[h].state = "running" THEN Fresh ELSE hit[h]]
          /\ tasks' = {} /\ UNCHANGED instant
      BY <2>3 DEF Crash
    <3>2. Fresh \in Hit /\ Fresh.since = 0
      BY DEF Fresh, Hit
    <3>3. QED
      BY <1>1, <3>1, <3>2
  <2>4. ASSUME \/ \E task \in tasks : LoseTask(task)
               \/ \E u \in Accounts : AddProfile(u)
               \/ PassInstant
        PROVE  OverStays
    <3>1. UNCHANGED hit /\ tasks' \subseteq tasks
      BY <2>4 DEF LoseTask, AddProfile, PassInstant
    <3>2. QED
      BY <1>1, <1>2, <3>1
  <2>5. QED
    BY <2>1, <2>2, <2>3, <2>4
<1>4. \A e \in metrics : hit'[e[2]] = hit[e[2]]
  BY <1>1, <1>3
<1>5. AnalyticsTypeOK'
  <2>1. Day(instant) \in Nat /\ Day(instant') \in Nat /\ Day(instant) <= Day(instant')
    BY <1>1, <1>2, DayMono
  <2>2. DOMAIN daily' \subseteq Accounts \X (0..Day(instant'))
    BY <1>1, <1>2, <2>1
  <2>3. report'.next \in {"none", "uses", "errors", "today", "over"}
    BY <1>2 DEF EventsInv, AnalyticsTypeOK, NoReport
  <2>4. \A h \in Hits : hit'[h].state \in {"fresh", "running", "over"}
    BY <1>3 DEF Hit
  <2>5. (DOMAIN daily \subseteq Accounts \X (0..Day(instant)))'
    BY <2>2 DEF Day
  <2>6. QED
    BY <1>1, <1>2, <1>3, <2>3, <2>4, <2>5 DEF AnalyticsTypeOK
<1>6. EventsTypeOK'
  <2>1. \A e \in tasks' \cup metrics' : hit'[e[2]].state = "over"
    BY <1>1, <1>2, <1>3, <1>4
  <2>2. /\ report' \in [next : {"none", "uses", "errors", "today", "over"}, since : Nat,
                        uses : Nat, done : Nat, today : Nat, errors : Nat, errorsToday : Nat]
        /\ late' \in Nat
    BY <1>2 DEF EventsInv, EventsTypeOK, NoReport
  <2>3. IsFiniteSet(Runs)'
    BY <1>2, <1>4, NothingStored DEF EventsInv, EventsTypeOK
  <2>4. QED
    BY <1>2, <1>3, <1>4, <2>1, <2>2, <2>3, NothingStored DEF EventsTypeOK
<1>7. FailuresAddUp' /\ OverviewAddsUp'
  BY <1>2, <1>4, NothingStored DEF EventsInv, FailuresAddUp, OverviewAddsUp, NoReport
<1>8. QED
  BY <1>2, <1>4, <1>5, <1>6, <1>7, NothingStored DEF EventsInv
LEMMA CommitKeeps ==
  ASSUME EventsInv, NEW task \in tasks, Commit(task)
  PROVE  EventsInv'
<1> DEFINE h == task[2]
           t == hit[h].since
           u == User(h)
           k == <<u, Day(t)>>
<1>1. /\ hit \in [Hits -> Hit] /\ instant \in 0..MaxInstant /\ instant \in Nat
      /\ profiles \subseteq Accounts /\ tasks \cup metrics \subseteq EventNames \X Hits
      /\ tasks \cap metrics = {} /\ DOMAIN daily \subseteq Accounts \X (0..Day(instant))
      /\ \A g \in Hits : hit[g].since \in 0..instant
      /\ \A e \in tasks \cup metrics : hit[e[2]].state = "over"
      /\ IsFiniteSet(metrics) /\ IsFiniteSet(Runs)
  BY AnalyticsAssumption DEF EventsInv, AnalyticsTypeOK, EventsTypeOK
<1>2. /\ task \in EventNames \X Hits /\ h \in Hits /\ task \notin metrics /\ t \in 0..instant
      /\ task = <<task[1], h>>
  BY <1>1
<1>3. /\ u \in profiles \cup {Nobody}
      /\ tasks' = tasks \ {task} /\ metrics' = metrics \cup {task}
      /\ daily' = IF u = Nobody THEN daily
                  ELSE WithRow(daily, k, WithActivity(Activity(u, Day(t)), t))
      /\ late' = IF task[1] = "tool_usage" /\ ~hit[h].ok /\ report.next = "errors"
                 THEN late + 1 ELSE late
      /\ UNCHANGED <<instant, profiles, hit, report>>
  BY DEF Commit
<1>4. Day(t) \in Nat /\ Day(instant) \in Nat /\ Day(t) <= Day(instant)
  BY <1>1, <1>2, DayMono
<1>5. \A a, d : Stored(a, d)' = IF a = u /\ d = Day(t) THEN Stored(a, d) \cup {task} ELSE Stored(a, d)
  <2>1. \A a, d : Stored(a, d)' = {e \in metrics' : User(e[2]) = a /\ Day(hit[e[2]].since) = d}
    BY <1>3 DEF Stored, Day, User
  <2>2. QED
    BY <1>3, <2>1 DEF Stored
<1>6. \A a, d : IsFiniteSet(Stored(a, d)) /\ task \notin Stored(a, d) /\ Stored(a, d) \subseteq metrics
  BY <1>1, <1>2, FS_Subset DEF Stored
<1>7. \A a, d, r : Summarises(r, Stored(a, d)') => Summarises(r, Stored(a, d))'
  BY <1>3 DEF Summarises
<1> HIDE DEF t, k
<1>8. DailyAddsUp' /\ DOMAIN daily' \subseteq Accounts \X (0..Day(instant))
  <2>1. CASE u = Nobody
    <3>1. daily' = daily /\ \A a \in Accounts, d \in Nat : Stored(a, d)' = Stored(a, d)
      BY <1>3, <1>5, <2>1, AnalyticsAssumption
    <3>2. ASSUME NEW a \in Accounts, NEW d \in Nat
          PROVE  IF Stored(a, d)' = {} THEN <<a, d>> \notin DOMAIN daily'
                 ELSE /\ <<a, d>> \in DOMAIN daily' /\ daily'[<<a, d>>] \in Row
                      /\ Summarises(daily[<<a, d>>], Stored(a, d))'
      <4>1. Stored(a, d)' = Stored(a, d) /\ daily'[<<a, d>>] = daily[<<a, d>>]
        BY <3>1
      <4>2. Summarises(daily[<<a, d>>], Stored(a, d)) => Summarises(daily[<<a, d>>], Stored(a, d))'
        BY <1>7, <3>1, <4>1 DEF Summarises
      <4>3. QED
        BY <3>1, <4>1, <4>2 DEF EventsInv, DailyAddsUp
    <3>3. QED
      BY <1>1, <3>1, <3>2 DEF DailyAddsUp
  <2>2. CASE u # Nobody
    <3> DEFINE r == WithActivity(Activity(u, Day(t)), t)
    <3>1. u \in Accounts /\ k \in Accounts \X (0..Day(instant)) /\ k = <<u, Day(t)>>
      BY <1>1, <1>3, <1>4, <2>2 DEF k
    <3>2. /\ DOMAIN daily' = DOMAIN daily \cup {k}
          /\ daily'[k] = r /\ \A x \in DOMAIN daily : x # k => daily'[x] = daily[x]
      <4>1. daily' = WithRow(daily, k, r)
        BY <1>3, <2>2
      <4> HIDE DEF r
      <4>2. QED
        BY <4>1 DEF WithRow
    <3>3. r \in Row /\ Summarises(r, Stored(u, Day(t)) \cup {task})
      <4>1. CASE Stored(u, Day(t)) = {}
        <5>1. <<u, Day(t)>> \notin DOMAIN daily
          BY <3>1, <1>4, <4>1 DEF EventsInv, DailyAddsUp
        <5>2. r = [count |-> 1, first |-> t, last |-> t]
          BY <5>1 DEF WithActivity, Activity
        <5>3. t \in Nat /\ t = hit[task[2]].since
          BY <1>2, <1>1 DEF t
        <5>4. r \in Row /\ Summarises(r, {task})
          BY <5>2, <5>3, FirstSummary
        <5>5. QED
          BY <4>1, <5>4
      <4>2. CASE Stored(u, Day(t)) # {}
        <5> DEFINE o == daily[<<u, Day(t)>>]
        <5>1. <<u, Day(t)>> \in DOMAIN daily /\ o \in Row /\ Summarises(o, Stored(u, Day(t)))
          BY <3>1, <1>4, <4>2 DEF EventsInv, DailyAddsUp
        <5>2. o # <<>>
          <6>1. DOMAIN o = {"count", "first", "last"}
            BY <5>1 DEF Row
          <6>2. DOMAIN <<>> = {}
            OBVIOUS
          <6> HIDE DEF o
          <6>3. QED
            BY <6>1, <6>2
        <5>3. Activity(u, Day(t)) = o
          BY <5>1 DEF Activity
        <5>4. r = [count |-> o.count + 1, first |-> Min({o.first, t}), last |-> Max({o.last, t})]
          BY <5>2, <5>3 DEF WithActivity
        <5>5. /\ IsFiniteSet(Stored(u, Day(t))) /\ task \notin Stored(u, Day(t))
              /\ \A x \in Stored(u, Day(t)) \cup {task} : hit[x[2]].since \in Nat
              /\ t = hit[task[2]].since
          BY <1>1, <1>2, <1>6 DEF t
        <5> HIDE DEF o, r
        <5>6. QED
          BY <5>1, <5>4, <5>5, SummaryGrows
      <4>3. QED
        BY <4>1, <4>2
    <3> HIDE DEF r
    <3>4. ASSUME NEW a \in Accounts, NEW d \in Nat
          PROVE  IF Stored(a, d)' = {} THEN <<a, d>> \notin DOMAIN daily'
                 ELSE /\ <<a, d>> \in DOMAIN daily' /\ daily'[<<a, d>>] \in Row
                      /\ Summarises(daily[<<a, d>>], Stored(a, d))'
      <4>1. CASE a = u /\ d = Day(t)
        <5>1. Stored(a, d)' = Stored(u, Day(t)) \cup {task} /\ <<a, d>> = k
          BY <1>5, <3>1, <4>1
        <5>2. Summarises(r, Stored(a, d)') /\ r \in Row /\ daily'[<<a, d>>] = r
          BY <3>2, <3>3, <5>1
        <5>3. Summarises(daily[<<a, d>>], Stored(a, d))'
          BY <1>3, <5>2 DEF Summarises
        <5>4. QED
          BY <3>2, <5>1, <5>2, <5>3
      <4>2. CASE ~(a = u /\ d = Day(t))
        <5>1. Stored(a, d)' = Stored(a, d) /\ <<a, d>> # k
          BY <1>5, <3>1, <4>2
        <5>2. CASE Stored(a, d) = {}
          BY <5>1, <5>2, <3>2 DEF EventsInv, DailyAddsUp
        <5>3. CASE Stored(a, d) # {}
          <6>1. <<a, d>> \in DOMAIN daily /\ daily[<<a, d>>] \in Row
                /\ Summarises(daily[<<a, d>>], Stored(a, d))
            BY <5>3 DEF EventsInv, DailyAddsUp
          <6>2. daily'[<<a, d>>] = daily[<<a, d>>]
            BY <3>2, <5>1, <6>1
          <6>3. Summarises(daily[<<a, d>>], Stored(a, d))'
            BY <1>3, <5>1, <6>1, <6>2 DEF Summarises
          <6>4. QED
            BY <3>2, <5>1, <5>3, <6>1, <6>2, <6>3
        <5>4. QED
          BY <5>2, <5>3
      <4>3. QED
        BY <4>1, <4>2
    <3>5. QED
      BY <1>1, <3>1, <3>2, <3>4 DEF DailyAddsUp
  <2>3. QED
    BY <2>1, <2>2
<1>9. AnalyticsTypeOK'
  <2>1. Day(instant)' = Day(instant)
    BY <1>3 DEF Day
  <2>2. DOMAIN daily' \subseteq Accounts \X (0..Day(instant)')
    BY <1>8, <2>1
  <2>3. QED
    BY <1>2, <1>3, <2>2 DEF EventsInv, AnalyticsTypeOK
<1>10. /\ Runs' = IF task[1] = "tool_usage" THEN Runs \cup {h} ELSE Runs
       /\ task[1] = "tool_usage" => h \notin Runs
  BY <1>2, <1>3 DEF Runs
<1>11. /\ Failed(Runs)' = IF task[1] = "tool_usage" /\ ~hit[h].ok THEN Failed(Runs) \cup {h} ELSE Failed(Runs)
       /\ h \notin Failed(Runs) \/ task[1] # "tool_usage"
       /\ IsFiniteSet(Failed(Runs))
  <2>1. Failed(Runs)' = {g \in Runs' : ~hit[g].ok}
    BY <1>3 DEF Failed
  <2>2. IsFiniteSet(Failed(Runs))
    BY <1>1, FS_Subset DEF Failed
  <2>3. QED
    BY <1>10, <2>1, <2>2 DEF Failed
<1>12. EventsTypeOK'
  <2>1. IsFiniteSet(metrics') /\ IsFiniteSet(Runs')
    BY <1>1, <1>3, <1>10, FS_AddElement
  <2>2. late' \in Nat
    BY <1>3 DEF EventsInv, EventsTypeOK
  <2>3. \A e \in tasks' \cup metrics' : hit'[e[2]].state = "over"
    BY <1>1, <1>3
  <2>4. QED
    BY <1>3, <2>1, <2>2, <2>3 DEF EventsInv, EventsTypeOK
<1>13. FailuresAddUp' /\ OverviewAddsUp'
  <2>1. report' = report /\ (report.next # "errors" => late' = late)
    BY <1>3
  <2>2. ASSUME report.next = "errors"
        PROVE  Cardinality(Failed(Runs)') = report.uses - report.done + late'
    <3>1. Cardinality(Failed(Runs)) = report.uses - report.done + late /\ late \in Nat
          /\ report.uses \in Nat /\ report.done \in Nat
      BY <2>2 DEF EventsInv, FailuresAddUp, EventsTypeOK
    <3>2. CASE task[1] = "tool_usage" /\ ~hit[h].ok
      <4>1. Cardinality(Failed(Runs)') = Cardinality(Failed(Runs)) + 1
        BY <3>2, <1>11, FS_AddElement
      <4>2. QED
        BY <2>2, <3>1, <3>2, <4>1, <1>3
    <3>3. CASE ~(task[1] = "tool_usage" /\ ~hit[h].ok)
      BY <3>1, <3>3, <1>3, <1>11
    <3>4. QED
      BY <3>2, <3>3
  <2>3. QED
    BY <2>1, <2>2 DEF FailuresAddUp, EventsInv, OverviewAddsUp
<1>14. QED
  BY <1>8, <1>9, <1>12, <1>13 DEF EventsInv

LEMMA ReportKeeps ==
  ASSUME EventsInv, BeginReport \/ CountUses \/ CountErrors \/ CountErrorsToday
  PROVE  EventsInv'
<1>1. UNCHANGED <<instant, profiles, hit, tasks, metrics, daily>>
  BY DEF BeginReport, CountUses, CountErrors, CountErrorsToday
<1>2. /\ DailyAddsUp' /\ IsFiniteSet(metrics') /\ Runs' = Runs
      /\ Failed(Runs)' = Failed(Runs)
  BY <1>1, NothingStored
<1>3. IsFiniteSet(Runs) /\ IsFiniteSet(Failed(Runs)) /\ Failed(Runs) \subseteq Runs
      /\ late \in Nat /\ instant \in Nat
      /\ report \in [next : {"none", "uses", "errors", "today", "over"}, since : Nat, uses : Nat,
                     done : Nat, today : Nat, errors : Nat, errorsToday : Nat]
  BY FS_Subset DEF Failed, EventsInv, EventsTypeOK
<1>4. \A S : S \subseteq Runs => \A d : IsFiniteSet(SinceDay(S, d)) /\ Cardinality(SinceDay(S, d)) \in Nat
  BY <1>3, FS_Subset, FS_CardinalityType DEF SinceDay
<1>5. /\ report' \in [next : {"none", "uses", "errors", "today", "over"}, since : Nat, uses : Nat,
                      done : Nat, today : Nat, errors : Nat, errorsToday : Nat]
      /\ late' \in Nat /\ FailuresAddUp' /\ OverviewAddsUp'
  <2>1. CASE BeginReport
    <3>1. Day(instant) \in Nat
      BY <1>3, DayMono
    <3>2. report' = [NoReport EXCEPT !.next = "uses", !.since = Day(instant)] /\ late' = late
      BY <2>1 DEF BeginReport
    <3>3. QED
      BY <1>3, <3>1, <3>2 DEF NoReport, FailuresAddUp, OverviewAddsUp
  <2>2. CASE CountUses
    <3> DEFINE all == Cardinality(Runs)
               done == Cardinality(Runs \ Failed(Runs))
               today == Cardinality(SinceDay(Runs, report.since))
    <3>1. report' = [report EXCEPT !.next = "errors", !.uses = all, !.done = done, !.today = today]
          /\ late' = 0
      BY <2>2 DEF CountUses
    <3>2. done = all - Cardinality(Failed(Runs))
      <4>1. Runs \cap Failed(Runs) = Failed(Runs)
        BY <1>3
      <4>2. QED
        BY <1>3, <4>1, FS_Difference
    <3>3. all \in Nat /\ done \in Nat /\ today \in Nat /\ Cardinality(Failed(Runs)) \in Nat
      BY <1>3, <1>4, FS_CardinalityType, FS_Difference
    <3> HIDE DEF all, done, today
    <3>4. report'.next = "errors" /\ report'.uses = all /\ report'.done = done
      BY <1>3, <3>1
    <3>5. FailuresAddUp'
      <4>1. Cardinality(Failed(Runs)') = all - done + late'
        BY <1>2, <3>1, <3>2, <3>3
      <4>2. QED
        BY <3>4, <4>1 DEF FailuresAddUp
    <3>6. QED
      BY <1>3, <3>1, <3>3, <3>4, <3>5 DEF OverviewAddsUp
  <2>3. CASE CountErrors
    <3> DEFINE n == Cardinality(Failed(Runs))
    <3>1. report.next = "errors" /\ report' = [report EXCEPT !.next = "today", !.errors = n] /\ late' = late
      BY <2>3 DEF CountErrors
    <3>2. n \in Nat /\ n = report.uses - report.done + late
      BY <1>3, <3>1, FS_CardinalityType DEF EventsInv, FailuresAddUp
    <3> HIDE DEF n
    <3>3. QED
      BY <1>3, <3>1, <3>2 DEF FailuresAddUp, OverviewAddsUp
  <2>4. CASE CountErrorsToday
    <3> DEFINE n == Cardinality(SinceDay(Failed(Runs), report.since))
    <3>1. report.next = "today" /\ report' = [report EXCEPT !.next = "over", !.errorsToday = n]
          /\ late' = late
      BY <2>4 DEF CountErrorsToday
    <3>2. n \in Nat
      BY <1>3, <1>4
    <3> HIDE DEF n
    <3>3. QED
      BY <1>3, <3>1, <3>2 DEF EventsInv, FailuresAddUp, OverviewAddsUp
  <2>5. QED
    BY <2>1, <2>2, <2>3, <2>4
<1>6. AnalyticsTypeOK'
  BY <1>1, <1>5 DEF EventsInv, AnalyticsTypeOK, Day
<1>7. EventsTypeOK'
  BY <1>1, <1>2, <1>5 DEF EventsInv, EventsTypeOK
<1>8. QED
  BY <1>2, <1>5, <1>6, <1>7 DEF EventsInv

LEMMA EventsInvInit == AnalyticsInit => EventsInv
<1> SUFFICES ASSUME AnalyticsInit PROVE EventsInv
  OBVIOUS
<1>1. Fresh \in Hit /\ Fresh.since = 0
  BY DEF Fresh, Hit
<1>2. Runs = {} /\ \A u, d : Stored(u, d) = {}
  BY DEF AnalyticsInit, Runs, Stored
<1>3. DOMAIN daily = {}
  BY DEF AnalyticsInit
<1>4. AnalyticsTypeOK
  BY <1>1, <1>3, AnalyticsAssumption DEF AnalyticsInit, AnalyticsTypeOK, Fresh, NoReport
<1>5. EventsTypeOK
  BY <1>1, <1>2, FS_EmptySet DEF AnalyticsInit, EventsTypeOK, NoReport
<1>6. DailyAddsUp
  BY <1>2, <1>3 DEF DailyAddsUp
<1>7. QED
  BY <1>4, <1>5, <1>6 DEF AnalyticsInit, EventsInv, FailuresAddUp, OverviewAddsUp, NoReport

LEMMA EventsInvNext == EventsInv /\ [AnalyticsNext]_analyticsVars => EventsInv'
<1> SUFFICES ASSUME EventsInv, [AnalyticsNext]_analyticsVars PROVE EventsInv'
  OBVIOUS
<1>1. CASE UNCHANGED analyticsVars
  <2>1. UNCHANGED <<instant, profiles, hit, tasks, metrics, daily, report, late>>
    BY <1>1 DEF analyticsVars
  <2>2. /\ DailyAddsUp' /\ IsFiniteSet(metrics') /\ Runs' = Runs
        /\ Failed(Runs)' = Failed(Runs)
    BY <2>1, NothingStored
  <2>3. AnalyticsTypeOK'
    BY <2>1 DEF EventsInv, AnalyticsTypeOK, Day
  <2>4. QED
    BY <2>1, <2>2, <2>3 DEF EventsInv, EventsTypeOK, FailuresAddUp, OverviewAddsUp
<1>2. QED
  BY <1>1, RequestsEvents, CommitKeeps, ReportKeeps DEF AnalyticsNext

LEMMA EventsInvIsAnalyticsInv == EventsInv => AnalyticsInv
<1> SUFFICES ASSUME EventsInv PROVE AnalyticsInv
  OBVIOUS
<1>1. ASSUME NEW u \in Accounts, NEW d \in 0..Day(MaxInstant)
      PROVE  LET stored == {e \in metrics : User(e[2]) = u /\ Day(hit[e[2]].since) = d}
                 times == {hit[e[2]].since : e \in stored}
             IN  IF stored = {} THEN Activity(u, d) = <<>>
                 ELSE Activity(u, d) = [count |-> Cardinality(stored),
                                        first |-> Min(times), last |-> Max(times)]
  <2> DEFINE times == {hit[e[2]].since : e \in Stored(u, d)}
  <2>1. d \in Nat
    OBVIOUS
  <2>2. CASE Stored(u, d) = {}
    BY <2>1, <2>2 DEF EventsInv, DailyAddsUp, Activity, Stored
  <2>3. CASE Stored(u, d) # {}
    <3> DEFINE r == daily[<<u, d>>]
    <3>1. <<u, d>> \in DOMAIN daily /\ r \in Row /\ Summarises(r, Stored(u, d))
      BY <2>1, <2>3 DEF EventsInv, DailyAddsUp
    <3>2. Activity(u, d) = r
      BY <3>1 DEF Activity
    <3>3. \A e \in Stored(u, d) : hit[e[2]].since \in Nat
      BY DEF Stored, EventsInv, EventsTypeOK, AnalyticsTypeOK, Hit
    <3>4. /\ times \in SUBSET Int /\ r.first \in times /\ r.last \in times
          /\ \A x \in times : r.first <= x /\ x <= r.last
      BY <3>1, <3>3 DEF Summarises
    <3>5. Min(times) = r.first /\ Max(times) = r.last
      <4> HIDE DEF times, r
      <4>1. QED
        BY <3>4, LeastAndGreatest
    <3>6. r = [count |-> r.count, first |-> r.first, last |-> r.last]
      BY <3>1 DEF Row
    <3>7. r.count = Cardinality(Stored(u, d))
      BY <3>1 DEF Summarises
    <3> HIDE DEF r
    <3>8. Activity(u, d) = [count |-> Cardinality(Stored(u, d)), first |-> Min(times), last |-> Max(times)]
      BY <3>2, <3>5, <3>6, <3>7
    <3>9. QED
      BY <2>3, <3>8 DEF Stored
  <2>4. QED
    BY <2>2, <2>3
<1>2. QED
  BY <1>1 DEF EventsInv, AnalyticsInv, ActivityAddsUp

\* The activity of every day is the sum of the events that are stored, and an
\* overview agrees with itself, for any number of requests and days, in whatever
\* order the tasks commit and whichever of them are lost.
THEOREM TablesAgree == AnalyticsSpec => []AnalyticsInv
  BY EventsInvInit, EventsInvNext, EventsInvIsAnalyticsInv, PTL DEF AnalyticsSpec
=============================================================================
