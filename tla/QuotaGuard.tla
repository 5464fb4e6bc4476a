----------------------------- MODULE QuotaGuard -----------------------------
(***************************************************************************)
(* A tool request from the dependency enforce_quota to its answer: who the *)
(* caller is, which counter pays, whether the request is admitted, and     *)
(* whether the run enters the caller's history.                            *)
(*                                                                         *)
(* A request is charged by one upsert that returns the new count and is    *)
(* committed before the comparison with the limit; a refused or failed     *)
(* request stays charged.  Between the reading of the date, the commit and *)
(* the work of the tool, other requests, an administrator's reset and      *)
(* midnight may come.  The counter of a key and a day exists from the      *)
(* first charge on; reading a missing one gives 0.                         *)
(***************************************************************************)
EXTENDS Integers, FiniteSets

CONSTANTS
    ToolCalls,  \* tool requests, each made once
    Accounts,   \* keys "user:<id>"
    Addrs,      \* keys "ip:<left-most X-Forwarded-For or peer>"
    Anon,       \* the principal None
    Caller,     \* Caller[r]: the account of a valid bearer token, or Anon
    Addr,       \* Addr[r]: the address key of the request
    AnonLimit,  \* ANON_DAILY_JOBS
    FreeLimit,  \* FREE_DAILY_JOBS
    MaxDay,     \* bound on the date
    MaxResets,  \* bound on administrators' resets
    MaxQuotaFaults  \* bound on faults

Keys == Accounts \cup Addrs
Days == 0..MaxDay

\* The prefixes keep accounts and addresses apart; the order of the limits
\* plays no part.
ASSUME CallersAssumption ==
    /\ IsFiniteSet(ToolCalls)
    /\ Accounts \cap Addrs = {}
    /\ Anon \notin Keys
    /\ Caller \in [ToolCalls -> Accounts \cup {Anon}]
    /\ Addr \in [ToolCalls -> Addrs]

ASSUME LimitsAssumption ==
    /\ AnonLimit \in Nat
    /\ FreeLimit \in Nat
    /\ MaxDay \in Nat
    /\ MaxResets \in Nat
    /\ MaxQuotaFaults \in Nat

VARIABLES
    stage,      \* stage[r]: where request r is
    principal,  \* principal[r]: what get_current_user_optional returned
    day,        \* day[r]: today_utc() when r was about to be charged
    today,      \* the date
    count,      \* count[k, d]: tool_request_counters
    seen,       \* seen[r]: the post-increment count returned to r
    answer,     \* answer[r]: the response
    scheduled,  \* requests whose run was handed to the recorder
    target,     \* the key an administrator's reset is about, or Anon
    resetDay,   \* the day of that reset
    charged,    \* history: requests that incremented a counter
    resets,     \* resets[k, d]: history: resets of a counter so far
    period,     \* period[r]: history: resets of its counter when r was charged
    quotaFaults \* faults so far

resetVars  == <<target, resetDay>>
historyVars == <<charged, resets, period>>
quotaVars == <<stage, principal, day, today, count, seen, answer, scheduled,
               resetVars, historyVars, quotaFaults>>

QuotaAnswers == {"None", "OK", "ToolError", "Refused", "ServerError", "Lost"}

QuotaTypeOK ==
    /\ stage \in [ToolCalls -> {"new", "charge", "work", "done"}]
    /\ principal \in [ToolCalls -> Accounts \cup {Anon}]
    /\ day \in [ToolCalls -> Days]
    /\ today \in Days
    /\ count \in [Keys \X Days -> Nat]
    /\ seen \in [ToolCalls -> Nat]
    /\ answer \in [ToolCalls -> QuotaAnswers]
    /\ scheduled \subseteq ToolCalls
    /\ target \in Keys \cup {Anon}
    /\ resetDay \in Days
    /\ charged \subseteq ToolCalls
    /\ resets \in [Keys \X Days -> Nat]
    /\ period \in [ToolCalls -> Nat]
    /\ quotaFaults \in Nat

QuotaInit ==
    /\ stage = [r \in ToolCalls |-> "new"]
    /\ principal = [r \in ToolCalls |-> Anon]
    /\ day = [r \in ToolCalls |-> 0]
    /\ today = 0
    /\ count = [kd \in Keys \X Days |-> 0]
    /\ seen = [r \in ToolCalls |-> 0]
    /\ answer = [r \in ToolCalls |-> "None"]
    /\ scheduled = {}
    /\ target = Anon
    /\ resetDay = 0
    /\ charged = {}
    /\ resets = [kd \in Keys \X Days |-> 0]
    /\ period = [r \in ToolCalls |-> 0]
    /\ quotaFaults = 0

-----------------------------------------------------------------------------
(* effective_limits and _key_for_request, both of the same principal.      *)

Key(r) == IF principal[r] = Anon THEN Addr[r] ELSE principal[r]

Limit(r) == IF principal[r] = Anon THEN AnonLimit ELSE FreeLimit

Counter(r) == <<Key(r), day[r]>>

Fault == quotaFaults < MaxQuotaFaults /\ quotaFaults' = quotaFaults + 1

Finish(r, a) ==
    /\ stage' = [stage EXCEPT ![r] = "done"]
    /\ answer' = [answer EXCEPT ![r] = a]

\* The principal is resolved once and shared by the guard and the handler;
\* then the key, the limit and the date are fixed.
Enter(r, p) ==
    /\ stage[r] = "new"
    /\ stage' = [stage EXCEPT ![r] = "charge"]
    /\ principal' = [principal EXCEPT ![r] = p]
    /\ day' = [day EXCEPT ![r] = today]
    /\ UNCHANGED <<today, count, seen, answer, scheduled, resetVars, historyVars>>

Resolve(r) == Enter(r, Caller[r]) /\ UNCHANGED quotaFaults

\* The signing keys cannot be fetched: verify_supabase_token raises 503, which
\* get_current_user_optional turns into None.
ResolveDegraded(r) == Caller[r] # Anon /\ Enter(r, Anon) /\ Fault

\* The upsert, as the database performs it.
Increment(r) ==
    /\ count' = [count EXCEPT ![Counter(r)] = @ + 1]
    /\ seen' = [seen EXCEPT ![r] = count[Counter(r)] + 1]
    /\ charged' = charged \cup {r}
    /\ period' = [period EXCEPT ![r] = resets[Counter(r)]]
    /\ UNCHANGED resets

\* Variants for mutations: the count before the increment is compared; the
\* comparison is strict.
WithinBefore(r, n) == n - 1 <= Limit(r)
WithinStrict(r, n) == n < Limit(r)

Within(r, n) == n <= Limit(r)

\* increment_and_check: commit, then compare.
Charge(r) ==
    /\ stage[r] = "charge"
    /\ Increment(r)
    /\ \/ /\ Within(r, count[Counter(r)] + 1)
          /\ stage' = [stage EXCEPT ![r] = "work"]
          /\ UNCHANGED answer
       \/ /\ ~Within(r, count[Counter(r)] + 1)
          /\ Finish(r, "Refused")
    /\ UNCHANGED <<principal, day, today, scheduled, resetVars, quotaFaults>>

\* The database fails before the increment, or after its commit.
ChargeFails(r) ==
    /\ stage[r] = "charge"
    /\ Fault
    /\ Increment(r) \/ UNCHANGED <<count, seen, historyVars>>
    /\ Finish(r, "ServerError")
    /\ UNCHANGED <<principal, day, today, scheduled, resetVars>>

\* Variant for a mutation: a request that fails is paid back.
WorkFailsRefunded(r) ==
    /\ stage[r] = "work"
    /\ Finish(r, "ToolError")
    /\ count' = [count EXCEPT ![Counter(r)] = @ - 1]
    /\ UNCHANGED <<principal, day, today, seen, scheduled, resetVars, historyVars,
                   quotaFaults>>

\* The handler: the upload is too large for the tier, the input is bad or the
\* tool fails; nothing is undone and nothing is recorded.
WorkFails(r) ==
    /\ stage[r] = "work"
    /\ Finish(r, "ToolError")
    /\ UNCHANGED <<principal, day, today, count, seen, scheduled, resetVars,
                   historyVars, quotaFaults>>

\* Variant for a mutation: the history goes by the token, not by the principal.
WorkSucceedsByToken(r) ==
    /\ stage[r] = "work"
    /\ Finish(r, "OK")
    /\ scheduled' = IF Caller[r] = Anon THEN scheduled ELSE scheduled \cup {r}
    /\ UNCHANGED <<principal, day, today, count, seen, resetVars, historyVars,
                   quotaFaults>>

\* record_and_respond: a signed-in run is handed to the recorder.
WorkSucceeds(r) ==
    /\ stage[r] = "work"
    /\ Finish(r, "OK")
    /\ scheduled' = IF principal[r] = Anon THEN scheduled ELSE scheduled \cup {r}
    /\ UNCHANGED <<principal, day, today, count, seen, resetVars, historyVars,
                   quotaFaults>>

\* The API process dies with its requests; a reset in progress dies too.
Crash ==
    /\ Fault
    /\ stage' = [r \in ToolCalls |-> IF stage[r] = "new" THEN "new" ELSE "done"]
    /\ answer' = [r \in ToolCalls |->
                    IF stage[r] \in {"charge", "work"} THEN "Lost" ELSE answer[r]]
    /\ target' = Anon
    /\ UNCHANGED <<principal, day, today, count, seen, scheduled, resetDay,
                   historyVars>>

-----------------------------------------------------------------------------
(* POST reset of an administrator: read the count, then set it to zero.    *)

ResetReads(k) ==
    /\ target = Anon
    /\ target' = k
    /\ resetDay' = today
    /\ UNCHANGED <<stage, principal, day, today, count, seen, answer, scheduled,
                   historyVars, quotaFaults>>

ResetWrites ==
    /\ target # Anon
    /\ resets[<<target, resetDay>>] < MaxResets
    /\ count' = [count EXCEPT ![<<target, resetDay>>] = 0]
    /\ resets' = [resets EXCEPT ![<<target, resetDay>>] = @ + 1]
    /\ target' = Anon
    /\ UNCHANGED <<stage, principal, day, today, seen, answer, scheduled, resetDay,
                   charged, period, quotaFaults>>

Midnight ==
    /\ today < MaxDay
    /\ today' = today + 1
    /\ UNCHANGED <<stage, principal, day, count, seen, answer, scheduled, resetVars,
                   historyVars, quotaFaults>>

Request(r) ==
    \/ Resolve(r) \/ ResolveDegraded(r)
    \/ Charge(r) \/ ChargeFails(r)
    \/ WorkFails(r) \/ WorkSucceeds(r)

QuotaNext ==
    \/ \E r \in ToolCalls : Request(r)
    \/ \E k \in Keys : ResetReads(k)
    \/ ResetWrites
    \/ Crash
    \/ Midnight

QuotaSpec == QuotaInit /\ [][QuotaNext]_quotaVars

-----------------------------------------------------------------------------
(* Safety.  Requests pay together when they incremented the same counter   *)
(* between the same two resets of it.                                      *)

PaidOn(kd, n) == {r \in charged : Counter(r) = kd /\ period[r] = n}

Admitted == {r \in charged : stage[r] = "work" \/ answer[r] \in {"OK", "ToolError"}}

LimitOf(k) == IF k \in Accounts THEN FreeLimit ELSE AnonLimit

\* However requests interleave, whatever resets and midnights come between,
\* and although nothing is checked before the increment: between two resets a
\* counter admits at most its tier's limit of requests per day.
AtMostLimitAdmitted ==
    \A kd \in Keys \X Days, n \in 0..MaxResets :
        Cardinality(PaidOn(kd, n) \cap Admitted) <= LimitOf(kd[1])

\* A request is refused only after more than the limit of requests were
\* charged to its own counter since its last reset: neither a race, nor a
\* reset, nor the traffic of another caller or of another day refuses one.
NobodyIsRefusedEarly ==
    \A r \in ToolCalls : answer[r] = "Refused" =>
        Cardinality(PaidOn(Counter(r), period[r])) > Limit(r)

\* What /usage reports is the number of requests charged since the last
\* reset, including the refused and failed ones: no increment is lost to a
\* concurrent one and none is undone.
CounterIsExact ==
    \A kd \in Keys \X Days :
        count[kd] = Cardinality(PaidOn(kd, resets[kd]))

\* A run that enters the history of an account was charged to that account
\* and admitted, also when the request raced a reset or a key outage.
HistoryIsPaidFor ==
    \A r \in scheduled :
        /\ r \in charged
        /\ answer[r] = "OK"
        /\ Key(r) = Caller[r]
        /\ seen[r] <= FreeLimit

-----------------------------------------------------------------------------
(* The inductive invariant behind the properties.                          *)

\* The counts handed out between two resets of a counter are 1, 2, 3, ...,
\* each of them once, and the counter stands at the last one.
TicketsAreSerial ==
    /\ CounterIsExact
    /\ \A r \in charged :
          /\ 1 <= seen[r]
          /\ seen[r] <= Cardinality(PaidOn(Counter(r), period[r]))
          /\ period[r] <= resets[Counter(r)]
    /\ \A q, r \in charged :
          (Counter(q) = Counter(r) /\ period[q] = period[r] /\ seen[q] = seen[r])
             => q = r

\* Where a request is tells what happened to it.
RequestsAreInStep ==
    \A r \in ToolCalls :
        /\ stage[r] \in {"new", "charge"} => r \notin charged
        /\ stage[r] \in {"new", "charge", "work"} => answer[r] = "None"
        /\ stage[r] = "work" \/ answer[r] \in {"OK", "ToolError"} =>
              r \in charged /\ seen[r] <= Limit(r)
        /\ answer[r] = "Refused" => r \in charged /\ seen[r] > Limit(r)
        /\ principal[r] \in {Anon, Caller[r]}
        /\ r \in scheduled => answer[r] = "OK" /\ principal[r] # Anon

QuotaInv == TicketsAreSerial /\ RequestsAreInStep

-----------------------------------------------------------------------------
(* The refinement of QuotaBook.                                            *)

Verdict(r) ==
    CASE r \notin charged -> "none"
      [] r \in charged /\ answer[r] = "Refused" -> "refused"
      [] r \in Admitted -> "admitted"
      [] OTHER -> "lost"

OnBook == [kd \in Keys \X Days |-> PaidOn(kd, resets[kd])]

Verdicts == [r \in ToolCalls |-> Verdict(r)]

Limits == [kd \in Keys \X Days |-> LimitOf(kd[1])]

Book == INSTANCE QuotaBook WITH
    Reqs <- ToolCalls, Counters <- Keys \X Days, limit <- Limits,
    book <- OnBook, verdict <- Verdicts

\* Charging first, committing and comparing afterwards, with no check before,
\* is as good as an atomic check-and-enter: each request is admitted or
\* refused by the number of requests in the book when it enters, which neither
\* races, failures, key outages, crashes, midnight nor a reset that was read
\* long before it is written can falsify.
ImplementsBook == Book!Spec

\* "signed-in users are keyed by account" (routes/usage.py).
SignedInIsKeyedByAccount ==
    \A r \in charged : Caller[r] \in Accounts => Key(r) = Caller[r]
=============================================================================
