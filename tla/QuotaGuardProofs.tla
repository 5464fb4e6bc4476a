--------------------------- MODULE QuotaGuardProofs ---------------------------
(***************************************************************************)
(* Proofs about QuotaGuard for any finite set of requests and any limits.  *)
(* The counts handed out between two resets are distinct (TicketsAreSerial,*)
(* inductive together with RequestsAreInStep), so by the pigeonhole        *)
(* principle at most `limit` of them are at most `limit`.  And because the *)
(* count handed out is the number of requests on the counter, comparing    *)
(* after the commit decides as QuotaBook does at the entry.                *)
(***************************************************************************)
EXTENDS QuotaGuard, FiniteSetTheorems, TLAPS

\* Limits and counters are of the right kind.
LEMMA KeyTypes ==
  ASSUME QuotaTypeOK, NEW r \in ToolCalls
  PROVE  /\ Key(r) \in Keys
         /\ Counter(r) \in Keys \X Days
         /\ Limit(r) \in Nat
  BY CallersAssumption, LimitsAssumption DEF QuotaTypeOK, Key, Keys, Counter, Limit

\* An increment keeps the shape of the counters and of the tickets.
LEMMA IncrementTypes ==
  ASSUME QuotaTypeOK, NEW r \in ToolCalls, Increment(r)
  PROVE  /\ count' \in [Keys \X Days -> Nat]
         /\ seen' \in [ToolCalls -> Nat]
         /\ charged' \subseteq ToolCalls
         /\ resets' \in [Keys \X Days -> Nat]
         /\ period' \in [ToolCalls -> Nat]
<1>1. PICK kd \in Keys \X Days : kd = Counter(r)
  BY KeyTypes
<1>2. QED
  BY <1>1 DEF Increment, QuotaTypeOK

\* Every variable keeps the shape its declaration gives it.
THEOREM QuotaTypeCorrect == QuotaSpec => []QuotaTypeOK
<1> USE CallersAssumption, LimitsAssumption
<1>1. QuotaInit => QuotaTypeOK
  BY DEF QuotaInit, QuotaTypeOK, Days, QuotaAnswers
<1>2. ASSUME QuotaTypeOK, [QuotaNext]_quotaVars PROVE QuotaTypeOK'
  <2>1. ASSUME NEW r \in ToolCalls, Request(r) PROVE QuotaTypeOK'
    <3>1. CASE Resolve(r)
      BY <1>2, <2>1, <3>1 DEF Resolve, Enter, QuotaTypeOK, resetVars, historyVars
    <3>2. CASE ResolveDegraded(r)
      <4>1. Enter(r, Anon) /\ quotaFaults' \in Nat
        BY <1>2, <3>2 DEF ResolveDegraded, Fault, QuotaTypeOK
      <4>2. principal' \in [ToolCalls -> Accounts \cup {Anon}]
        BY <1>2, <4>1 DEF Enter, QuotaTypeOK
      <4>3. stage' \in [ToolCalls -> {"new", "charge", "work", "done"}] /\ day' \in [ToolCalls -> Days]
        BY <1>2, <4>1 DEF Enter, QuotaTypeOK
      <4>4. UNCHANGED <<today, count, seen, answer, scheduled, resetVars, historyVars>>
        BY <4>1 DEF Enter
      <4>5. QED
        BY <1>2, <4>1, <4>2, <4>3, <4>4 DEF QuotaTypeOK, resetVars, historyVars
    <3>3. CASE Charge(r)
      <4>1. stage' \in [ToolCalls -> {"new", "charge", "work", "done"}] /\ answer' \in [ToolCalls -> QuotaAnswers]
        BY <1>2, <3>3 DEF Charge, Finish, QuotaTypeOK, QuotaAnswers
      <4>2. Increment(r) /\ UNCHANGED <<principal, day, today, scheduled, target, resetDay, quotaFaults>>
        BY <3>3 DEF Charge, resetVars
      <4>3. QED
        BY <1>2, <2>1, <4>1, <4>2, IncrementTypes DEF QuotaTypeOK
    <3>4. CASE ChargeFails(r)
      <4>1. /\ stage' \in [ToolCalls -> {"new", "charge", "work", "done"}]
            /\ answer' \in [ToolCalls -> QuotaAnswers] /\ quotaFaults' \in Nat
        BY <1>2, <3>4 DEF ChargeFails, Finish, Fault, QuotaTypeOK, QuotaAnswers
      <4>2. /\ Increment(r) \/ UNCHANGED <<count, seen, charged, resets, period>>
            /\ UNCHANGED <<principal, day, today, scheduled, target, resetDay>>
        BY <3>4 DEF ChargeFails, resetVars, historyVars
      <4>3. QED
        BY <1>2, <2>1, <4>1, <4>2, IncrementTypes DEF QuotaTypeOK
    <3>5. CASE WorkFails(r)
      BY <1>2, <2>1, <3>5 DEF WorkFails, Finish, QuotaTypeOK, QuotaAnswers, resetVars, historyVars
    <3>6. CASE WorkSucceeds(r)
      BY <1>2, <2>1, <3>6 DEF WorkSucceeds, Finish, QuotaTypeOK, QuotaAnswers, resetVars, historyVars
    <3>7. QED
      BY <2>1, <3>1, <3>2, <3>3, <3>4, <3>5, <3>6 DEF Request
  <2>2. ASSUME NEW k \in Keys, ResetReads(k) PROVE QuotaTypeOK'
    BY <1>2, <2>2 DEF ResetReads, QuotaTypeOK, historyVars
  <2>3. CASE ResetWrites
    BY <1>2, <2>3 DEF ResetWrites, QuotaTypeOK
  <2>4. CASE Crash
    BY <1>2, <2>4 DEF Crash, Fault, QuotaTypeOK, QuotaAnswers, historyVars
  <2>5. CASE Midnight
    BY <1>2, <2>5 DEF Midnight, QuotaTypeOK, Days, resetVars, historyVars
  <2>6. CASE UNCHANGED quotaVars
    BY <1>2, <2>6 DEF quotaVars, QuotaTypeOK, resetVars, historyVars
  <2>7. QED
    BY <1>2, <2>1, <2>2, <2>3, <2>4, <2>5, <2>6 DEF QuotaNext
<1>3. QED
  BY <1>1, <1>2, PTL DEF QuotaSpec

-----------------------------------------------------------------------------
(* Who paid on a counter, before and after a step.                         *)

\* Paying sets are finite, so they have a cardinality.
LEMMA PaidOnFinite ==
  ASSUME QuotaTypeOK, NEW kd, NEW n
  PROVE  /\ IsFiniteSet(PaidOn(kd, n))
         /\ Cardinality(PaidOn(kd, n)) \in Nat
<1>1. PaidOn(kd, n) \in SUBSET ToolCalls
  BY DEF PaidOn, QuotaTypeOK
<1>2. IsFiniteSet(PaidOn(kd, n))
  BY <1>1, FS_Subset, CallersAssumption
<1>3. QED
  BY <1>2, FS_CardinalityType

\* A step that charges nobody leaves every paying set as it is.
LEMMA NobodyPays ==
  ASSUME charged' = charged, period' = period,
         \A r \in charged : Counter(r)' = Counter(r)
  PROVE  \A kd, n : PaidOn(kd, n)' = PaidOn(kd, n)
  BY DEF PaidOn

\* An increment adds its request to the current set of its counter only.
LEMMA OnePays ==
  ASSUME QuotaTypeOK, RequestsAreInStep, NEW r \in ToolCalls, stage[r] = "charge",
         Increment(r), UNCHANGED <<principal, day>>
  PROVE  \A kd \in Keys \X Days : \A n :
            PaidOn(kd, n)' = IF kd = Counter(r) /\ n = resets[kd]
                             THEN PaidOn(kd, n) \cup {r} ELSE PaidOn(kd, n)
<1>1. \A q \in ToolCalls : Counter(q)' = Counter(q)
  BY DEF Counter, Key
<1>2. r \notin charged /\ charged' = charged \cup {r}
  BY DEF RequestsAreInStep, Increment
<1>3. /\ period'[r] = resets[Counter(r)]
      /\ \A q \in charged : period'[q] = period[q]
  BY <1>2 DEF Increment, QuotaTypeOK
<1>4. QED
  BY <1>1, <1>2, <1>3, KeyTypes DEF PaidOn, QuotaTypeOK

\* The ticket of a charged request is the new size of its paying set.
LEMMA TicketsGrow ==
  ASSUME QuotaTypeOK, QuotaInv, NEW r \in ToolCalls, stage[r] = "charge",
         Increment(r), UNCHANGED <<principal, day>>
  PROVE  TicketsAreSerial'
<1>0. RequestsAreInStep /\ TicketsAreSerial /\ CounterIsExact
  BY DEF QuotaInv, TicketsAreSerial
<1>p. PICK kd \in Keys \X Days, n \in Nat : kd = Counter(r) /\ n = resets[kd]
  BY KeyTypes DEF QuotaTypeOK
<1>1. /\ r \notin charged /\ charged' = charged \cup {r}
      /\ \A q \in ToolCalls : Counter(q)' = Counter(q)
  BY <1>0 DEF RequestsAreInStep, Increment, Counter, Key
<1>2. /\ count'[kd] = count[kd] + 1 /\ seen'[r] = count[kd] + 1
      /\ period'[r] = n /\ resets' = resets
      /\ \A k \in Keys \X Days : k # kd => count'[k] = count[k]
      /\ \A q \in charged : seen'[q] = seen[q] /\ period'[q] = period[q]
  BY <1>p, <1>1 DEF Increment, QuotaTypeOK
<1>3. \A k \in Keys \X Days : \A m :
         PaidOn(k, m)' = IF k = kd /\ m = n THEN PaidOn(k, m) \cup {r} ELSE PaidOn(k, m)
  BY <1>0, <1>p, OnePays
<1>4. \A k \in Keys \X Days : \A m :
         /\ Cardinality(PaidOn(k, m)) \in Nat
         /\ Cardinality(PaidOn(k, m)') =
               IF k = kd /\ m = n THEN Cardinality(PaidOn(k, m)) + 1
                                 ELSE Cardinality(PaidOn(k, m))
  <2>1. \A k, m : r \notin PaidOn(k, m)
    BY <1>1 DEF PaidOn
  <2>2. \A k, m : Cardinality(PaidOn(k, m) \cup {r}) = Cardinality(PaidOn(k, m)) + 1
    BY <2>1, PaidOnFinite, FS_AddElement
  <2>3. QED
    BY <1>3, <2>2, PaidOnFinite
<1>5. CounterIsExact'
  <2>1. ASSUME NEW k \in Keys \X Days
        PROVE  count'[k] = Cardinality(PaidOn(k, resets[k])')
    <3>1. count[k] = Cardinality(PaidOn(k, resets[k])) /\ resets'[k] = resets[k]
      BY <1>0, <1>2 DEF CounterIsExact
    <3>2. PICK m \in Nat : m = resets[k]
      BY DEF QuotaTypeOK
    <3>3. Cardinality(PaidOn(k, m)') = count'[k]
      BY <1>2, <1>4, <1>p, <3>1, <3>2
    <3>4. QED
      BY <1>2, <3>2, <3>3
  <2>2. QED
    BY <2>1 DEF CounterIsExact
<1>6. ASSUME NEW q \in charged'
      PROVE  /\ 1 <= seen'[q]
             /\ seen'[q] <= Cardinality(PaidOn(Counter(q), period[q])')
             /\ period'[q] <= resets'[Counter(q)']
  <2>0. q \in ToolCalls /\ Counter(q) \in Keys \X Days
    BY <1>1, <1>6, KeyTypes DEF QuotaTypeOK
  <2>1. PICK k \in Keys \X Days, m \in Nat : k = Counter(q)' /\ m = period'[q]
    BY <1>1, <1>2, <2>0 DEF QuotaTypeOK
  <2>2. k = Counter(q)
    BY <1>1, <2>0, <2>1
  <2>3. CASE q = r
    <3>1. k = kd /\ m = n
      BY <1>2, <1>p, <2>1, <2>2, <2>3
    <3>2. count[kd] = Cardinality(PaidOn(k, m)) /\ count[kd] \in Nat /\ n \in Nat
      BY <1>0, <1>p, <3>1 DEF CounterIsExact, QuotaTypeOK
    <3>3. Cardinality(PaidOn(k, m)') = seen'[q]
      BY <1>2, <1>4, <2>3, <3>1, <3>2
    <3>4. QED
      BY <1>2, <1>p, <2>1, <2>3, <3>1, <3>2, <3>3
  <2>4. CASE q # r
    <3>1. q \in charged /\ m = period[q]
      BY <1>1, <1>2, <1>6, <2>1, <2>4
    <3>2. /\ 1 <= seen[q] /\ seen[q] <= Cardinality(PaidOn(k, m))
          /\ period[q] <= resets[k]
      BY <1>0, <2>2, <3>1 DEF TicketsAreSerial
    <3>3. Cardinality(PaidOn(k, m)) <= Cardinality(PaidOn(k, m)')
      BY <1>4
    <3>4. seen[q] \in Nat /\ Cardinality(PaidOn(k, m)) \in Nat /\ Cardinality(PaidOn(k, m)') \in Nat
      BY <1>4, <2>0 DEF QuotaTypeOK
    <3>5. QED
      BY <1>2, <2>1, <3>1, <3>2, <3>3, <3>4
  <2>5. QED
    BY <2>3, <2>4
<1>7. ASSUME NEW p \in charged', NEW q \in charged',
             Counter(p)' = Counter(q)', period'[p] = period'[q], seen'[p] = seen'[q]
      PROVE  p = q
  <2>1. \A s \in charged : Counter(s) = kd /\ period[s] = n => seen[s] <= count[kd]
    BY <1>0, <1>p DEF TicketsAreSerial, CounterIsExact
  <2>2. count[kd] \in Nat /\ charged \subseteq ToolCalls
    BY <1>p DEF QuotaTypeOK
  <2>3. \A s \in charged : s # r /\ (Counter(s) = kd /\ period[s] = n => seen'[s] < seen'[r])
    BY <1>1, <1>2, <2>1, <2>2 DEF QuotaTypeOK
  <2>4. CASE p = r \/ q = r
    BY <1>1, <1>2, <1>p, <1>7, <2>2, <2>3, <2>4
  <2>5. CASE p # r /\ q # r
    BY <1>0, <1>1, <1>2, <1>7, <2>2, <2>5 DEF TicketsAreSerial
  <2>6. QED
    BY <2>4, <2>5
<1>8. QED
  BY <1>5, <1>6, <1>7 DEF TicketsAreSerial

\* A step that neither charges nor resets leaves the tickets as they are.
LEMMA TicketsStay ==
  ASSUME QuotaTypeOK, TicketsAreSerial,
         UNCHANGED <<charged, period, seen, count, resets>>,
         \A r \in charged : Counter(r)' = Counter(r)
  PROVE  TicketsAreSerial'
<1>1. \A kd, n : PaidOn(kd, n)' = PaidOn(kd, n)
  BY NobodyPays
<1>2. CounterIsExact'
  <2>1. ASSUME NEW kd \in Keys \X Days
        PROVE  count'[kd] = Cardinality(PaidOn(kd, resets[kd])')
    <3>1. PICK n \in Nat : n = resets[kd] /\ n = resets'[kd]
      BY DEF QuotaTypeOK
    <3>2. QED
      BY <1>1, <3>1 DEF TicketsAreSerial, CounterIsExact
  <2>2. QED
    BY <2>1 DEF CounterIsExact
<1>3. ASSUME NEW r \in charged'
      PROVE  /\ 1 <= seen'[r]
             /\ seen'[r] <= Cardinality(PaidOn(Counter(r), period[r])')
             /\ period'[r] <= resets'[Counter(r)']
  <2>1. PICK kd \in Keys \X Days, n \in Nat :
           kd = Counter(r) /\ kd = Counter(r)' /\ n = period[r] /\ n = period'[r]
    BY <1>3, KeyTypes DEF QuotaTypeOK
  <2>2. QED
    BY <1>1, <2>1 DEF TicketsAreSerial
<1>4. QED
  BY <1>2, <1>3 DEF TicketsAreSerial

\* A reset opens a new period, in which nobody has paid yet.
LEMMA TicketsSurviveReset ==
  ASSUME QuotaTypeOK, TicketsAreSerial, ResetWrites
  PROVE  TicketsAreSerial'
<1>1. PICK t \in Keys \X Days : t = <<target, resetDay>>
  BY CallersAssumption DEF ResetWrites, QuotaTypeOK
<1>2. /\ count'[t] = 0 /\ resets'[t] = resets[t] + 1
      /\ \A kd \in Keys \X Days : kd # t => count'[kd] = count[kd] /\ resets'[kd] = resets[kd]
      /\ UNCHANGED <<charged, period, seen, principal, day>>
  BY <1>1 DEF ResetWrites, QuotaTypeOK
<1>3. \A r \in ToolCalls : Counter(r)' = Counter(r)
  BY <1>2 DEF Counter, Key
<1>4. \A kd, n : PaidOn(kd, n)' = PaidOn(kd, n)
  BY <1>2, <1>3, NobodyPays DEF QuotaTypeOK
<1>5. CounterIsExact'
  <2>1. ASSUME NEW kd \in Keys \X Days
        PROVE  count'[kd] = Cardinality(PaidOn(kd, resets[kd])')
    <3>1. PICK n \in Nat : n = resets'[kd]
      BY <1>2 DEF QuotaTypeOK
    <3>2. CASE kd = t
      <4>1. \A r \in charged : Counter(r) = t => period[r] < n
        BY <1>2, <3>1, <3>2 DEF TicketsAreSerial, QuotaTypeOK
      <4>2. PaidOn(kd, n) = {}
        BY <3>2, <4>1 DEF PaidOn, QuotaTypeOK
      <4>3. QED
        BY <1>2, <1>4, <3>1, <3>2, <4>2, FS_EmptySet
    <3>3. CASE kd # t
      BY <1>2, <1>4, <3>1, <3>3 DEF TicketsAreSerial, CounterIsExact
    <3>4. QED
      BY <3>2, <3>3
  <2>2. QED
    BY <2>1 DEF CounterIsExact
<1>6. ASSUME NEW r \in charged'
      PROVE  /\ 1 <= seen'[r]
             /\ seen'[r] <= Cardinality(PaidOn(Counter(r), period[r])')
             /\ period'[r] <= resets'[Counter(r)']
  <2>0. r \in charged /\ r \in ToolCalls
    BY <1>2, <1>6 DEF QuotaTypeOK
  <2>1. PICK kd \in Keys \X Days, n \in Nat :
           kd = Counter(r) /\ kd = Counter(r)' /\ n = period[r] /\ n = period'[r]
    BY <1>2, <1>3, <2>0, KeyTypes DEF QuotaTypeOK
  <2>2. n <= resets'[kd]
    <3>1. n <= resets[kd] /\ resets[kd] \in Nat
      BY <2>0, <2>1 DEF TicketsAreSerial, QuotaTypeOK
    <3>2. resets'[kd] = resets[kd] \/ resets'[kd] = resets[kd] + 1
      BY <1>2
    <3>3. QED
      BY <3>1, <3>2
  <2>3. 1 <= seen[r] /\ seen[r] <= Cardinality(PaidOn(kd, n)')
    BY <1>4, <2>0, <2>1 DEF TicketsAreSerial
  <2>4. QED
    BY <1>2, <2>1, <2>2, <2>3
<1>7. QED
  BY <1>2, <1>3, <1>5, <1>6 DEF TicketsAreSerial, QuotaTypeOK

-----------------------------------------------------------------------------
(* The inductive invariant.                                                *)

\* Every step of a request keeps the invariant.
LEMMA RequestKeepsInv ==
  ASSUME QuotaTypeOK, QuotaInv, NEW r \in ToolCalls, Request(r)
  PROVE  QuotaInv'
<1> USE DEF QuotaInv
<1>1. ASSUME NEW p \in {Anon, Caller[r]}, Enter(r, p) PROVE QuotaInv'
  <2>1. r \notin charged /\ UNCHANGED <<charged, period, seen, count, resets>>
    BY <1>1 DEF Enter, historyVars, RequestsAreInStep
  <2>2. \A q \in charged : Counter(q)' = Counter(q)
    BY <1>1, <2>1 DEF Enter, Counter, Key, QuotaTypeOK
  <2>3. TicketsAreSerial'
    BY <2>1, <2>2, TicketsStay
  <2>4. RequestsAreInStep'
    <3>1. /\ stage[r] = "new" /\ stage' = [stage EXCEPT ![r] = "charge"]
          /\ principal' = [principal EXCEPT ![r] = p]
          /\ UNCHANGED <<answer, scheduled>>
      BY <1>1 DEF Enter
    <3>2. principal'[r] = p /\ \A q \in ToolCalls \ {r} : principal'[q] = principal[q]
      BY <3>1 DEF QuotaTypeOK
    <3>3. \A q \in ToolCalls \ {r} : Limit(q)' = Limit(q)
      BY <3>2 DEF Limit
    <3>4. stage'[r] = "charge" /\ answer[r] = "None" /\ r \notin scheduled
      BY <3>1 DEF RequestsAreInStep, QuotaTypeOK
    <3>5. \A q \in ToolCalls \ {r} : stage'[q] = stage[q]
      BY <3>1 DEF QuotaTypeOK
    <3>6. QED
      BY <1>1, <2>1, <3>1, <3>2, <3>3, <3>4, <3>5 DEF RequestsAreInStep
  <2>5. QED
    BY <2>3, <2>4
<1>2. CASE Charge(r)
  <2>1. TicketsAreSerial'
    BY <1>2, TicketsGrow DEF Charge
  <2>2. \A q \in ToolCalls : Limit(q)' = Limit(q)
    BY <1>2 DEF Charge, Limit
  <2>3. RequestsAreInStep'
    <3>1. PICK n \in Nat : n = count[Counter(r)]
      BY KeyTypes DEF QuotaTypeOK
    <3>2. seen' = [seen EXCEPT ![r] = n + 1] /\ charged' = charged \cup {r}
      BY <1>2, <3>1 DEF Charge, Increment
    <3>3. \/ n + 1 <= Limit(r) /\ stage' = [stage EXCEPT ![r] = "work"] /\ answer' = answer
          \/ /\ n + 1 > Limit(r)
             /\ stage' = [stage EXCEPT ![r] = "done"]
             /\ answer' = [answer EXCEPT ![r] = "Refused"]
      BY <1>2, <3>1, KeyTypes DEF Charge, Within, Finish
    <3>4. UNCHANGED <<principal, scheduled>> /\ stage[r] = "charge"
      BY <1>2 DEF Charge
    <3>5. QED
      BY <2>2, <3>2, <3>3, <3>4 DEF RequestsAreInStep, QuotaTypeOK
  <2>4. QED
    BY <2>1, <2>3
<1>3. CASE ChargeFails(r)
  <2>1. TicketsAreSerial'
    <3>1. CASE Increment(r)
      BY <1>3, <3>1, TicketsGrow DEF ChargeFails
    <3>2. CASE UNCHANGED <<count, seen, historyVars>>
      BY <1>3, <3>2, TicketsStay DEF ChargeFails, historyVars, Counter, Key
    <3>3. QED
      BY <1>3, <3>1, <3>2 DEF ChargeFails
  <2>2. RequestsAreInStep'
    <3>1. /\ charged' \in {charged, charged \cup {r}}
          /\ \A q \in ToolCalls : q # r => seen'[q] = seen[q]
      BY <1>3 DEF ChargeFails, Increment, historyVars, QuotaTypeOK
    <3>2. QED
      BY <1>3, <3>1 DEF ChargeFails, Finish, RequestsAreInStep, QuotaTypeOK, Limit
  <2>3. QED
    BY <2>1, <2>2
<1>4. CASE WorkFails(r) \/ WorkSucceeds(r)
  <2>1. UNCHANGED <<charged, period, seen, count, resets, principal, day>>
    BY <1>4 DEF WorkFails, WorkSucceeds, historyVars
  <2>2. TicketsAreSerial'
    BY <2>1, TicketsStay DEF Counter, Key
  <2>3. RequestsAreInStep'
    BY <1>4, <2>1 DEF WorkFails, WorkSucceeds, Finish, RequestsAreInStep, QuotaTypeOK, Limit
  <2>4. QED
    BY <2>2, <2>3
<1>5. QED
  BY <1>1, <1>2, <1>3, <1>4 DEF Request, Resolve, ResolveDegraded

\* Tickets are serial and requests in step in every reachable state.
THEOREM QuotaAlwaysInv == QuotaSpec => []QuotaInv
<1>1. QuotaInit => QuotaInv
  <2> SUFFICES ASSUME QuotaInit PROVE QuotaInv
    OBVIOUS
  <2>1. \A kd, n : PaidOn(kd, n) = {}
    BY DEF QuotaInit, PaidOn
  <2>2. TicketsAreSerial
    BY <2>1, FS_EmptySet DEF QuotaInit, TicketsAreSerial, CounterIsExact
  <2>3. RequestsAreInStep
    BY DEF QuotaInit, RequestsAreInStep
  <2>4. QED
    BY <2>2, <2>3 DEF QuotaInv
<1>2. ASSUME QuotaTypeOK, QuotaInv, [QuotaNext]_quotaVars PROVE QuotaInv'
  <2>1. CASE \E r \in ToolCalls : Request(r)
    BY <1>2, <2>1, RequestKeepsInv
  <2>2. CASE (\E k \in Keys : ResetReads(k)) \/ Crash \/ Midnight \/ UNCHANGED quotaVars
    <3>1. UNCHANGED <<charged, period, seen, count, resets, principal, day, scheduled>>
      BY <2>2 DEF ResetReads, Crash, Midnight, quotaVars, historyVars
    <3>2. TicketsAreSerial'
      BY <1>2, <3>1, TicketsStay DEF QuotaInv, Counter, Key
    <3>3. \/ UNCHANGED <<stage, answer>>
          \/ /\ stage' = [r \in ToolCalls |-> IF stage[r] = "new" THEN "new" ELSE "done"]
             /\ answer' = [r \in ToolCalls |->
                             IF stage[r] \in {"charge", "work"} THEN "Lost" ELSE answer[r]]
      BY <2>2 DEF ResetReads, Crash, Midnight, quotaVars
    <3>4. RequestsAreInStep'
      BY <1>2, <3>1, <3>3 DEF QuotaInv, RequestsAreInStep, QuotaTypeOK, Limit
    <3>5. QED
      BY <3>2, <3>4 DEF QuotaInv
  <2>3. CASE ResetWrites
    <3>1. TicketsAreSerial'
      BY <1>2, <2>3, TicketsSurviveReset DEF QuotaInv
    <3>2. RequestsAreInStep'
      BY <1>2, <2>3 DEF QuotaInv, RequestsAreInStep, ResetWrites, Limit
    <3>3. QED
      BY <3>1, <3>2 DEF QuotaInv
  <2>4. QED
    BY <1>2, <2>1, <2>2, <2>3 DEF QuotaNext
<1>3. QED
  BY <1>1, <1>2, QuotaTypeCorrect, PTL DEF QuotaSpec

-----------------------------------------------------------------------------
(* The properties.                                                         *)

\* A set of requests with distinct tickets between 1 and n has at most n
\* members.
LEMMA DistinctTickets ==
  ASSUME QuotaTypeOK, NEW S \in SUBSET ToolCalls, NEW n \in Nat,
         \A r \in S : seen[r] \in 1..n,
         \A q, r \in S : seen[q] = seen[r] => q = r
  PROVE  Cardinality(S) <= n
<1>1. IsFiniteSet(S) /\ Cardinality(S) \in Nat
  BY CallersAssumption, FS_Subset, FS_CardinalityType
<1>2. IsFiniteSet(1..n) /\ Cardinality(1..n) = n
  BY FS_Interval
<1>3. SUFFICES ASSUME n < Cardinality(S) PROVE FALSE
  BY <1>1
<1> DEFINE f == [r \in S |-> seen[r]]
<1>4. f \in [S -> 1..n]
  OBVIOUS
<1>5. \E q, r \in S : q # r /\ f[q] = f[r]
  <2> HIDE DEF f
  <2> QED
    BY <1>1, <1>2, <1>3, <1>4, FS_PigeonHole
<1>6. QED
  BY <1>5

\* Between two resets no counter ever admits more than its limit.
THEOREM LimitHolds == QuotaSpec => []AtMostLimitAdmitted
<1>1. QuotaTypeOK /\ QuotaInv => AtMostLimitAdmitted
  <2> SUFFICES ASSUME QuotaTypeOK, QuotaInv, NEW kd \in Keys \X Days, NEW n \in 0..MaxResets
               PROVE  Cardinality(PaidOn(kd, n) \cap Admitted) <= LimitOf(kd[1])
    BY DEF AtMostLimitAdmitted
  <2> DEFINE S == PaidOn(kd, n) \cap Admitted
  <2>1. S \in SUBSET ToolCalls
    BY DEF PaidOn, QuotaTypeOK
  <2>2. \A r \in S : Limit(r) = LimitOf(kd[1])
    BY <2>1, CallersAssumption DEF PaidOn, Counter, Key, Keys, Limit, LimitOf, QuotaTypeOK
  <2>3. \A r \in S : seen[r] <= Limit(r)
    BY <2>1 DEF QuotaInv, RequestsAreInStep, Admitted
  <2>4. \A r \in S : 1 <= seen[r] /\ seen[r] \in Nat
    BY <2>1 DEF QuotaInv, TicketsAreSerial, PaidOn, QuotaTypeOK
  <2>5. \A q, r \in S : seen[q] = seen[r] => q = r
    BY DEF QuotaInv, TicketsAreSerial, PaidOn
  <2>6. LimitOf(kd[1]) \in Nat
    BY LimitsAssumption DEF LimitOf
  <2>7. \A r \in S : seen[r] \in 1..LimitOf(kd[1])
    BY <2>2, <2>3, <2>4, <2>6
  <2> HIDE DEF S
  <2>8. QED
    BY <2>1, <2>5, <2>6, <2>7, DistinctTickets DEF S
<1>2. QED
  BY <1>1, QuotaTypeCorrect, QuotaAlwaysInv, PTL

\* Nobody is refused while the limit of its counter has not been used up.
THEOREM RefusalsAreDue == QuotaSpec => []NobodyIsRefusedEarly
<1>1. QuotaTypeOK /\ QuotaInv => NobodyIsRefusedEarly
  <2> SUFFICES ASSUME QuotaTypeOK, QuotaInv, NEW r \in ToolCalls, answer[r] = "Refused"
               PROVE  Cardinality(PaidOn(Counter(r), period[r])) > Limit(r)
    BY DEF NobodyIsRefusedEarly
  <2>1. r \in charged /\ seen[r] > Limit(r)
    BY DEF QuotaInv, RequestsAreInStep
  <2>2. seen[r] <= Cardinality(PaidOn(Counter(r), period[r]))
    BY <2>1 DEF QuotaInv, TicketsAreSerial
  <2>3. QED
    BY <2>1, <2>2, KeyTypes, PaidOnFinite DEF QuotaTypeOK
<1>2. QED
  BY <1>1, QuotaTypeCorrect, QuotaAlwaysInv, PTL

\* The counter is the number of requests charged since its last reset.
THEOREM CounterAlwaysExact == QuotaSpec => []CounterIsExact
<1>1. QuotaInv => CounterIsExact
  BY DEF QuotaInv, TicketsAreSerial
<1>2. QED
  BY <1>1, QuotaAlwaysInv, PTL

\* A recorded run was paid for by the account whose history it enters.
THEOREM HistoryAlwaysPaidFor == QuotaSpec => []HistoryIsPaidFor
<1>1. QuotaTypeOK /\ QuotaInv => HistoryIsPaidFor
  BY DEF QuotaInv, RequestsAreInStep, HistoryIsPaidFor, Key, Limit, QuotaTypeOK
<1>2. QED
  BY <1>1, QuotaTypeCorrect, QuotaAlwaysInv, PTL

-----------------------------------------------------------------------------
(* The refinement of QuotaBook.                                            *)

\* A step that charges nobody and resets nothing leaves the books as they are.
LEMMA BooksStay ==
  ASSUME QuotaTypeOK, UNCHANGED <<charged, period, resets>>,
         \A r \in charged : Counter(r)' = Counter(r)
  PROVE  OnBook' = OnBook
<1>1. \A kd, n : PaidOn(kd, n)' = PaidOn(kd, n)
  BY NobodyPays
<1>2. ASSUME NEW kd \in Keys \X Days
      PROVE  PaidOn(kd, resets[kd])' = PaidOn(kd, resets[kd])
  <2>1. PICK n \in Nat : n = resets[kd] /\ n = resets'[kd]
    BY DEF QuotaTypeOK
  <2>2. QED
    BY <1>1, <2>1
<1>3. QED
  BY <1>2 DEF OnBook

\* An increment is one entry in one book; the number it returns counts the
\* requests that stood there before.
LEMMA OneEntry ==
  ASSUME QuotaTypeOK, QuotaInv, NEW r \in ToolCalls, stage[r] = "charge",
         Increment(r), UNCHANGED <<principal, day>>
  PROVE  /\ OnBook' = [OnBook EXCEPT ![Counter(r)] = @ \cup {r}]
         /\ Cardinality(OnBook[Counter(r)]) = count[Counter(r)]
         /\ Verdict(r) = "none"
<1>1. PICK c \in Keys \X Days : c = Counter(r)
  BY KeyTypes
<1>2. \A kd \in Keys \X Days : \A n :
         PaidOn(kd, n)' = IF kd = c /\ n = resets[kd]
                          THEN PaidOn(kd, n) \cup {r} ELSE PaidOn(kd, n)
  BY <1>1, OnePays DEF QuotaInv
<1>3. ASSUME NEW kd \in Keys \X Days
      PROVE  PaidOn(kd, resets[kd])' =
                IF kd = c THEN PaidOn(kd, resets[kd]) \cup {r} ELSE PaidOn(kd, resets[kd])
  <2>1. PICK n \in Nat : n = resets[kd] /\ n = resets'[kd]
    BY DEF QuotaTypeOK, Increment
  <2>2. QED
    BY <1>2, <2>1
<1>4. OnBook' = [OnBook EXCEPT ![c] = @ \cup {r}]
  BY <1>3 DEF OnBook
<1>5. Cardinality(OnBook[c]) = count[c]
  BY DEF OnBook, QuotaInv, TicketsAreSerial, CounterIsExact
<1>6. r \notin charged
  BY DEF QuotaInv, RequestsAreInStep
<1>7. QED
  BY <1>1, <1>4, <1>5, <1>6 DEF Verdict, Admitted

\* An increment, with the verdict that its request gets, is an entry.
LEMMA EntryIsAbstract ==
  ASSUME QuotaTypeOK, QuotaInv, NEW r \in ToolCalls, stage[r] = "charge",
         Increment(r), UNCHANGED <<principal, day>>,
         NEW v, Verdict(r)' = v,
         \A q \in ToolCalls \ {r} : stage'[q] = stage[q] /\ answer'[q] = answer[q]
  PROVE  Book!EnterAs(r, Counter(r), v)
<1>1. \A q \in ToolCalls \ {r} : Verdict(q)' = Verdict(q)
  BY DEF Verdict, Admitted, Increment
<1>2. Verdicts' = [Verdicts EXCEPT ![r] = v]
  BY <1>1 DEF Verdicts
<1>3. QED
  BY <1>2, OneEntry DEF Book!EnterAs, Verdicts

\* The limit a request is compared with is the one of the book it is entered in.
LEMMA SameLimit ==
  ASSUME QuotaTypeOK, NEW r \in ToolCalls
  PROVE  Limits[Counter(r)] = Limit(r)
  BY KeyTypes, CallersAssumption DEF Limits, LimitOf, Counter, Key, Keys, Limit, QuotaTypeOK

\* The book counts as this module does.
LEMMA SameCount == \A S : Book!Cardinality(S) = Cardinality(S)
  BY DEF Cardinality, Book!Cardinality

\* What a request does is a step of the book, or nothing.
LEMMA RequestIsAbstract ==
  ASSUME QuotaTypeOK, QuotaInv, NEW r \in ToolCalls, Request(r)
  PROVE  Book!Next \/ UNCHANGED <<OnBook, Verdicts>>
<1>1. Counter(r) \in Keys \X Days /\ Limit(r) \in Nat /\ count[Counter(r)] \in Nat
  BY KeyTypes DEF QuotaTypeOK
<1>2. ASSUME NEW p \in {Anon, Caller[r]}, Enter(r, p)
      PROVE  UNCHANGED <<OnBook, Verdicts>>
  <2>1. r \notin charged /\ UNCHANGED <<charged, period, resets, answer>>
    BY <1>2 DEF Enter, historyVars, QuotaInv, RequestsAreInStep
  <2>2. \A q \in charged : Counter(q)' = Counter(q) /\ stage'[q] = stage[q]
    BY <1>2, <2>1 DEF Enter, Counter, Key, QuotaTypeOK
  <2>3. \A q \in ToolCalls : Verdict(q)' = Verdict(q)
    BY <2>1, <2>2 DEF Verdict, Admitted
  <2>4. QED
    BY <2>1, <2>2, <2>3, BooksStay DEF Verdicts
<1>3. CASE Charge(r)
  <2>1. /\ stage[r] = "charge" /\ Increment(r) /\ UNCHANGED <<principal, day>>
        /\ \A q \in ToolCalls \ {r} : stage'[q] = stage[q] /\ answer'[q] = answer[q]
        /\ r \in charged'
    BY <1>3 DEF Charge, Increment, Finish, QuotaTypeOK
  <2>2. CASE count[Counter(r)] + 1 <= Limit(r)
    <3>1. stage'[r] = "work" /\ answer'[r] = "None"
      BY <1>3, <2>2 DEF Charge, Within, QuotaTypeOK, QuotaInv, RequestsAreInStep
    <3>2. Verdict(r)' = "admitted"
      BY <2>1, <3>1 DEF Verdict, Admitted
    <3>3. Book!HasRoom(Counter(r))
      BY <1>1, <2>1, <2>2, OneEntry, SameLimit, SameCount DEF Book!HasRoom
    <3>4. QED
      BY <1>1, <2>1, <3>2, <3>3, EntryIsAbstract DEF Book!Next, Book!Admit
  <2>3. CASE ~(count[Counter(r)] + 1 <= Limit(r))
    <3>1. answer'[r] = "Refused" /\ stage'[r] = "done"
      BY <1>3, <2>3 DEF Charge, Within, Finish, QuotaTypeOK
    <3>2. Verdict(r)' = "refused"
      BY <2>1, <3>1 DEF Verdict, Admitted
    <3>3. ~Book!HasRoom(Counter(r))
      BY <1>1, <2>1, <2>3, OneEntry, SameLimit, SameCount DEF Book!HasRoom
    <3>4. QED
      BY <1>1, <2>1, <3>2, <3>3, EntryIsAbstract DEF Book!Next, Book!Refuse
  <2>4. QED
    BY <2>2, <2>3
<1>4. CASE ChargeFails(r)
  <2>1. /\ stage[r] = "charge" /\ UNCHANGED <<principal, day>>
        /\ \A q \in ToolCalls \ {r} : stage'[q] = stage[q] /\ answer'[q] = answer[q]
        /\ stage'[r] = "done" /\ answer'[r] = "ServerError"
    BY <1>4 DEF ChargeFails, Finish, QuotaTypeOK
  <2>2. CASE Increment(r)
    <3>1. Verdict(r)' = "lost"
      BY <2>1, <2>2 DEF Verdict, Admitted, Increment
    <3>2. QED
      BY <1>1, <2>1, <2>2, <3>1, EntryIsAbstract DEF Book!Next, Book!Lose
  <2>3. CASE UNCHANGED <<count, seen, historyVars>>
    <3>1. r \notin charged /\ UNCHANGED <<charged, period, resets>>
      BY <2>1, <2>3 DEF historyVars, QuotaInv, RequestsAreInStep
    <3>2. \A q \in ToolCalls : Counter(q)' = Counter(q) /\ Verdict(q)' = Verdict(q)
      BY <2>1, <3>1 DEF Counter, Key, Verdict, Admitted
    <3>3. QED
      BY <3>1, <3>2, BooksStay DEF Verdicts, QuotaTypeOK
  <2>4. QED
    BY <1>4, <2>2, <2>3 DEF ChargeFails
<1>5. CASE WorkFails(r) \/ WorkSucceeds(r)
  <2>1. /\ UNCHANGED <<charged, period, resets, principal, day>> /\ stage[r] = "work"
        /\ answer'[r] \in {"OK", "ToolError"}
        /\ \A q \in ToolCalls \ {r} : stage'[q] = stage[q] /\ answer'[q] = answer[q]
    BY <1>5 DEF WorkFails, WorkSucceeds, Finish, historyVars, QuotaTypeOK
  <2>2. answer[r] = "None"
    BY <2>1 DEF QuotaInv, RequestsAreInStep
  <2>3. \A q \in ToolCalls : Counter(q)' = Counter(q) /\ Verdict(q)' = Verdict(q)
    BY <2>1, <2>2 DEF Counter, Key, Verdict, Admitted
  <2>4. QED
    BY <2>1, <2>3, BooksStay DEF Verdicts, QuotaTypeOK
<1>6. QED
  BY <1>2, <1>3, <1>4, <1>5 DEF Request, Resolve, ResolveDegraded

\* A crash takes the verdicts of the requests at work, and no entry.
LEMMA CrashIsAbstract ==
  ASSUME QuotaTypeOK, QuotaInv, Crash
  PROVE  Book!Next
<1> DEFINE S == {r \in charged : stage[r] = "work"}
<1>1. /\ UNCHANGED <<charged, period, resets, principal, day>>
      /\ \A r \in ToolCalls : /\ stage'[r] = IF stage[r] = "new" THEN "new" ELSE "done"
                         /\ answer'[r] = IF stage[r] \in {"charge", "work"}
                                         THEN "Lost" ELSE answer[r]
  BY DEF Crash, historyVars
<1>2. OnBook' = OnBook
  BY <1>1, BooksStay DEF Counter, Key
<1>3. \A r \in S : Verdict(r) = "admitted"
  BY DEF Verdict, Admitted, QuotaInv, RequestsAreInStep, QuotaTypeOK
<1>4. \A r \in S : Verdict(r)' = "lost"
  BY <1>1 DEF Verdict, Admitted, QuotaTypeOK
<1>5. ASSUME NEW r \in ToolCalls \ S PROVE Verdict(r)' = Verdict(r)
  <2>1. CASE r \notin charged
    BY <1>1, <2>1 DEF Verdict, Admitted
  <2>2. CASE r \in charged
    <3>1. stage[r] = "done"
      BY <1>5, <2>2 DEF QuotaInv, RequestsAreInStep, QuotaTypeOK
    <3>2. answer'[r] = answer[r] /\ stage'[r] = "done"
      BY <1>1, <1>5, <3>1
    <3>3. QED
      BY <1>1, <3>1, <3>2 DEF Verdict, Admitted
  <2>3. QED
    BY <2>1, <2>2
<1>6. S \in SUBSET ToolCalls
  BY DEF QuotaTypeOK
<1>7. Verdicts' = [r \in ToolCalls |-> IF r \in S THEN "lost" ELSE Verdicts[r]]
  BY <1>4, <1>5 DEF Verdicts
<1>8. \A r \in S : Verdicts[r] = "admitted"
  BY <1>3, <1>6 DEF Verdicts
<1>9. Book!Die(S)
  BY <1>2, <1>7, <1>8 DEF Book!Die
<1>10. QED
  BY <1>6, <1>9 DEF Book!Next

\* A reset, when it is written, opens an empty book and touches no other.
LEMMA ResetIsAbstract ==
  ASSUME QuotaTypeOK, QuotaInv, ResetWrites
  PROVE  Book!Next
<1>1. PICK t \in Keys \X Days : t = <<target, resetDay>>
  BY CallersAssumption DEF ResetWrites, QuotaTypeOK
<1>2. /\ resets'[t] = resets[t] + 1
      /\ \A kd \in Keys \X Days : kd # t => resets'[kd] = resets[kd]
      /\ UNCHANGED <<charged, period, principal, day, stage, answer>>
  BY <1>1 DEF ResetWrites, QuotaTypeOK
<1>3. \A r \in ToolCalls : Counter(r)' = Counter(r) /\ Verdict(r)' = Verdict(r)
  BY <1>2 DEF Counter, Key, Verdict, Admitted
<1>4. \A kd, n : PaidOn(kd, n)' = PaidOn(kd, n)
  BY <1>2, <1>3, NobodyPays DEF QuotaTypeOK
<1>5. ASSUME NEW kd \in Keys \X Days
      PROVE  PaidOn(kd, resets[kd])' = IF kd = t THEN {} ELSE PaidOn(kd, resets[kd])
  <2>1. PICK n \in Nat : n = resets'[kd]
    BY <1>2 DEF QuotaTypeOK
  <2>2. CASE kd = t
    <3>1. \A r \in charged : Counter(r) = t => period[r] < n
      BY <1>2, <2>1, <2>2 DEF QuotaInv, TicketsAreSerial, QuotaTypeOK
    <3>2. PaidOn(kd, n) = {}
      BY <2>2, <3>1 DEF PaidOn, QuotaTypeOK
    <3>3. QED
      BY <1>4, <2>1, <2>2, <3>2
  <2>3. CASE kd # t
    BY <1>2, <1>4, <2>1, <2>3
  <2>4. QED
    BY <2>2, <2>3
<1>6. OnBook' = [OnBook EXCEPT ![t] = {}]
  BY <1>5 DEF OnBook
<1>7. Verdicts' = Verdicts
  BY <1>3 DEF Verdicts
<1>8. QED
  BY <1>1, <1>6, <1>7 DEF Book!Next, Book!Reset

\* The guard, the upsert and the reset, one after the other and by whomever,
\* implement the book.
THEOREM QuotaIsABook == QuotaSpec => ImplementsBook
<1>1. QuotaInit => Book!Init
  <2> SUFFICES ASSUME QuotaInit PROVE Book!Init
    OBVIOUS
  <2>1. OnBook = [kd \in Keys \X Days |-> {}]
    BY DEF QuotaInit, OnBook, PaidOn
  <2>2. Verdicts = [r \in ToolCalls |-> "none"]
    BY DEF QuotaInit, Verdicts, Verdict, Admitted
  <2>3. QED
    BY <2>1, <2>2 DEF Book!Init
<1>2. ASSUME QuotaTypeOK, QuotaInv, [QuotaNext]_quotaVars
      PROVE  [Book!Next]_<<OnBook, Verdicts>>
  <2>1. CASE \E r \in ToolCalls : Request(r)
    BY <1>2, <2>1, RequestIsAbstract
  <2>2. CASE (\E k \in Keys : ResetReads(k)) \/ Midnight \/ UNCHANGED quotaVars
    <3>1. UNCHANGED <<charged, period, resets, principal, day, stage, answer>>
      BY <2>2 DEF ResetReads, Midnight, quotaVars, historyVars
    <3>2. \A r \in ToolCalls : Counter(r)' = Counter(r) /\ Verdict(r)' = Verdict(r)
      BY <3>1 DEF Counter, Key, Verdict, Admitted
    <3>3. QED
      BY <1>2, <3>1, <3>2, BooksStay DEF Verdicts, QuotaTypeOK
  <2>3. CASE ResetWrites
    BY <1>2, <2>3, ResetIsAbstract
  <2>4. CASE Crash
    BY <1>2, <2>4, CrashIsAbstract
  <2>5. QED
    BY <1>2, <2>1, <2>2, <2>3, <2>4 DEF QuotaNext
<1>3. QED
  BY <1>1, <1>2, QuotaTypeCorrect, QuotaAlwaysInv, PTL DEF QuotaSpec, ImplementsBook, Book!Spec
=============================================================================
