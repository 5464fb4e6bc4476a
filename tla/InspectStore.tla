---------------------------- MODULE InspectStore ----------------------------
(***************************************************************************)
(* The in-memory store behind Inspect Sheets: preview_workbook puts a      *)
(* parsed workbook under a fresh token, page_sheet reads it back.  The     *)
(* server is one event loop and no critical section of the store awaits    *)
(* anything, so its asyncio lock is never contended and each request's     *)
(* work on the dictionary is one step.                                     *)
(*                                                                         *)
(* Entries carry the time of their last use.  Two uses never carry the     *)
(* same time, so the times are modelled by what the code does with them:   *)
(* their order (eviction takes the oldest) and, at a coarser grain, their  *)
(* distance from the present (an entry expires).                           *)
(***************************************************************************)
EXTENDS Integers, FiniteSets

CONSTANTS
    Tokens,     \* tokens that uploads will draw (token_urlsafe: all fresh)
    Size,       \* Size[t]: _estimate_size of the workbook
    MaxStore,   \* _MAX_STORE
    MaxBytes,   \* _MAX_TOTAL_BYTES
    TTL,        \* _TTL_SECONDS
    MaxTime     \* bound on the clock

ASSUME StoreAssumption ==
    /\ Size \in [Tokens -> Nat]
    /\ MaxStore \in Nat \ {0} /\ MaxBytes \in Nat
    /\ TTL \in Nat /\ MaxTime \in Nat

VARIABLES
    store,      \* the tokens in _WORKBOOK_STORE
    later,      \* later[t]: the tokens whose last use has a later time than t's
    stamp,      \* stamp[t]: the time of the last use of t, to the coarser grain
    clock,
    uploaded,   \* history: tokens handed out
    newer,      \* history: tokens answered for since t was last
    wiped       \* history: tokens handed out before a restart

vars == <<store, later, stamp, clock, uploaded, newer, wiped>>

TypeOK ==
    /\ store \subseteq uploaded
    /\ later \in [Tokens -> SUBSET uploaded]
    /\ stamp \in [Tokens -> 0..clock]
    /\ clock \in 0..MaxTime
    /\ uploaded \subseteq Tokens
    /\ newer \in [Tokens -> SUBSET uploaded]
    /\ wiped \subseteq uploaded

Init ==
    /\ store = {}
    /\ later = [t \in Tokens |-> {}]
    /\ stamp = [t \in Tokens |-> 0]
    /\ clock = 0
    /\ uploaded = {}
    /\ newer = [t \in Tokens |-> {}]
    /\ wiped = {}

-----------------------------------------------------------------------------
(* The helpers of _store.py.                                               *)

Expired(t) == clock - stamp[t] > TTL

\* _evict_expired.
Unexpired == {t \in store : ~Expired(t)}

\* _current_total_bytes: the bytes of the workbooks of S, counted.
Bytes(S) == Cardinality(UNION {{t} \X (1..Size[t]) : t \in S})

\* The test of the eviction loop: a new entry of n bytes does not fit.
TooFull(S, n) == Cardinality(S) >= MaxStore \/ Bytes(S) + n > MaxBytes

\* _evict_oldest(1) until the new entry fits or nothing is left: an entry goes
\* as long as it, and those used later, leave no room.
EvictFor(n, S) == {t \in S : ~TooFull({t} \cup (S \cap later[t]), n)}

\* The last use of t is now: it is later than all others.
MovedLast(order, t) ==
    [u \in Tokens |-> IF u = t \/ u \notin uploaded THEN {} ELSE order[u] \cup {t}]

\* An entry of t with the present time, answered with.
Use(t, S) ==
    /\ store' = S \cup {t}
    /\ later' = MovedLast(later, t)
    /\ stamp' = [stamp EXCEPT ![t] = clock]
    /\ newer' = MovedLast(newer, t)

-----------------------------------------------------------------------------

\* preview_workbook, store_workbook: the one place that makes room.
StoreWorkbook(t) ==
    /\ t \notin uploaded
    /\ Use(t, EvictFor(Size[t], Unexpired))
    /\ uploaded' = uploaded \cup {t}
    /\ UNCHANGED <<clock, wiped>>

\* Variant for a mutation: a page does not count as a use.
LoadKeepsPlace(t) ==
    /\ t \in store /\ ~Expired(t)
    /\ newer' = MovedLast(newer, t)
    /\ UNCHANGED <<store, later, stamp, clock, uploaded, wiped>>

\* Variant for a mutation: expired entries are served as long as they are there.
LoadRevives(t) ==
    /\ t \in store
    /\ Use(t, store)
    /\ UNCHANGED <<clock, uploaded, wiped>>

\* page_sheet, load_workbook: the entry is there, a page is served.
LoadWorkbook(t) ==
    /\ t \in store /\ ~Expired(t)
    /\ Use(t, store)
    /\ UNCHANGED <<clock, uploaded, wiped>>

\* page_sheet, load_workbook: 404, "Token expired".
LoadExpired(t) ==
    /\ t \in store /\ Expired(t)
    /\ store' = store \ {t}
    /\ UNCHANGED <<later, stamp, clock, uploaded, newer, wiped>>

\* page_sheet, load_workbook: 404, "Unknown or expired token".
LoadUnknown(t) ==
    /\ t \in uploaded \ store
    /\ UNCHANGED vars

\* The process is restarted: the module's dictionary is empty again.
Restart ==
    /\ store' = {}
    /\ wiped' = uploaded
    /\ UNCHANGED <<later, stamp, clock, uploaded, newer>>

Tick ==
    /\ clock < MaxTime
    /\ clock' = clock + 1
    /\ UNCHANGED <<store, later, stamp, uploaded, newer, wiped>>

Next ==
    \/ \E t \in Tokens :
          StoreWorkbook(t) \/ LoadWorkbook(t) \/ LoadExpired(t) \/ LoadUnknown(t)
    \/ Restart
    \/ Tick

Spec == Init /\ [][Next]_vars

-----------------------------------------------------------------------------

\* The two budgets of the store hold after any sequence of uploads and pages.
\* Only a workbook that alone exceeds the byte budget is kept over it, and then
\* it is the only one.
WithinBudget ==
    /\ Cardinality(store) <= MaxStore
    /\ Bytes(store) > MaxBytes => Cardinality(store) = 1

\* What a client may rely on: a workbook it used less than the time-to-live ago
\* is there, unless the server restarted, or the workbooks used since (by
\* anybody) leave no room for it in one of the budgets.  Reading a page counts
\* as a use; a request that ends in 404, and a workbook that expired, do not
\* push anything out.
RecentlyUsedStays ==
    \A t \in uploaded \ wiped :
       LET rivals == newer[t] \cup {t} IN
          \/ t \in store
          \/ Expired(t)
          \/ Cardinality(rivals) > MaxStore
          \/ Bytes(rivals) > MaxBytes

Answerable(t) == t \in store /\ ~Expired(t)

\* A token that once answers 404 answers 404 for ever: neither an upload nor a
\* page request revives a workbook that expired but is still in memory.
DeadStaysDead ==
    [][\A t \in uploaded : ~Answerable(t) => ~Answerable(t)']_vars

\* The cache never outgrows either budget, and gives up the least recently used
\* workbooks only: what a caller may count on between two of its requests.
StoreInv == TypeOK /\ WithinBudget /\ RecentlyUsedStays
=============================================================================
