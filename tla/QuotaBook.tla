----------------------------- MODULE QuotaBook -----------------------------
(***************************************************************************)
(* What the daily quota promises of the counter of a caller and a day: it  *)
(* is a book in which each request is entered at one instant, together     *)
(* with its verdict, and the verdict goes by the requests that stand in    *)
(* the book at that instant.                                               *)
(*                                                                         *)
(*     none -> admitted -> lost          none -> refused      none -> lost *)
(*                                                                         *)
(* A request that died, or whose answer did, stays in the book; only an    *)
(* administrator's reset strikes entries, all of one book at once.         *)
(***************************************************************************)
EXTENDS Naturals, FiniteSets

CONSTANTS
    Reqs,       \* requests
    Counters,   \* a key and a day each
    limit       \* limit[c]: the daily limit of the tier that counter c is of

VARIABLES
    book,       \* book[c]: the requests entered in c since its last reset
    verdict     \* verdict[r]: what became of request r

Init ==
    /\ book = [c \in Counters |-> {}]
    /\ verdict = [r \in Reqs |-> "none"]

HasRoom(c) == Cardinality(book[c]) < limit[c]

EnterAs(r, c, v) ==
    /\ verdict[r] = "none"
    /\ book' = [book EXCEPT ![c] = @ \cup {r}]
    /\ verdict' = [verdict EXCEPT ![r] = v]

Admit(r, c) == HasRoom(c) /\ EnterAs(r, c, "admitted")

Refuse(r, c) == ~HasRoom(c) /\ EnterAs(r, c, "refused")

\* The answer to a request is lost after it was entered.
Lose(r, c) == EnterAs(r, c, "lost")

\* The process dies with admitted requests.
Die(S) ==
    /\ \A r \in S : verdict[r] = "admitted"
    /\ verdict' = [r \in Reqs |-> IF r \in S THEN "lost" ELSE verdict[r]]
    /\ UNCHANGED book

Reset(c) ==
    /\ book' = [book EXCEPT ![c] = {}]
    /\ UNCHANGED verdict

Next ==
    \/ \E S \in SUBSET Reqs : Die(S)
    \/ \E r \in Reqs, c \in Counters : Admit(r, c) \/ Refuse(r, c) \/ Lose(r, c)
    \/ \E c \in Counters : Reset(c)

Spec == Init /\ [][Next]_<<book, verdict>>
=============================================================================
