----------------------------- MODULE MCAccount -----------------------------
(* What belongs to an account and is behind its pages: the pages themselves, *)
(* the history of jobs with the requests about it, and the daily quota of    *)
(* tool requests.  They share no state: one of them per behaviour.           *)
EXTENDS MCJobHistory, AccountPages, MCQuotaGuard

CONSTANTS name1, name2, password1, password2
VARIABLE part       \* what runs in this behaviour; the others stay as they start

MCPasswords == {"", password1, password2}
AccountSymmetry == Symm \cup Permutations({name1, name2}) \cup Permutations({password1, password2})

everyVar == <<part, jobVars, accountVars, quotaVars>>

AllInit ==
    /\ part \in {"history", "pages", "quota"}
    /\ JobInit
    /\ AccountInit /\ (part = "pages" \/ (route = "home" /\ session))
    /\ QuotaInit

AllNext ==
    \/ part = "history" /\ JobNext /\ UNCHANGED <<part, accountVars, quotaVars>>
    \/ part = "pages" /\ AccountNext /\ UNCHANGED <<part, jobVars, quotaVars>>
    \/ part = "quota" /\ QuotaNext /\ UNCHANGED <<part, jobVars, accountVars>>

AllSpec == AllInit /\ [][AllNext]_everyVar
=============================================================================
