----------------------------- MODULE MCProgress -----------------------------
(* What must come to an end: the calls of the pages and the checks of tokens *)
(* of MCPages, and the retention of the job history.  They share no state:   *)
(* one of them per behaviour.                                                *)
EXTENDS MCPages, MCJobHistory

ProgressInit ==
    /\ part \in ClientParts \cup {"history"}
    /\ PartsInit
    /\ JobInit /\ (part = "history" \/ \A r \in Reqs : job[r] = j1)

ProgressNext ==
    \/ ClientNext /\ UNCHANGED jobVars
    \/ part = "history" /\ JobNext /\ UNCHANGED clientVars

\* The scheduler keeps starting passes and a started pass keeps running; the
\* handlers, the recorder and the clock may stop anywhere.
CleanerFairness ==
    \A c \in Cleaners :
        /\ WF_jobVars(part = "history" /\ StartPass(c))
        /\ WF_jobVars(part = "history" /\ \E j \in Jobs : Sweep(c, j))
        /\ WF_jobVars(part = "history" /\ CommitPass(c))

ProgressSpec ==
    /\ ProgressInit /\ [][ProgressNext]_<<clientVars, jobVars>>
    /\ ClientFairness /\ CleanerFairness
=============================================================================
