----------------------------- MODULE JobHistory -----------------------------
(***************************************************************************)
(* The tool history of the server: a signed-in run leaves one row in the   *)
(* tool_jobs table and one encrypted object in the storage bucket, two     *)
(* stores with no common transaction.  Three kinds of actor change them:   *)
(*                                                                         *)
(*   - the recorder, a background task of a tool response                  *)
(*     (JobsService.record_authenticated_job): upload, insert, and a       *)
(*     compensating delete of the object when the insert fails;            *)
(*   - the handlers of /api/v1/me/jobs (list, download, delete);           *)
(*   - the cleaner, a process of its own started by a scheduler            *)
(*     (app.cli.cleanup_expired_jobs -> JobsService.cleanup_expired).      *)
(*                                                                         *)
(* Every await on storage or database is the end of an action, so actors   *)
(* interleave exactly where the code can be suspended.  A fault is one of  *)
(*   - a refusal: storage answers >= 400 (StorageServiceError, caught);    *)
(*   - a broken call: httpx raises (not a StorageServiceError, so it       *)
(*     escapes delete_for_user and cleanup_expired);                       *)
(*   - a database error, a crash of the API process or of the cleaner.     *)
(* The effect of a failed call may or may not have happened.               *)
(*                                                                         *)
(* A row's columns are functions of its job: rows are the ids present,     *)
(* path the rows whose storage_path is not NULL.  expires_at is created_at *)
(* plus the retention (both are stamped in the same insert), and an object *)
(* is named by the job it belongs to, since _object_path contains the id.  *)
(* The cascade from a deleted user is left out: no route deletes a user.   *)
(***************************************************************************)
EXTENDS Integers, FiniteSets

CONSTANTS
    Jobs,           \* job ids: one per recorded run, drawn by uuid4
    Users,          \* authenticated principals
    Owner,          \* Owner[j]: the principal whose run job j records
    Reqs,           \* request handlers of /me/jobs active at the same time
    Cleaners,       \* cleaner processes
    Retention,      \* RETENTION_DAYS_FREE, in ticks
    RowRetention,   \* ROW_RETENTION_DAYS, in ticks
    MaxTime,        \* bound on the clock
    MaxFaults       \* bound on the number of faults

ASSUME OwnerAssumption == Owner \in [Jobs -> Users]

\* The constants of jobs_service.py: 7 <= 90.  OrphansNeedAFault needs it.
ASSUME RetentionAssumption ==
    /\ Retention \in Nat
    /\ RowRetention \in Nat
    /\ Retention <= RowRetention
    /\ MaxTime \in Nat
    /\ MaxFaults \in Nat

VARIABLES
    rows,       \* ids that have a committed tool_jobs row
    path,       \* rows whose storage_path is not NULL
    createdAt,  \* created_at of a row
    objects,    \* jobs whose object is in the bucket
    now,        \* the clock
    rec,        \* rec[j]: where the background task recording j is
    pc,         \* pc[r]: where request handler r is
    job,        \* job[r]: the job handler r works on, last worked on
    status,     \* status[r]: the last answer of handler r
    running,    \* cleaners in the middle of a pass
    cutoff,     \* cutoff[c]: `now` of the pass of c
    todo,       \* todo[c]: selected rows whose object is still to be removed
    nulled,     \* nulled[c]: rows whose storage_path the pass sets to None
    acked,      \* history: jobs for which a delete was answered 204
    hit,        \* history: jobs an operation of which suffered a fault
    faults      \* number of faults so far

jobTables == <<rows, path, createdAt>>
reqVars   == <<pc, job, status>>
sweepVars == <<running, cutoff, todo, nulled>>
faultVars == <<hit, faults>>
jobVars == <<jobTables, objects, now, rec, reqVars, sweepVars, acked, faultVars>>

RecStates == {"idle", "upload", "insert", "compensate", "done"}
PcStates  == {"idle", "fetch", "unlink", "erase"}
Answers   == {"None", "Served", "Deleted", "NotFound", "Expired",
              "DownloadFailed", "DeleteFailed"}

JobTypeOK ==
    /\ rows \subseteq Jobs
    /\ path \subseteq rows
    /\ createdAt \in [Jobs -> Nat]
    /\ objects \subseteq Jobs
    /\ now \in Nat
    /\ rec \in [Jobs -> RecStates]
    /\ pc \in [Reqs -> PcStates]
    /\ job \in [Reqs -> Jobs]
    /\ status \in [Reqs -> Answers]
    /\ running \subseteq Cleaners
    /\ cutoff \in [Cleaners -> Nat]
    /\ todo \in [Cleaners -> SUBSET Jobs]
    /\ nulled \in [Cleaners -> SUBSET Jobs]
    /\ acked \subseteq Jobs
    /\ hit \subseteq Jobs
    /\ faults \in Nat

JobInit ==
    /\ rows = {} /\ path = {} /\ createdAt = [j \in Jobs |-> 0]
    /\ objects = {}
    /\ now = 0
    /\ rec = [j \in Jobs |-> "idle"]
    /\ pc = [r \in Reqs |-> "idle"]
    /\ job \in [Reqs -> Jobs]
    /\ status = [r \in Reqs |-> "None"]
    /\ running = {}
    /\ cutoff = [c \in Cleaners |-> 0]
    /\ todo = [c \in Cleaners |-> {}]
    /\ nulled = [c \in Cleaners |-> {}]
    /\ acked = {}
    /\ hit = {}
    /\ faults = 0

-----------------------------------------------------------------------------
(* What a row says.                                                        *)

ExpiredBy(j, t) == createdAt[j] + Retention < t

\* _to_item: the listing offers a download of the row.
Available(j) == j \in path /\ ~ExpiredBy(j, now)

\* list_for_user followed by _to_item, for one principal.
JobsOf(u) == {j \in rows : Owner[j] = u}

\* get_for_user: the row, or JobNotFoundError.
Finds(u, j) == j \in JobsOf(u)

Strike(j) == /\ faults < MaxFaults
             /\ faults' = faults + 1
             /\ hit' = hit \cup {j}

NoFault == UNCHANGED faultVars

\* An object that a call was about to remove when the call failed.
PerhapsRemoved(j) == objects' \in {objects, objects \ {j}}

-----------------------------------------------------------------------------
(* The recorder.                                                           *)

GoRec(j, s) == rec' = [rec EXCEPT ![j] = s]

\* A tool handler answered a signed-in caller; the task is scheduled.
Schedule(j) ==
    /\ rec[j] = "idle"
    /\ GoRec(j, "upload")
    /\ NoFault
    /\ UNCHANGED <<jobTables, objects, now, reqVars, sweepVars, acked>>

Upload(j) ==
    /\ rec[j] = "upload"
    /\ objects' = objects \cup {j}
    /\ GoRec(j, "insert")
    /\ NoFault
    /\ UNCHANGED <<jobTables, now, reqVars, sweepVars, acked>>

\* Any exception of the upload ends the task; nothing removes the object.
ObjectUploadFails(j) ==
    /\ rec[j] = "upload"
    /\ Strike(j)
    /\ objects' \in {objects, objects \cup {j}}
    /\ GoRec(j, "done")
    /\ UNCHANGED <<jobTables, now, reqVars, sweepVars, acked>>

PutRow(j) ==
    /\ rows' = rows \cup {j}
    /\ path' = path \cup {j}
    /\ createdAt' = [createdAt EXCEPT ![j] = now]

Insert(j) ==
    /\ rec[j] = "insert"
    /\ PutRow(j)
    /\ GoRec(j, "done")
    /\ NoFault
    /\ UNCHANGED <<objects, now, reqVars, sweepVars, acked>>

\* flush or commit raises; a commit may have reached the database.
InsertFails(j) ==
    /\ rec[j] = "insert"
    /\ Strike(j)
    /\ PutRow(j) \/ UNCHANGED jobTables
    /\ GoRec(j, "compensate")
    /\ UNCHANGED <<objects, now, reqVars, sweepVars, acked>>

Compensate(j) ==
    /\ rec[j] = "compensate"
    /\ objects' = objects \ {j}
    /\ GoRec(j, "done")
    /\ NoFault
    /\ UNCHANGED <<jobTables, now, reqVars, sweepVars, acked>>

\* The failure of the compensating delete is swallowed.
CompensateFails(j) ==
    /\ rec[j] = "compensate"
    /\ Strike(j)
    /\ PerhapsRemoved(j)
    /\ GoRec(j, "done")
    /\ UNCHANGED <<jobTables, now, reqVars, sweepVars, acked>>

-----------------------------------------------------------------------------
(* GET /me/jobs/{id}/download.                                             *)

\* Handler r takes up job j: it answers at once, or goes on with "None" yet.
Receive(r, j, s, a) ==
    /\ pc[r] = "idle"
    /\ pc' = [pc EXCEPT ![r] = s]
    /\ job' = [job EXCEPT ![r] = j]
    /\ status' = [status EXCEPT ![r] = a]

Answer(r, a) ==
    /\ pc' = [pc EXCEPT ![r] = "idle"]
    /\ status' = [status EXCEPT ![r] = a]
    /\ UNCHANGED job

\* The row is read and judged at once: 404, 410, or on to the object.
Download(r, u, j) ==
    /\ \/ /\ ~Finds(u, j)
          /\ Receive(r, j, "idle", "NotFound")
       \/ /\ Finds(u, j)
          /\ ~Available(j)
          /\ Receive(r, j, "idle", "Expired")
       \/ /\ Finds(u, j)
          /\ Available(j)
          /\ Receive(r, j, "fetch", "None")
    /\ NoFault
    /\ UNCHANGED <<jobTables, objects, now, rec, sweepVars, acked>>

\* download_and_decrypt: a missing object is a 404 of storage, which raises
\* StorageServiceError and nobody catches it: 500.
FetchObject(r) ==
    /\ pc[r] = "fetch"
    /\ Answer(r, IF job[r] \in objects THEN "Served" ELSE "DownloadFailed")
    /\ NoFault
    /\ UNCHANGED <<jobTables, objects, now, rec, sweepVars, acked>>

FetchObjectFails(r) ==
    /\ pc[r] = "fetch"
    /\ Strike(job[r])
    /\ Answer(r, "DownloadFailed")
    /\ UNCHANGED <<jobTables, objects, now, rec, sweepVars, acked>>

-----------------------------------------------------------------------------
(* DELETE /me/jobs/{id}.                                                   *)

\* Variant for a mutation: the row is deleted without the object.
DeleteRowFirst(r, u, j) ==
    /\ Finds(u, j)
    /\ Receive(r, j, "erase", "None")
    /\ NoFault
    /\ UNCHANGED <<jobTables, objects, now, rec, sweepVars, acked>>

Delete(r, u, j) ==
    /\ \/ /\ ~Finds(u, j)
          /\ Receive(r, j, "idle", "NotFound")
       \/ /\ Finds(u, j)
          /\ j \in path
          /\ Receive(r, j, "unlink", "None")
       \/ /\ Finds(u, j)
          /\ j \notin path
          /\ Receive(r, j, "erase", "None")
    /\ NoFault
    /\ UNCHANGED <<jobTables, objects, now, rec, sweepVars, acked>>

\* Variant for a mutation: the handler answers once the object is removed.
UnlinkOnly(r) ==
    /\ pc[r] = "unlink"
    /\ objects' = objects \ {job[r]}
    /\ Answer(r, "Deleted")
    /\ NoFault
    /\ UNCHANGED <<jobTables, now, rec, sweepVars, acked>>

\* storage.delete succeeds, also when the object is already gone.
Unlink(r) ==
    /\ pc[r] = "unlink"
    /\ objects' = objects \ {job[r]}
    /\ pc' = [pc EXCEPT ![r] = "erase"]
    /\ NoFault
    /\ UNCHANGED <<jobTables, now, rec, job, status, sweepVars, acked>>

\* StorageServiceError: "deleting row anyway".
UnlinkRefused(r) ==
    /\ pc[r] = "unlink"
    /\ Strike(job[r])
    /\ PerhapsRemoved(job[r])
    /\ pc' = [pc EXCEPT ![r] = "erase"]
    /\ UNCHANGED <<jobTables, now, rec, job, status, sweepVars, acked>>

\* httpx raises: the row stays and the caller sees a 500.
UnlinkBroken(r) ==
    /\ pc[r] = "unlink"
    /\ Strike(job[r])
    /\ PerhapsRemoved(job[r])
    /\ Answer(r, "DeleteFailed")
    /\ UNCHANGED <<jobTables, now, rec, sweepVars, acked>>

DropRow(j) ==
    /\ rows' = rows \ {j}
    /\ path' = path \ {j}
    /\ UNCHANGED createdAt

\* delete, flush, commit.  A row that is already gone is only a warning.
Erase(r) ==
    /\ pc[r] = "erase"
    /\ DropRow(job[r])
    /\ Answer(r, "Deleted")
    /\ acked' = acked \cup {job[r]}
    /\ NoFault
    /\ UNCHANGED <<objects, now, rec, sweepVars>>

EraseFails(r) ==
    /\ pc[r] = "erase"
    /\ Strike(job[r])
    /\ DropRow(job[r]) \/ UNCHANGED jobTables
    /\ Answer(r, "DeleteFailed")
    /\ UNCHANGED <<objects, now, rec, sweepVars, acked>>

-----------------------------------------------------------------------------
(* The cleaner: one transaction for the whole pass, committed by           *)
(* run_cleanup after the last statement.                                   *)

EndPass(c) ==
    /\ running' = running \ {c}
    /\ todo' = [todo EXCEPT ![c] = {}]
    /\ nulled' = [nulled EXCEPT ![c] = {}]
    /\ UNCHANGED cutoff

\* Variant for a mutation: a pass selects a row in the last instant it is valid.
StartPassEarly(c) ==
    /\ c \notin running
    /\ running' = running \cup {c}
    /\ cutoff' = [cutoff EXCEPT ![c] = now]
    /\ todo' = [todo EXCEPT ![c] = {j \in path : createdAt[j] + Retention <= now}]
    /\ UNCHANGED nulled
    /\ NoFault
    /\ UNCHANGED <<jobTables, objects, now, rec, reqVars, acked>>

StartPass(c) ==
    /\ c \notin running
    /\ running' = running \cup {c}
    /\ cutoff' = [cutoff EXCEPT ![c] = now]
    /\ todo' = [todo EXCEPT ![c] = {j \in path : ExpiredBy(j, now)}]
    /\ UNCHANGED nulled
    /\ NoFault
    /\ UNCHANGED <<jobTables, objects, now, rec, reqVars, acked>>

Sweep(c, j) ==
    /\ c \in running
    /\ j \in todo[c]
    /\ objects' = objects \ {j}
    /\ todo' = [todo EXCEPT ![c] = @ \ {j}]
    /\ nulled' = [nulled EXCEPT ![c] = @ \cup {j}]
    /\ NoFault
    /\ UNCHANGED <<jobTables, now, rec, reqVars, running, cutoff, acked>>

\* StorageServiceError is logged and the pass goes on; storage_path stays.
SweepRefused(c, j) ==
    /\ c \in running
    /\ j \in todo[c]
    /\ Strike(j)
    /\ PerhapsRemoved(j)
    /\ todo' = [todo EXCEPT ![c] = @ \ {j}]
    /\ UNCHANGED <<jobTables, now, rec, reqVars, running, cutoff, nulled, acked>>

\* httpx raises: the pass ends and its transaction is rolled back.
SweepBroken(c, j) ==
    /\ c \in running
    /\ j \in todo[c]
    /\ Strike(j)
    /\ PerhapsRemoved(j)
    /\ EndPass(c)
    /\ UNCHANGED <<jobTables, now, rec, reqVars, acked>>

\* Variant for a mutation: the second statement reads the clock again.
AncientNow(c) == {j \in rows : createdAt[j] + RowRetention < now}

\* Rows the second statement of the pass removes, whatever their path is.
Ancient(c) == {j \in rows : createdAt[j] + RowRetention < cutoff[c]}

\* Variant for a mutation: the pass writes back whole rows (merge).
WritePassMerge(c) ==
    /\ rows' = (rows \cup nulled[c]) \ Ancient(c)
    /\ path' = (path \ nulled[c]) \ Ancient(c)
    /\ UNCHANGED createdAt

\* Variant for a mutation: every expired row loses its path, swept or not.
WritePassAll(c) ==
    /\ rows' = rows \ Ancient(c)
    /\ path' = {j \in path : ~ExpiredBy(j, now)} \ Ancient(c)
    /\ UNCHANGED createdAt

WritePass(c) ==
    /\ rows' = rows \ Ancient(c)
    /\ path' = (path \ nulled[c]) \ Ancient(c)
    /\ UNCHANGED createdAt

CommitPass(c) ==
    /\ c \in running
    /\ todo[c] = {}
    /\ WritePass(c)
    /\ EndPass(c)
    /\ NoFault
    /\ UNCHANGED <<objects, now, rec, reqVars, acked>>

\* The flush updates a row that was deleted meanwhile: a lone UPDATE raises
\* StaleDataError, a batched one does not look at the row count (CommitPass).
StalePass(c) ==
    /\ c \in running
    /\ todo[c] = {}
    /\ nulled[c] \ rows # {}
    /\ EndPass(c)
    /\ NoFault
    /\ UNCHANGED <<jobTables, objects, now, rec, reqVars, acked>>

\* The process dies, or the database fails before or after the commit.
PassLost(c) ==
    /\ c \in running
    /\ faults < MaxFaults
    /\ faults' = faults + 1
    /\ UNCHANGED hit
    /\ (todo[c] = {} /\ WritePass(c)) \/ UNCHANGED jobTables
    /\ EndPass(c)
    /\ UNCHANGED <<objects, now, rec, reqVars, acked>>

-----------------------------------------------------------------------------
(* The API process dies: its background tasks and handlers are gone.       *)

HalfDone == {j \in Jobs : rec[j] \in {"insert", "compensate"}}
              \cup {job[r] : r \in {s \in Reqs : pc[s] = "erase"}}

ApiCrash ==
    /\ faults < MaxFaults
    /\ faults' = faults + 1
    /\ hit' = hit \cup HalfDone
    /\ rec' = [j \in Jobs |-> IF rec[j] = "idle" THEN "idle" ELSE "done"]
    /\ pc' = [r \in Reqs |-> "idle"]
    /\ UNCHANGED <<jobTables, objects, now, job, status, sweepVars, acked>>

Tick ==
    /\ now < MaxTime
    /\ now' = now + 1
    /\ NoFault
    /\ UNCHANGED <<jobTables, objects, rec, reqVars, sweepVars, acked>>

Recorder(j) ==
    \/ Schedule(j) \/ Upload(j) \/ ObjectUploadFails(j) \/ Insert(j)
    \/ InsertFails(j) \/ Compensate(j) \/ CompensateFails(j)

Handler(r) ==
    \/ \E u \in Users, j \in Jobs : Download(r, u, j) \/ Delete(r, u, j)
    \/ FetchObject(r) \/ FetchObjectFails(r)
    \/ Unlink(r) \/ UnlinkRefused(r) \/ UnlinkBroken(r)
    \/ Erase(r) \/ EraseFails(r)

Cleaner(c) ==
    \/ StartPass(c)
    \/ \E j \in Jobs : Sweep(c, j) \/ SweepRefused(c, j) \/ SweepBroken(c, j)
    \/ CommitPass(c) \/ StalePass(c) \/ PassLost(c)

JobNext ==
    \/ \E j \in Jobs : Recorder(j)
    \/ \E r \in Reqs : Handler(r)
    \/ \E c \in Cleaners : Cleaner(c)
    \/ ApiCrash
    \/ Tick

JobSpec == JobInit /\ [][JobNext]_jobVars

-----------------------------------------------------------------------------
(* Safety.                                                                 *)

Erasing(j) == \E r \in Reqs : pc[r] = "erase" /\ job[r] = j

\* An object without a row can be reached by nobody, so neither its owner nor
\* the cleaner will ever remove it.  That state is transient (the recorder is
\* about to insert the row) unless a fault struck an operation on that very
\* job: no interleaving of recorder, deletes and cleaners alone, and no fault
\* on another job, strands an object.
OrphansNeedAFault ==
    \A j \in objects \ rows : j \in hit \/ rec[j] = "insert"

\* A job the listing offers for download has its object in the bucket, unless
\* its owner's delete has removed the object and is about to remove the row,
\* or a fault struck it.  In particular no cleaner touches an unexpired job.
AvailableIsBacked ==
    \A j \in Jobs : Available(j) => j \in objects \/ Erasing(j) \/ j \in hit

\* A download that passed the 404 and 410 checks and still fails is explained:
\* by the retention that ran out under it, by a delete, or by a fault.
FailedDownloadIsExplained ==
    \A r \in Reqs :
        status[r] = "DownloadFailed" =>
            \/ job[r] \notin rows
            \/ ExpiredBy(job[r], now)
            \/ Erasing(job[r])
            \/ job[r] \in hit

\* After a 204 the row is gone for good and the object too, unless a fault
\* struck the job: no racing recorder, second delete, download or cleaner
\* pass working from an older read of the row brings either back.
AckedDeleteIsFinal ==
    \A j \in acked : j \notin rows /\ (j \in objects => j \in hit)

\* An object leaves the bucket only through its owner's delete, after its
\* retention, or when the recorder undoes an insert it saw fail.
RemovalIsJustified ==
    [][\A j \in objects \ objects' :
          \/ rec[j] = "compensate"
          \/ ExpiredBy(j, now)
          \/ \E r \in Reqs : pc[r] = "unlink" /\ job[r] = j]_jobVars

\* What the tiers design says of a delete: "the file [goes] immediately".
DeletedMeansGone == acked \cap objects = {}

-----------------------------------------------------------------------------
(* The inductive invariant behind the four safety properties.              *)

\* Jobs whose recorder has reached the end of its insert, one way or another.
Recorded == {j \in Jobs : rec[j] \in {"compensate", "done"}}

\* No actor but its recorder can have met a job before the insert.
OnlyRecordedJobsAreTouched ==
    /\ rows \subseteq Recorded
    /\ acked \subseteq Recorded
    /\ \A j \in objects : j \in Recorded \/ rec[j] = "insert"
    /\ \A c \in Cleaners : todo[c] \subseteq Recorded /\ nulled[c] \subseteq Recorded
    /\ \A r \in Reqs :
          pc[r] # "idle" \/ status[r] = "DownloadFailed" => job[r] \in Recorded
    /\ \A j \in Jobs : rec[j] = "insert" => j \in objects
    /\ \A j \in Jobs : rec[j] = "compensate" => j \in hit

\* What a pass has selected and emptied, judged by its own cutoff; rows whose
\* path a committed pass has nulled.
PassesSeeOnlyExpiredRows ==
    /\ \A c \in Cleaners : cutoff[c] <= now
    /\ \A c \in Cleaners : \A j \in todo[c] \cup nulled[c] : ExpiredBy(j, cutoff[c])
    /\ \A j \in rows \ path : ExpiredBy(j, now)

\* Whoever has given up the last reference to an object has removed it.
ReferencesOutliveObjects ==
    /\ \A j \in objects : j \in rows \ path => j \in hit
    /\ \A c \in Cleaners : \A j \in nulled[c] : j \in objects => j \in hit
    /\ \A r \in Reqs : pc[r] = "erase" /\ job[r] \in objects => job[r] \in hit
    /\ \A c \in running : \A j \in path \cap objects :
          ExpiredBy(j, cutoff[c]) => j \in todo[c] \/ j \in hit

\* The state the actors leave to each other between two of their steps: what
\* makes the properties above survive every step.
StoresAgree ==
    /\ OnlyRecordedJobsAreTouched
    /\ PassesSeeOnlyExpiredRows
    /\ ReferencesOutliveObjects
    /\ OrphansNeedAFault
    /\ AvailableIsBacked
    /\ FailedDownloadIsExplained
    /\ AckedDeleteIsFinal

-----------------------------------------------------------------------------
(* The life of a job across both stores (module JobLifecycle).             *)

Phase(j) ==
    CASE j \in hit -> "struck"
      [] j \notin hit /\ j \in rows /\ j \in objects /\ ~ExpiredBy(j, now) -> "listed"
      [] j \notin hit /\ j \in rows /\ j \in objects /\ ExpiredBy(j, now) -> "expired"
      [] j \notin hit /\ j \in rows /\ j \notin objects -> "emptied"
      [] j \notin hit /\ j \notin rows /\ j \in objects -> "stored"
      [] j \notin hit /\ j \notin rows \cup objects /\ rec[j] \in {"idle", "upload"} -> "new"
      [] OTHER -> "gone"

Lifecycle == INSTANCE JobLifecycle WITH phase <- [j \in Jobs |-> Phase(j)]

\* The two stores, changed one at a time by actors that do not know of each
\* other, take every job that no fault struck through one life cycle: stored,
\* listed, expired, emptied, gone, never back and never a row that leaves
\* while its object stays.
ImplementsLifecycle == Lifecycle!Spec

-----------------------------------------------------------------------------
(* Liveness.                                                               *)

\* Retention is met: the object of an expired row is removed in the end,
\* unless a fault struck that job.  Faults on other jobs, aborted passes and
\* concurrent deletes only delay it.  It is for the scheduler to start passes and
\* for a started pass to go on (MCProgress).
ExpiredIsErased ==
    \A j \in Jobs :
        (j \in path /\ ExpiredBy(j, now)) ~> (j \notin objects \/ j \in hit)
=============================================================================
