--------------------------- MODULE JobHistoryProofs ---------------------------
(***************************************************************************)
(* Proofs about JobHistory for any number of jobs, handlers, cleaners and  *)
(* faults, any clock bound and any retentions that RetentionAssumption     *)
(* admits.  JobTypeOK /\\ StoresAgree is inductive; the four safety            *)
(* properties are conjuncts of StoresAgree, and the action property and    *)
(* the refinement follow from one step taken in a state that satisfies it. *)
(***************************************************************************)
EXTENDS JobHistory, TLAPS

-----------------------------------------------------------------------------
(* Types.                                                                  *)

\* Every step of a recorder keeps the types.
LEMMA RecorderTypes ==
  ASSUME JobTypeOK, NEW j \in Jobs, Recorder(j)
  PROVE  JobTypeOK'
<1>1. CASE Schedule(j)
  BY <1>1
     DEF JobTypeOK, RecStates, NoFault, jobTables, reqVars, sweepVars, faultVars,
         Schedule, GoRec
<1>2. CASE Upload(j)
  BY <1>2
     DEF JobTypeOK, RecStates, NoFault, jobTables, reqVars, sweepVars, faultVars,
         Upload, GoRec
<1>3. CASE ObjectUploadFails(j)
  BY <1>3
     DEF JobTypeOK, RecStates, jobTables, reqVars, sweepVars, ObjectUploadFails, GoRec,
         Strike
<1>4. CASE Insert(j)
  BY <1>4
     DEF JobTypeOK, RecStates, NoFault, reqVars, sweepVars, faultVars, Insert,
         GoRec, PutRow
<1>5. CASE InsertFails(j)
  BY <1>5
     DEF JobTypeOK, RecStates, jobTables, reqVars, sweepVars, InsertFails, GoRec,
         PutRow, Strike
<1>6. CASE Compensate(j)
  BY <1>6
     DEF JobTypeOK, RecStates, NoFault, jobTables, reqVars, sweepVars, faultVars,
         Compensate, GoRec
<1>7. CASE CompensateFails(j)
  BY <1>7
     DEF JobTypeOK, RecStates, jobTables, reqVars, sweepVars, CompensateFails,
         GoRec, Strike, PerhapsRemoved
<1>8. QED
  BY <1>1, <1>2, <1>3, <1>4, <1>5, <1>6, <1>7 DEF Recorder

\* Every step of a handler keeps the types.
LEMMA HandlerTypes ==
  ASSUME JobTypeOK, NEW r \in Reqs, Handler(r)
  PROVE  JobTypeOK'
<1>1. ASSUME NEW u \in Users, NEW j \in Jobs, Download(r, u, j) PROVE JobTypeOK'
  BY <1>1
     DEF JobTypeOK, PcStates, Answers, NoFault, jobTables, sweepVars, faultVars,
         Download, Receive
<1>2. CASE FetchObject(r)
  BY <1>2
     DEF JobTypeOK, PcStates, Answers, NoFault, jobTables, sweepVars, faultVars,
         FetchObject, Answer
<1>3. CASE FetchObjectFails(r)
  BY <1>3
     DEF JobTypeOK, PcStates, Answers, jobTables, sweepVars, FetchObjectFails, Answer,
         Strike
<1>4. ASSUME NEW u \in Users, NEW j \in Jobs, Delete(r, u, j) PROVE JobTypeOK'
  BY <1>4
     DEF JobTypeOK, PcStates, Answers, NoFault, jobTables, sweepVars, faultVars,
         Delete, Receive
<1>5. CASE Unlink(r)
  BY <1>5
     DEF JobTypeOK, PcStates, NoFault, jobTables, sweepVars, faultVars, Unlink
<1>6. CASE UnlinkRefused(r)
  BY <1>6
     DEF JobTypeOK, PcStates, jobTables, sweepVars, UnlinkRefused, Strike,
         PerhapsRemoved
<1>7. CASE UnlinkBroken(r)
  BY <1>7
     DEF JobTypeOK, PcStates, Answers, jobTables, sweepVars, UnlinkBroken,
         Strike, PerhapsRemoved, Answer
<1>8. CASE Erase(r)
  BY <1>8
     DEF JobTypeOK, PcStates, Answers, NoFault, sweepVars, faultVars, Erase,
         DropRow, Answer
<1>9. CASE EraseFails(r)
  BY <1>9
     DEF JobTypeOK, PcStates, Answers, jobTables, sweepVars, EraseFails, DropRow,
         Answer, Strike
<1>10. QED
  BY <1>1, <1>2, <1>3, <1>4, <1>5, <1>6, <1>7, <1>8, <1>9 DEF Handler

\* Every step of a cleaner keeps the types.
LEMMA CleanerTypes ==
  ASSUME JobTypeOK, NEW c \in Cleaners, Cleaner(c)
  PROVE  JobTypeOK'
<1>1. CASE StartPass(c)
  BY <1>1 DEF JobTypeOK, NoFault, jobTables, reqVars, faultVars, StartPass
<1>2. ASSUME NEW j \in Jobs, Sweep(c, j) PROVE JobTypeOK'
  BY <1>2 DEF JobTypeOK, NoFault, jobTables, reqVars, faultVars, Sweep
<1>3. ASSUME NEW j \in Jobs, SweepRefused(c, j) PROVE JobTypeOK'
  BY <1>3 DEF JobTypeOK, jobTables, reqVars, SweepRefused, Strike, PerhapsRemoved
<1>4. ASSUME NEW j \in Jobs, SweepBroken(c, j) PROVE JobTypeOK'
  BY <1>4
     DEF JobTypeOK, jobTables, reqVars, SweepBroken, Strike, PerhapsRemoved,
         EndPass
<1>5. CASE CommitPass(c)
  BY <1>5
     DEF JobTypeOK, NoFault, reqVars, faultVars, CommitPass, WritePass, EndPass
<1>6. CASE StalePass(c)
  BY <1>6
     DEF JobTypeOK, NoFault, jobTables, reqVars, faultVars, StalePass, EndPass
<1>7. CASE PassLost(c)
  BY <1>7 DEF JobTypeOK, jobTables, reqVars, PassLost, WritePass, EndPass
<1>8. QED
  BY <1>1, <1>2, <1>3, <1>4, <1>5, <1>6, <1>7 DEF Cleaner

\* Every variable keeps the shape its declaration gives it.
THEOREM TypeCorrect == JobSpec => []JobTypeOK
<1>1. JobInit => JobTypeOK
  BY DEF JobInit, JobTypeOK, RecStates, PcStates, Answers
<1>2. JobTypeOK /\ [JobNext]_jobVars => JobTypeOK'
  <2> SUFFICES ASSUME JobTypeOK, [JobNext]_jobVars PROVE JobTypeOK'
    OBVIOUS
  <2>1. CASE ApiCrash
    BY <2>1
       DEF ApiCrash, HalfDone, JobTypeOK, RecStates, PcStates, jobTables,
           sweepVars
  <2>2. CASE Tick
    BY <2>2 DEF Tick, JobTypeOK, NoFault, jobTables, reqVars, sweepVars, faultVars
  <2>3. CASE UNCHANGED jobVars
    BY <2>3 DEF jobVars, JobTypeOK, jobTables, reqVars, sweepVars, faultVars
  <2>4. QED
    BY <2>1, <2>2, <2>3, RecorderTypes, HandlerTypes, CleanerTypes DEF JobNext
<1>3. QED
  BY <1>1, <1>2, PTL DEF JobSpec


-----------------------------------------------------------------------------
(* The inductive invariant.                                                *)

\* Every step of a recorder keeps the two stores in agreement.
LEMMA RecorderAgrees ==
  ASSUME JobTypeOK, JobTypeOK', StoresAgree, NEW j \in Jobs, Recorder(j)
  PROVE  StoresAgree'
<1>1. CASE Schedule(j)
  BY <1>1
     DEF NoFault, jobTables, reqVars, sweepVars, faultVars, Available,
         ExpiredBy, StoresAgree, OnlyRecordedJobsAreTouched,
         PassesSeeOnlyExpiredRows, ReferencesOutliveObjects,
         OrphansNeedAFault, AvailableIsBacked, FailedDownloadIsExplained,
         AckedDeleteIsFinal, Recorded, Erasing, Schedule, GoRec
<1>2. CASE Upload(j)
  <2>1. OnlyRecordedJobsAreTouched'
    BY <1>2
       DEF JobTypeOK, NoFault, jobTables, reqVars, sweepVars, faultVars,
           StoresAgree, OnlyRecordedJobsAreTouched, Recorded, Upload, GoRec
  <2>2. OrphansNeedAFault'
    BY <1>2
       DEF JobTypeOK, NoFault, jobTables, faultVars, StoresAgree,
           OrphansNeedAFault, Upload, GoRec
  <2>3. /\ PassesSeeOnlyExpiredRows'
        /\ ReferencesOutliveObjects'
        /\ AvailableIsBacked'
        /\ FailedDownloadIsExplained'
        /\ AckedDeleteIsFinal'
    BY <1>2
       DEF JobTypeOK, NoFault, jobTables, reqVars, sweepVars, faultVars,
           Available, ExpiredBy, StoresAgree, OnlyRecordedJobsAreTouched,
           PassesSeeOnlyExpiredRows, ReferencesOutliveObjects,
           AvailableIsBacked, FailedDownloadIsExplained, AckedDeleteIsFinal,
           Recorded, Erasing, Upload
  <2>4. QED
    BY <2>1, <2>2, <2>3 DEF StoresAgree
<1>3. CASE ObjectUploadFails(j)
  <2>1. OnlyRecordedJobsAreTouched'
    BY <1>3
       DEF JobTypeOK, jobTables, reqVars, sweepVars, StoresAgree,
           OnlyRecordedJobsAreTouched, Recorded, ObjectUploadFails, GoRec, Strike
  <2>2. /\ PassesSeeOnlyExpiredRows'
        /\ ReferencesOutliveObjects'
        /\ OrphansNeedAFault'
        /\ AvailableIsBacked'
        /\ FailedDownloadIsExplained'
        /\ AckedDeleteIsFinal'
    BY <1>3
       DEF jobTables, reqVars, sweepVars, Available, ExpiredBy, StoresAgree,
           PassesSeeOnlyExpiredRows, ReferencesOutliveObjects,
           OrphansNeedAFault, AvailableIsBacked, FailedDownloadIsExplained,
           AckedDeleteIsFinal, Erasing, ObjectUploadFails, GoRec, Strike
  <2>3. QED
    BY <2>1, <2>2 DEF StoresAgree
<1>4. CASE Insert(j)
  <2>1. OnlyRecordedJobsAreTouched'
    BY <1>4
       DEF JobTypeOK, NoFault, reqVars, sweepVars, faultVars, StoresAgree,
           OnlyRecordedJobsAreTouched, Recorded, Insert, GoRec, PutRow
  <2>2. PassesSeeOnlyExpiredRows'
    BY <1>4
       DEF sweepVars, ExpiredBy, StoresAgree, OnlyRecordedJobsAreTouched,
           PassesSeeOnlyExpiredRows, Recorded, Insert, PutRow
  <2>3. ReferencesOutliveObjects'
    BY <1>4, RetentionAssumption
       DEF JobTypeOK, NoFault, reqVars, sweepVars, faultVars, ExpiredBy,
           StoresAgree, PassesSeeOnlyExpiredRows, ReferencesOutliveObjects,
           Insert, PutRow
  <2>4. AvailableIsBacked'
    BY <1>4
       DEF NoFault, reqVars, faultVars, Available, ExpiredBy, StoresAgree,
           OnlyRecordedJobsAreTouched, AvailableIsBacked, Erasing, Insert,
           PutRow
  <2>5. FailedDownloadIsExplained'
    BY <1>4
       DEF NoFault, reqVars, faultVars, ExpiredBy, StoresAgree,
           OnlyRecordedJobsAreTouched, FailedDownloadIsExplained, Recorded,
           Erasing, Insert, PutRow
  <2>6. AckedDeleteIsFinal'
    BY <1>4
       DEF NoFault, faultVars, StoresAgree, OnlyRecordedJobsAreTouched,
           AckedDeleteIsFinal, Recorded, Insert, PutRow
  <2>7. OrphansNeedAFault'
    BY <1>4
       DEF NoFault, faultVars, StoresAgree, OrphansNeedAFault, Insert, GoRec,
           PutRow
  <2>8. QED
    BY <2>1, <2>2, <2>3, <2>4, <2>5, <2>6, <2>7 DEF StoresAgree
<1>5. CASE InsertFails(j)
  <2>1. OnlyRecordedJobsAreTouched'
    BY <1>5
       DEF JobTypeOK, jobTables, reqVars, sweepVars, StoresAgree,
           OnlyRecordedJobsAreTouched, Recorded, InsertFails, GoRec, PutRow,
           Strike
  <2>2. PassesSeeOnlyExpiredRows'
    BY <1>5
       DEF JobTypeOK, jobTables, sweepVars, ExpiredBy, StoresAgree,
           OnlyRecordedJobsAreTouched, PassesSeeOnlyExpiredRows, Recorded,
           InsertFails, PutRow
  <2>3. ReferencesOutliveObjects'
    BY <1>5
       DEF JobTypeOK, jobTables, reqVars, sweepVars, ExpiredBy, StoresAgree,
           ReferencesOutliveObjects, InsertFails, PutRow, Strike
  <2>4. AvailableIsBacked'
    BY <1>5
       DEF JobTypeOK, jobTables, reqVars, Available, ExpiredBy, StoresAgree,
           AvailableIsBacked, Erasing, InsertFails, PutRow, Strike
  <2>5. FailedDownloadIsExplained'
    BY <1>5
       DEF JobTypeOK, jobTables, reqVars, ExpiredBy, StoresAgree,
           FailedDownloadIsExplained, Erasing, InsertFails, PutRow, Strike
  <2>6. AckedDeleteIsFinal'
    BY <1>5
       DEF jobTables, StoresAgree, OnlyRecordedJobsAreTouched,
           AckedDeleteIsFinal, Recorded, InsertFails, PutRow, Strike
  <2>7. OrphansNeedAFault'
    BY <1>5
       DEF jobTables, StoresAgree, OrphansNeedAFault, InsertFails, GoRec,
           PutRow, Strike
  <2>8. QED
    BY <2>1, <2>2, <2>3, <2>4, <2>5, <2>6, <2>7 DEF StoresAgree
<1>6. CASE Compensate(j)
  <2>1. OrphansNeedAFault'
    BY <1>6
       DEF NoFault, jobTables, faultVars, StoresAgree, OrphansNeedAFault,
           Compensate, GoRec
  <2>2. AvailableIsBacked'
    BY <1>6
       DEF NoFault, jobTables, reqVars, faultVars, Available, ExpiredBy,
           StoresAgree, OnlyRecordedJobsAreTouched, AvailableIsBacked,
           Erasing, Compensate
  <2>3. /\ OnlyRecordedJobsAreTouched'
        /\ PassesSeeOnlyExpiredRows'
        /\ ReferencesOutliveObjects'
        /\ FailedDownloadIsExplained'
        /\ AckedDeleteIsFinal'
    BY <1>6
       DEF NoFault, jobTables, reqVars, sweepVars, faultVars, ExpiredBy,
           StoresAgree, OnlyRecordedJobsAreTouched, PassesSeeOnlyExpiredRows,
           ReferencesOutliveObjects, FailedDownloadIsExplained,
           AckedDeleteIsFinal, Recorded, Erasing, Compensate, GoRec
  <2>4. QED
    BY <2>1, <2>2, <2>3 DEF StoresAgree
<1>7. CASE CompensateFails(j)
  <2>1. AvailableIsBacked'
    BY <1>7
       DEF jobTables, reqVars, Available, ExpiredBy, StoresAgree,
           AvailableIsBacked, Erasing, CompensateFails, Strike, PerhapsRemoved
  <2>2. /\ OnlyRecordedJobsAreTouched'
        /\ PassesSeeOnlyExpiredRows'
        /\ ReferencesOutliveObjects'
        /\ OrphansNeedAFault'
        /\ FailedDownloadIsExplained'
        /\ AckedDeleteIsFinal'
    BY <1>7
       DEF jobTables, reqVars, sweepVars, ExpiredBy, StoresAgree,
           OnlyRecordedJobsAreTouched, PassesSeeOnlyExpiredRows,
           ReferencesOutliveObjects, OrphansNeedAFault,
           FailedDownloadIsExplained, AckedDeleteIsFinal, Recorded, Erasing,
           CompensateFails, GoRec, Strike, PerhapsRemoved
  <2>3. QED
    BY <2>1, <2>2 DEF StoresAgree
<1>8. QED
  BY <1>1, <1>2, <1>3, <1>4, <1>5, <1>6, <1>7 DEF Recorder

\* Every step of a handler keeps the two stores in agreement.
LEMMA HandlerAgrees ==
  ASSUME JobTypeOK, JobTypeOK', StoresAgree, NEW r \in Reqs, Handler(r)
  PROVE  StoresAgree'
<1>1. ASSUME NEW u \in Users, NEW j \in Jobs, Download(r, u, j)
      PROVE  StoresAgree'
  <2>1. OnlyRecordedJobsAreTouched'
    BY <1>1
       DEF JobTypeOK, NoFault, jobTables, sweepVars, faultVars, StoresAgree,
           OnlyRecordedJobsAreTouched, Recorded, Download, Receive, Finds,
           JobsOf
  <2>2. ReferencesOutliveObjects'
    BY <1>1
       DEF JobTypeOK, NoFault, jobTables, sweepVars, faultVars, ExpiredBy,
           StoresAgree, ReferencesOutliveObjects, Download, Receive
  <2>3. AvailableIsBacked'
    BY <1>1
       DEF JobTypeOK, NoFault, jobTables, faultVars, Available, ExpiredBy,
           StoresAgree, AvailableIsBacked, Erasing, Download, Receive
  <2>4. FailedDownloadIsExplained'
    BY <1>1
       DEF JobTypeOK, NoFault, jobTables, sweepVars, faultVars, ExpiredBy,
           StoresAgree, FailedDownloadIsExplained, Erasing, Download, Receive
  <2>5. PassesSeeOnlyExpiredRows' /\ OrphansNeedAFault' /\ AckedDeleteIsFinal'
    BY <1>1
       DEF NoFault, jobTables, sweepVars, faultVars, ExpiredBy, StoresAgree,
           PassesSeeOnlyExpiredRows, OrphansNeedAFault, AckedDeleteIsFinal,
           Download
  <2>6. QED
    BY <2>1, <2>2, <2>3, <2>4, <2>5 DEF StoresAgree
<1>2. CASE FetchObject(r)
  <2>1. FailedDownloadIsExplained'
    BY <1>2
       DEF NoFault, jobTables, faultVars, Available, ExpiredBy, StoresAgree,
           OnlyRecordedJobsAreTouched, PassesSeeOnlyExpiredRows,
           AvailableIsBacked, FailedDownloadIsExplained, Recorded, Erasing,
           FetchObject, Answer
  <2>2. /\ OnlyRecordedJobsAreTouched'
        /\ PassesSeeOnlyExpiredRows'
        /\ ReferencesOutliveObjects'
        /\ OrphansNeedAFault'
        /\ AvailableIsBacked'
        /\ AckedDeleteIsFinal'
    BY <1>2
       DEF NoFault, jobTables, sweepVars, faultVars, Available, ExpiredBy,
           StoresAgree, OnlyRecordedJobsAreTouched, PassesSeeOnlyExpiredRows,
           ReferencesOutliveObjects, OrphansNeedAFault, AvailableIsBacked,
           AckedDeleteIsFinal, Recorded, Erasing, FetchObject, Answer
  <2>3. QED
    BY <2>1, <2>2 DEF StoresAgree
<1>3. CASE FetchObjectFails(r)
  <2>1. FailedDownloadIsExplained'
    BY <1>3
       DEF jobTables, ExpiredBy, StoresAgree, FailedDownloadIsExplained,
           Erasing, FetchObjectFails, Answer, Strike
  <2>2. /\ OnlyRecordedJobsAreTouched'
        /\ PassesSeeOnlyExpiredRows'
        /\ ReferencesOutliveObjects'
        /\ OrphansNeedAFault'
        /\ AvailableIsBacked'
        /\ AckedDeleteIsFinal'
    BY <1>3
       DEF jobTables, sweepVars, Available, ExpiredBy, StoresAgree,
           OnlyRecordedJobsAreTouched, PassesSeeOnlyExpiredRows,
           ReferencesOutliveObjects, OrphansNeedAFault, AvailableIsBacked,
           AckedDeleteIsFinal, Recorded, Erasing, FetchObjectFails, Answer, Strike
  <2>3. QED
    BY <2>1, <2>2 DEF StoresAgree
<1>4. ASSUME NEW u \in Users, NEW j \in Jobs, Delete(r, u, j)
      PROVE  StoresAgree'
  <2>1. OnlyRecordedJobsAreTouched'
    BY <1>4
       DEF JobTypeOK, NoFault, jobTables, sweepVars, faultVars, StoresAgree,
           OnlyRecordedJobsAreTouched, Recorded, Delete, Receive, Finds,
           JobsOf
  <2>2. ReferencesOutliveObjects'
    BY <1>4
       DEF JobTypeOK, Answers, NoFault, jobTables, sweepVars, faultVars,
           Available, ExpiredBy, StoresAgree, ReferencesOutliveObjects,
           Delete, Receive, Finds, JobsOf
  <2>3. AvailableIsBacked'
    BY <1>4, RetentionAssumption
       DEF JobTypeOK, NoFault, jobTables, faultVars, Available, ExpiredBy,
           StoresAgree, AvailableIsBacked, Erasing, Delete, Receive
  <2>4. FailedDownloadIsExplained'
    BY <1>4
       DEF JobTypeOK, NoFault, jobTables, sweepVars, faultVars, Available,
           ExpiredBy, StoresAgree, AvailableIsBacked,
           FailedDownloadIsExplained, Erasing, Delete, Receive
  <2>5. PassesSeeOnlyExpiredRows' /\ OrphansNeedAFault' /\ AckedDeleteIsFinal'
    BY <1>4
       DEF NoFault, jobTables, sweepVars, faultVars, ExpiredBy, StoresAgree,
           PassesSeeOnlyExpiredRows, OrphansNeedAFault, AckedDeleteIsFinal,
           Delete
  <2>6. QED
    BY <2>1, <2>2, <2>3, <2>4, <2>5 DEF StoresAgree
<1>5. CASE Unlink(r)
  <2>1. ReferencesOutliveObjects'
    BY <1>5
       DEF NoFault, jobTables, sweepVars, faultVars, ExpiredBy, StoresAgree,
           ReferencesOutliveObjects, Unlink
  <2>2. AvailableIsBacked'
    BY <1>5
       DEF JobTypeOK, NoFault, jobTables, faultVars, Available, ExpiredBy,
           StoresAgree, AvailableIsBacked, Erasing, Unlink
  <2>3. /\ OnlyRecordedJobsAreTouched'
        /\ PassesSeeOnlyExpiredRows'
        /\ OrphansNeedAFault'
        /\ FailedDownloadIsExplained'
        /\ AckedDeleteIsFinal'
    BY <1>5
       DEF NoFault, jobTables, sweepVars, faultVars, ExpiredBy, StoresAgree,
           OnlyRecordedJobsAreTouched, PassesSeeOnlyExpiredRows,
           OrphansNeedAFault, FailedDownloadIsExplained, AckedDeleteIsFinal,
           Recorded, Erasing, Unlink
  <2>4. QED
    BY <2>1, <2>2, <2>3 DEF StoresAgree
<1>6. CASE UnlinkRefused(r)
  <2>1. ReferencesOutliveObjects'
    BY <1>6
       DEF jobTables, sweepVars, ExpiredBy, StoresAgree,
           ReferencesOutliveObjects, UnlinkRefused, Strike, PerhapsRemoved
  <2>2. AvailableIsBacked'
    BY <1>6
       DEF jobTables, Available, ExpiredBy, StoresAgree, AvailableIsBacked,
           Erasing, UnlinkRefused, Strike, PerhapsRemoved
  <2>3. /\ OnlyRecordedJobsAreTouched'
        /\ PassesSeeOnlyExpiredRows'
        /\ OrphansNeedAFault'
        /\ FailedDownloadIsExplained'
        /\ AckedDeleteIsFinal'
    BY <1>6
       DEF jobTables, sweepVars, ExpiredBy, StoresAgree,
           OnlyRecordedJobsAreTouched, PassesSeeOnlyExpiredRows,
           OrphansNeedAFault, FailedDownloadIsExplained, AckedDeleteIsFinal,
           Recorded, Erasing, UnlinkRefused, Strike, PerhapsRemoved
  <2>4. QED
    BY <2>1, <2>2, <2>3 DEF StoresAgree
<1>7. CASE UnlinkBroken(r)
  <2>1. AvailableIsBacked'
    BY <1>7
       DEF jobTables, Available, ExpiredBy, StoresAgree, AvailableIsBacked,
           Erasing, UnlinkBroken, Strike, PerhapsRemoved, Answer
  <2>2. FailedDownloadIsExplained'
    BY <1>7
       DEF jobTables, ExpiredBy, StoresAgree, FailedDownloadIsExplained,
           Erasing, UnlinkBroken, Strike, Answer
  <2>3. /\ OnlyRecordedJobsAreTouched'
        /\ PassesSeeOnlyExpiredRows'
        /\ ReferencesOutliveObjects'
        /\ OrphansNeedAFault'
        /\ AckedDeleteIsFinal'
    BY <1>7
       DEF jobTables, sweepVars, ExpiredBy, StoresAgree,
           OnlyRecordedJobsAreTouched, PassesSeeOnlyExpiredRows,
           ReferencesOutliveObjects, OrphansNeedAFault, AckedDeleteIsFinal,
           Recorded, UnlinkBroken, Strike, PerhapsRemoved, Answer
  <2>4. QED
    BY <2>1, <2>2, <2>3 DEF StoresAgree
<1>8. CASE Erase(r)
  <2>1. OrphansNeedAFault'
    BY <1>8
       DEF NoFault, faultVars, StoresAgree, ReferencesOutliveObjects,
           OrphansNeedAFault, Erase, DropRow
  <2>2. AvailableIsBacked'
    BY <1>8
       DEF NoFault, faultVars, Available, ExpiredBy, StoresAgree,
           AvailableIsBacked, Erasing, Erase, DropRow, Answer
  <2>3. FailedDownloadIsExplained'
    BY <1>8
       DEF NoFault, faultVars, ExpiredBy, StoresAgree,
           FailedDownloadIsExplained, Erasing, Erase, DropRow, Answer
  <2>4. AckedDeleteIsFinal'
    BY <1>8
       DEF NoFault, faultVars, StoresAgree, ReferencesOutliveObjects,
           AckedDeleteIsFinal, Erase, DropRow
  <2>5. /\ OnlyRecordedJobsAreTouched'
        /\ PassesSeeOnlyExpiredRows'
        /\ ReferencesOutliveObjects'
    BY <1>8
       DEF NoFault, sweepVars, faultVars, ExpiredBy, StoresAgree,
           OnlyRecordedJobsAreTouched, PassesSeeOnlyExpiredRows,
           ReferencesOutliveObjects, Recorded, Erase, DropRow, Answer
  <2>6. QED
    BY <2>1, <2>2, <2>3, <2>4, <2>5 DEF StoresAgree
<1>9. CASE EraseFails(r)
  <2>1. OrphansNeedAFault'
    BY <1>9
       DEF jobTables, StoresAgree, OrphansNeedAFault, EraseFails, DropRow,
           Strike
  <2>2. AvailableIsBacked'
    BY <1>9
       DEF jobTables, Available, ExpiredBy, StoresAgree, AvailableIsBacked,
           Erasing, EraseFails, DropRow, Answer, Strike
  <2>3. FailedDownloadIsExplained'
    BY <1>9
       DEF jobTables, ExpiredBy, StoresAgree, FailedDownloadIsExplained,
           Erasing, EraseFails, DropRow, Answer, Strike
  <2>4. /\ OnlyRecordedJobsAreTouched'
        /\ PassesSeeOnlyExpiredRows'
        /\ ReferencesOutliveObjects'
        /\ AckedDeleteIsFinal'
    BY <1>9
       DEF jobTables, sweepVars, ExpiredBy, StoresAgree,
           OnlyRecordedJobsAreTouched, PassesSeeOnlyExpiredRows,
           ReferencesOutliveObjects, AckedDeleteIsFinal, Recorded, EraseFails,
           DropRow, Answer, Strike
  <2>5. QED
    BY <2>1, <2>2, <2>3, <2>4 DEF StoresAgree
<1>10. QED
  BY <1>1, <1>2, <1>3, <1>4, <1>5, <1>6, <1>7, <1>8, <1>9 DEF Handler

\* Every step of a cleaner keeps the two stores in agreement.
LEMMA CleanerAgrees ==
  ASSUME JobTypeOK, JobTypeOK', StoresAgree, NEW c \in Cleaners, Cleaner(c)
  PROVE  StoresAgree'
<1>1. CASE StartPass(c)
  <2>1. PassesSeeOnlyExpiredRows'
    BY <1>1, RetentionAssumption
       DEF JobTypeOK, jobTables, ExpiredBy, StoresAgree,
           PassesSeeOnlyExpiredRows, StartPass
  <2>2. ReferencesOutliveObjects'
    BY <1>1
       DEF JobTypeOK, NoFault, jobTables, reqVars, faultVars, ExpiredBy,
           StoresAgree, ReferencesOutliveObjects, StartPass
  <2>3. /\ OnlyRecordedJobsAreTouched'
        /\ OrphansNeedAFault'
        /\ AvailableIsBacked'
        /\ FailedDownloadIsExplained'
        /\ AckedDeleteIsFinal'
    BY <1>1
       DEF JobTypeOK, NoFault, jobTables, reqVars, faultVars, Available,
           ExpiredBy, StoresAgree, OnlyRecordedJobsAreTouched,
           OrphansNeedAFault, AvailableIsBacked, FailedDownloadIsExplained,
           AckedDeleteIsFinal, Recorded, Erasing, StartPass
  <2>4. QED
    BY <2>1, <2>2, <2>3 DEF StoresAgree
<1>2. ASSUME NEW j \in Jobs, Sweep(c, j) PROVE StoresAgree'
  <2>1. PassesSeeOnlyExpiredRows'
    BY <1>2
       DEF jobTables, ExpiredBy, StoresAgree, PassesSeeOnlyExpiredRows, Sweep
  <2>2. ReferencesOutliveObjects'
    BY <1>2
       DEF NoFault, jobTables, reqVars, faultVars, ExpiredBy, StoresAgree,
           ReferencesOutliveObjects, Sweep
  <2>3. AvailableIsBacked'
    BY <1>2, RetentionAssumption
       DEF JobTypeOK, NoFault, jobTables, reqVars, faultVars, Available,
           ExpiredBy, StoresAgree, PassesSeeOnlyExpiredRows,
           AvailableIsBacked, Erasing, Sweep
  <2>4. /\ OnlyRecordedJobsAreTouched'
        /\ OrphansNeedAFault'
        /\ FailedDownloadIsExplained'
        /\ AckedDeleteIsFinal'
    BY <1>2
       DEF NoFault, jobTables, reqVars, faultVars, ExpiredBy, StoresAgree,
           OnlyRecordedJobsAreTouched, OrphansNeedAFault,
           FailedDownloadIsExplained, AckedDeleteIsFinal, Recorded, Erasing,
           Sweep
  <2>5. QED
    BY <2>1, <2>2, <2>3, <2>4 DEF StoresAgree
<1>3. ASSUME NEW j \in Jobs, SweepRefused(c, j) PROVE StoresAgree'
  <2>1. ReferencesOutliveObjects'
    BY <1>3
       DEF jobTables, reqVars, ExpiredBy, StoresAgree,
           ReferencesOutliveObjects, SweepRefused, Strike, PerhapsRemoved
  <2>2. AvailableIsBacked'
    BY <1>3
       DEF jobTables, reqVars, Available, ExpiredBy, StoresAgree,
           AvailableIsBacked, Erasing, SweepRefused, Strike, PerhapsRemoved
  <2>3. /\ OnlyRecordedJobsAreTouched'
        /\ PassesSeeOnlyExpiredRows'
        /\ OrphansNeedAFault'
        /\ FailedDownloadIsExplained'
        /\ AckedDeleteIsFinal'
    BY <1>3
       DEF jobTables, reqVars, ExpiredBy, StoresAgree,
           OnlyRecordedJobsAreTouched, PassesSeeOnlyExpiredRows,
           OrphansNeedAFault, FailedDownloadIsExplained, AckedDeleteIsFinal,
           Recorded, Erasing, SweepRefused, Strike, PerhapsRemoved
  <2>4. QED
    BY <2>1, <2>2, <2>3 DEF StoresAgree
<1>4. ASSUME NEW j \in Jobs, SweepBroken(c, j) PROVE StoresAgree'
  <2>1. ReferencesOutliveObjects'
    BY <1>4
       DEF jobTables, reqVars, ExpiredBy, StoresAgree,
           ReferencesOutliveObjects, SweepBroken, Strike, PerhapsRemoved,
           EndPass
  <2>2. AvailableIsBacked'
    BY <1>4
       DEF jobTables, reqVars, Available, ExpiredBy, StoresAgree,
           AvailableIsBacked, Erasing, SweepBroken, Strike, PerhapsRemoved
  <2>3. /\ OnlyRecordedJobsAreTouched'
        /\ PassesSeeOnlyExpiredRows'
        /\ OrphansNeedAFault'
        /\ FailedDownloadIsExplained'
        /\ AckedDeleteIsFinal'
    BY <1>4
       DEF jobTables, reqVars, ExpiredBy, StoresAgree,
           OnlyRecordedJobsAreTouched, PassesSeeOnlyExpiredRows,
           OrphansNeedAFault, FailedDownloadIsExplained, AckedDeleteIsFinal,
           Recorded, Erasing, SweepBroken, Strike, PerhapsRemoved, EndPass
  <2>4. QED
    BY <2>1, <2>2, <2>3 DEF StoresAgree
<1>5. CASE CommitPass(c)
  <2>1. PassesSeeOnlyExpiredRows'
    BY <1>5, RetentionAssumption
       DEF JobTypeOK, ExpiredBy, StoresAgree, PassesSeeOnlyExpiredRows,
           CommitPass, WritePass, EndPass
  <2>2. ReferencesOutliveObjects'
    BY <1>5
       DEF NoFault, reqVars, faultVars, ExpiredBy, StoresAgree,
           ReferencesOutliveObjects, CommitPass, WritePass, EndPass
  <2>3. OrphansNeedAFault'
    BY <1>5, RetentionAssumption
       DEF JobTypeOK, NoFault, faultVars, ExpiredBy, StoresAgree,
           ReferencesOutliveObjects, OrphansNeedAFault, CommitPass, WritePass,
           Ancient
  <2>4. AvailableIsBacked'
    BY <1>5
       DEF NoFault, reqVars, faultVars, Available, ExpiredBy, StoresAgree,
           AvailableIsBacked, Erasing, CommitPass, WritePass
  <2>5. /\ OnlyRecordedJobsAreTouched'
        /\ FailedDownloadIsExplained'
        /\ AckedDeleteIsFinal'
    BY <1>5
       DEF NoFault, reqVars, faultVars, ExpiredBy, StoresAgree,
           OnlyRecordedJobsAreTouched, FailedDownloadIsExplained,
           AckedDeleteIsFinal, Recorded, Erasing, CommitPass, WritePass,
           EndPass
  <2>6. QED
    BY <2>1, <2>2, <2>3, <2>4, <2>5 DEF StoresAgree
<1>6. CASE StalePass(c)
  BY <1>6
     DEF NoFault, jobTables, reqVars, faultVars, Available, ExpiredBy,
         StoresAgree, OnlyRecordedJobsAreTouched, PassesSeeOnlyExpiredRows,
         ReferencesOutliveObjects, OrphansNeedAFault, AvailableIsBacked,
         FailedDownloadIsExplained, AckedDeleteIsFinal, Recorded, Erasing,
         StalePass, EndPass
<1>7. CASE PassLost(c)
  <2>1. PassesSeeOnlyExpiredRows'
    BY <1>7, RetentionAssumption
       DEF JobTypeOK, jobTables, ExpiredBy, StoresAgree,
           PassesSeeOnlyExpiredRows, PassLost, WritePass, EndPass
  <2>2. ReferencesOutliveObjects'
    BY <1>7
       DEF jobTables, reqVars, ExpiredBy, StoresAgree,
           ReferencesOutliveObjects, PassLost, WritePass, EndPass
  <2>3. OrphansNeedAFault'
    BY <1>7, RetentionAssumption
       DEF JobTypeOK, jobTables, ExpiredBy, StoresAgree,
           ReferencesOutliveObjects, OrphansNeedAFault, PassLost, WritePass,
           Ancient
  <2>4. AvailableIsBacked'
    BY <1>7
       DEF jobTables, reqVars, Available, ExpiredBy, StoresAgree,
           AvailableIsBacked, Erasing, PassLost, WritePass
  <2>5. /\ OnlyRecordedJobsAreTouched'
        /\ FailedDownloadIsExplained'
        /\ AckedDeleteIsFinal'
    BY <1>7
       DEF jobTables, reqVars, ExpiredBy, StoresAgree,
           OnlyRecordedJobsAreTouched, FailedDownloadIsExplained,
           AckedDeleteIsFinal, Recorded, Erasing, PassLost, WritePass, EndPass
  <2>6. QED
    BY <2>1, <2>2, <2>3, <2>4, <2>5 DEF StoresAgree
<1>8. QED
  BY <1>1, <1>2, <1>3, <1>4, <1>5, <1>6, <1>7 DEF Cleaner

\* So do a crash of the API process and the passage of time.
LEMMA OtherAgrees ==
  ASSUME JobTypeOK, JobTypeOK', StoresAgree, ApiCrash \/ Tick
  PROVE  StoresAgree'
<1>1. CASE ApiCrash
  <2>1. OnlyRecordedJobsAreTouched'
    BY <1>1
       DEF JobTypeOK, jobTables, sweepVars, StoresAgree,
           OnlyRecordedJobsAreTouched, Recorded, ApiCrash
  <2>2. ReferencesOutliveObjects'
    BY <1>1
       DEF jobTables, sweepVars, ExpiredBy, StoresAgree,
           ReferencesOutliveObjects, ApiCrash
  <2>3. OrphansNeedAFault'
    BY <1>1
       DEF JobTypeOK, jobTables, StoresAgree, OrphansNeedAFault, ApiCrash,
           HalfDone
  <2>4. AvailableIsBacked'
    BY <1>1
       DEF jobTables, Available, ExpiredBy, StoresAgree, AvailableIsBacked,
           Erasing, ApiCrash, HalfDone
  <2>5. FailedDownloadIsExplained'
    BY <1>1
       DEF jobTables, ExpiredBy, StoresAgree, FailedDownloadIsExplained,
           Erasing, ApiCrash, HalfDone
  <2>6. PassesSeeOnlyExpiredRows' /\ AckedDeleteIsFinal'
    BY <1>1
       DEF jobTables, sweepVars, ExpiredBy, StoresAgree,
           PassesSeeOnlyExpiredRows, AckedDeleteIsFinal, ApiCrash
  <2>7. QED
    BY <2>1, <2>2, <2>3, <2>4, <2>5, <2>6 DEF StoresAgree
<1>2. CASE Tick
  <2>1. PassesSeeOnlyExpiredRows'
    BY <1>2, RetentionAssumption
       DEF JobTypeOK, jobTables, sweepVars, ExpiredBy, StoresAgree,
           PassesSeeOnlyExpiredRows, Tick
  <2>2. /\ OnlyRecordedJobsAreTouched'
        /\ ReferencesOutliveObjects'
        /\ OrphansNeedAFault'
        /\ AvailableIsBacked'
        /\ FailedDownloadIsExplained'
        /\ AckedDeleteIsFinal'
    BY <1>2, RetentionAssumption
       DEF JobTypeOK, NoFault, jobTables, reqVars, sweepVars, faultVars,
           Available, ExpiredBy, StoresAgree, OnlyRecordedJobsAreTouched,
           ReferencesOutliveObjects, OrphansNeedAFault, AvailableIsBacked,
           FailedDownloadIsExplained, AckedDeleteIsFinal, Recorded, Erasing,
           Tick
  <2>3. QED
    BY <2>1, <2>2 DEF StoresAgree
<1>3. QED
  BY <1>1, <1>2

\* The two stores agree in every reachable state.
THEOREM StoresAlwaysAgree == JobSpec => []StoresAgree
<1>1. JobInit => StoresAgree
  BY DEF JobInit, Available, StoresAgree, OnlyRecordedJobsAreTouched,
     PassesSeeOnlyExpiredRows, ReferencesOutliveObjects, OrphansNeedAFault,
     AvailableIsBacked, FailedDownloadIsExplained, AckedDeleteIsFinal
<1>2. JobTypeOK /\ JobTypeOK' /\ StoresAgree /\ [JobNext]_jobVars => StoresAgree'
  <2> SUFFICES ASSUME JobTypeOK, JobTypeOK', StoresAgree, [JobNext]_jobVars
               PROVE  StoresAgree'
    OBVIOUS
  <2>1. CASE UNCHANGED jobVars
    BY <2>1
       DEF jobVars, jobTables, reqVars, sweepVars, faultVars, Available,
           ExpiredBy, StoresAgree, OnlyRecordedJobsAreTouched,
           PassesSeeOnlyExpiredRows, ReferencesOutliveObjects,
           OrphansNeedAFault, AvailableIsBacked, FailedDownloadIsExplained,
           AckedDeleteIsFinal, Recorded, Erasing
  <2>2. QED
    BY <2>1, RecorderAgrees, HandlerAgrees, CleanerAgrees, OtherAgrees DEF JobNext
<1>3. QED
  BY <1>1, <1>2, TypeCorrect, PTL DEF JobSpec

\* No interleaving strands an object: only a fault on the very job does.
THEOREM NoOrphanWithoutFault == JobSpec => []OrphansNeedAFault
<1>1. StoresAgree => OrphansNeedAFault
  BY DEF StoresAgree
<1>2. QED
  BY <1>1, StoresAlwaysAgree, PTL

\* What the listing offers can be downloaded, up to the owner's own delete.
THEOREM AvailableJobsAreBacked == JobSpec => []AvailableIsBacked
<1>1. StoresAgree => AvailableIsBacked
  BY DEF StoresAgree
<1>2. QED
  BY <1>1, StoresAlwaysAgree, PTL

\* A download fails after its checks only for one of the four listed reasons.
THEOREM FailedDownloadsAreExplained == JobSpec => []FailedDownloadIsExplained
<1>1. StoresAgree => FailedDownloadIsExplained
  BY DEF StoresAgree
<1>2. QED
  BY <1>1, StoresAlwaysAgree, PTL

\* A delete that was answered 204 is never undone.
THEOREM AckedDeletesAreFinal == JobSpec => []AckedDeleteIsFinal
<1>1. StoresAgree => AckedDeleteIsFinal
  BY DEF StoresAgree
<1>2. QED
  BY <1>1, StoresAlwaysAgree, PTL


-----------------------------------------------------------------------------
(* The action property.                                                    *)

\* An object leaves the bucket only by its owner's delete, after its retention,
\* or when the recorder undoes a failed insert.
THEOREM RemovalsAreJustified == JobSpec => RemovalIsJustified
<1> DEFINE Justified(j) == \/ rec[j] = "compensate"
                           \/ ExpiredBy(j, now)
                           \/ \E r \in Reqs : pc[r] = "unlink" /\ job[r] = j
<1>1. ASSUME JobTypeOK, StoresAgree, [JobNext]_jobVars, NEW j \in objects \ objects'
      PROVE  Justified(j)
  <2>1. CASE \E k \in Jobs : Recorder(k)
    BY <1>1, <2>1
       DEF Recorder, Schedule, Upload, ObjectUploadFails, Insert, InsertFails,
           Compensate, CompensateFails, PerhapsRemoved
  <2>2. CASE \E r \in Reqs : Handler(r)
    BY <1>1, <2>2
       DEF Handler, Download, Delete, FetchObject, FetchObjectFails, Unlink,
           UnlinkRefused, UnlinkBroken, Erase, EraseFails, PerhapsRemoved
  <2>3. CASE \E c \in Cleaners : Cleaner(c)
    BY <1>1, <2>3, RetentionAssumption
       DEF JobTypeOK, ExpiredBy, StoresAgree, PassesSeeOnlyExpiredRows, Cleaner,
           StartPass, Sweep, SweepRefused, SweepBroken, CommitPass, StalePass,
           PassLost, PerhapsRemoved
  <2>4. CASE ApiCrash \/ Tick \/ UNCHANGED jobVars
    BY <1>1, <2>4 DEF ApiCrash, Tick, jobVars
  <2>5. QED
    BY <1>1, <2>1, <2>2, <2>3, <2>4 DEF JobNext
<1>2. JobTypeOK /\ StoresAgree /\ [JobNext]_jobVars => [\A j \in objects \ objects' : Justified(j)]_jobVars
  BY <1>1
<1>3. QED
  BY <1>2, TypeCorrect, StoresAlwaysAgree, PTL DEF JobSpec, RemovalIsJustified


-----------------------------------------------------------------------------
(* The refinement of JobLifecycle.                                         *)

\* A phase is one of the seven of the abstract machine.
LEMMA PhaseTypes == \A j \in Jobs : Phase(j) \in Lifecycle!Phases
  BY DEF Phase, Lifecycle!Phases

\* What one step may do to the phase of a job.
Follows(j) == \/ Phase(j)' = Phase(j)
              \/ <<Phase(j), Phase(j)'>> \in Lifecycle!Arrows

\* A step of a recorder moves every job along the life cycle.
LEMMA RecorderFollows ==
  ASSUME JobTypeOK, JobTypeOK', StoresAgree, StoresAgree', NEW i \in Jobs, NEW k \in Jobs, Recorder(k)
  PROVE  Follows(i)
<1>1. CASE Schedule(k)
  BY <1>1 DEF Follows, Phase, NoFault, faultVars, Schedule
<1>2. CASE Upload(k)
  BY <1>2 DEF Follows, Phase, NoFault, faultVars, Upload
<1>3. CASE ObjectUploadFails(k)
  BY <1>3
     DEF Follows, Phase, Lifecycle!Arrows, Lifecycle!Phases, jobTables,
         ExpiredBy, ObjectUploadFails, GoRec, Strike
<1>4. CASE Insert(k)
  BY <1>4 DEF Follows, Phase, NoFault, faultVars, Insert
<1>5. CASE InsertFails(k)
  BY <1>5
     DEF Follows, Phase, Lifecycle!Arrows, Lifecycle!Phases, JobTypeOK,
         jobTables, ExpiredBy, StoresAgree, InsertFails, GoRec, PutRow, Strike
<1>6. CASE Compensate(k)
  BY <1>6 DEF Follows, Phase, NoFault, faultVars, Compensate
<1>7. CASE CompensateFails(k)
  BY <1>7
     DEF Follows, Phase, Lifecycle!Arrows, Lifecycle!Phases, jobTables,
         ExpiredBy, CompensateFails, GoRec, Strike, PerhapsRemoved
<1>8. QED
  BY <1>1, <1>2, <1>3, <1>4, <1>5, <1>6, <1>7 DEF Recorder

\* A step of a handler moves every job along the life cycle.
LEMMA HandlerFollows ==
  ASSUME JobTypeOK, JobTypeOK', StoresAgree, StoresAgree', NEW i \in Jobs, NEW r \in Reqs, Handler(r)
  PROVE  Follows(i)
<1>1. ASSUME NEW u \in Users, NEW j \in Jobs, Download(r, u, j)
      PROVE  Follows(i)
  BY <1>1 DEF Follows, Phase, NoFault, faultVars, Download
<1>2. CASE FetchObject(r)
  BY <1>2 DEF Follows, Phase, NoFault, faultVars, FetchObject
<1>3. CASE FetchObjectFails(r)
  BY <1>3
     DEF Follows, Phase, Lifecycle!Arrows, Lifecycle!Phases, jobTables,
         ExpiredBy, FetchObjectFails, Strike
<1>4. ASSUME NEW u \in Users, NEW j \in Jobs, Delete(r, u, j) PROVE Follows(i)
  BY <1>4 DEF Follows, Phase, NoFault, faultVars, Delete
<1>5. CASE Unlink(r)
  BY <1>5 DEF Follows, Phase, NoFault, faultVars, Unlink
<1>6. CASE UnlinkRefused(r)
  BY <1>6
     DEF Follows, Phase, Lifecycle!Arrows, Lifecycle!Phases, jobTables,
         ExpiredBy, UnlinkRefused, Strike, PerhapsRemoved
<1>7. CASE UnlinkBroken(r)
  BY <1>7
     DEF Follows, Phase, Lifecycle!Arrows, Lifecycle!Phases, jobTables,
         ExpiredBy, UnlinkBroken, Strike, PerhapsRemoved
<1>8. CASE Erase(r)
  BY <1>8 DEF Follows, Phase, NoFault, faultVars, Erase
<1>9. CASE EraseFails(r)
  BY <1>9
     DEF Follows, Phase, Lifecycle!Arrows, Lifecycle!Phases, jobTables,
         ExpiredBy, EraseFails, DropRow, Strike
<1>10. QED
  BY <1>1, <1>2, <1>3, <1>4, <1>5, <1>6, <1>7, <1>8, <1>9 DEF Handler

\* A step of a cleaner moves every job along the life cycle.
LEMMA CleanerFollows ==
  ASSUME JobTypeOK, JobTypeOK', StoresAgree, StoresAgree', NEW i \in Jobs, NEW c \in Cleaners, Cleaner(c)
  PROVE  Follows(i)
<1>1. CASE StartPass(c)
  BY <1>1 DEF Follows, Phase, NoFault, faultVars, StartPass
<1>2. ASSUME NEW j \in Jobs, Sweep(c, j) PROVE Follows(i)
  BY <1>2 DEF Follows, Phase, NoFault, faultVars, Sweep
<1>3. ASSUME NEW j \in Jobs, SweepRefused(c, j) PROVE Follows(i)
  BY <1>3
     DEF Follows, Phase, Lifecycle!Arrows, Lifecycle!Phases, jobTables,
         ExpiredBy, SweepRefused, Strike, PerhapsRemoved
<1>4. ASSUME NEW j \in Jobs, SweepBroken(c, j) PROVE Follows(i)
  BY <1>4
     DEF Follows, Phase, Lifecycle!Arrows, Lifecycle!Phases, jobTables,
         ExpiredBy, SweepBroken, Strike, PerhapsRemoved
<1>5. CASE CommitPass(c)
  BY <1>5 DEF Follows, Phase, NoFault, faultVars, CommitPass
<1>6. CASE StalePass(c)
  BY <1>6 DEF Follows, Phase, NoFault, faultVars, StalePass
<1>7. CASE PassLost(c)
  BY <1>7 DEF Follows, Phase, PassLost
<1>8. QED
  BY <1>1, <1>2, <1>3, <1>4, <1>5, <1>6, <1>7 DEF Cleaner

\* The two stores together implement the abstract life cycle of a job.
THEOREM HistoryImplementsLifecycle == JobSpec => ImplementsLifecycle
<1>1. JobInit => Lifecycle!Init
  BY DEF JobInit, Lifecycle!Init, Phase
<1>2. ASSUME JobTypeOK, JobTypeOK', StoresAgree, StoresAgree', [JobNext]_jobVars, NEW i \in Jobs
      PROVE  Follows(i)
  <2>1. CASE ApiCrash
    BY <1>2, <2>1
       DEF Follows, Phase, Lifecycle!Arrows, Lifecycle!Phases, JobTypeOK,
           RecStates, PcStates, Answers, NoFault, jobTables, reqVars,
           sweepVars, faultVars, Available, ExpiredBy, StoresAgree,
           OnlyRecordedJobsAreTouched, PassesSeeOnlyExpiredRows,
           ReferencesOutliveObjects, OrphansNeedAFault, AvailableIsBacked,
           FailedDownloadIsExplained, AckedDeleteIsFinal, Recorded, Erasing,
           ApiCrash
  <2>2. CASE Tick
    BY <1>2, <2>2 DEF Follows, Phase, NoFault, faultVars, Tick
  <2>3. CASE UNCHANGED jobVars
    BY <2>3 DEF Follows, Phase, faultVars, jobVars
  <2>4. QED
    BY <1>2, <2>1, <2>2, <2>3, RecorderFollows, HandlerFollows, CleanerFollows
       DEF JobNext
<1>3. JobTypeOK /\ JobTypeOK' /\ StoresAgree /\ StoresAgree' /\ [JobNext]_jobVars => Lifecycle!Next
  <2> SUFFICES ASSUME JobTypeOK, JobTypeOK', StoresAgree, StoresAgree', [JobNext]_jobVars
               PROVE  Lifecycle!Next
    OBVIOUS
  <2>1. \A i \in Jobs : Phase(i)' \in Lifecycle!Phases
    BY DEF Phase, Lifecycle!Phases
  <2>2. QED
    BY <1>2, <2>1 DEF Lifecycle!Next, Lifecycle!Moves, Follows
<1>4. QED
  BY <1>1, <1>3, TypeCorrect, StoresAlwaysAgree, PTL
     DEF JobSpec, ImplementsLifecycle, Lifecycle!Spec

=============================================================================
