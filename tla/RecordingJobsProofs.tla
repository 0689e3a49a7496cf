------------------------ MODULE RecordingJobsProofs -------------------------
(***************************************************************************)
(* The recording queue is correct for any workers, any recordings and any  *)
(* lease and retry times.  TypeInv is inductive by itself; Fence is        *)
(* inductive given TypeInv, and contains the safety properties that TLC    *)
(* checks; the refinement of DurableQueue follows from both.               *)
(***************************************************************************)
EXTENDS RecordingJobs, TLAPS

USE DEF jobVars, outVars, workerVars, NoLease, TERMINAL_JOB_STATUSES, PipelineStatuses,
        ActiveStatuses, JobStatus, AttemptSteps, WorkerSteps, InAttempt

\* A worker at work, or a renewal in flight, refers to a recording.
TaskKnown ==
    \A w \in Workers : InAttempt(w) \/ w \in heartbeat => task[w] \in Recordings

TypeInv == TypeOK /\ TaskKnown

\* The type invariant is preserved by every transaction and every call.
LEMMA TypeStep == TypeInv /\ [Next]_vars => TypeInv'
<1> SUFFICES ASSUME TypeInv, [Next]_vars PROVE TypeInv'
  OBVIOUS
<1> USE SymbolAssumption, TimingAssumption DEF TypeInv, TypeOK, TaskKnown
<1>1. ASSUME NEW r \in Recordings, CreateRecordingAndJob(r)
     PROVE  TypeInv'
  BY <1>1 DEF CreateRecordingAndJob
<1>2. ASSUME NEW r \in Recordings, DeleteRecording(r)
     PROVE  TypeInv'
  BY <1>2 DEF DeleteRecording
<1>3. ASSUME NEW ready \in BOOLEAN, RegisterWorker(ready)
     PROVE  TypeInv'
  BY <1>3 DEF RegisterWorker, Fault
<1>4. CASE Tick
  BY <1>4 DEF Tick, Stalled, Fault
<1>5. ASSUME NEW w \in Workers, StartWorker(w)
     PROVE  TypeInv'
  BY <1>5 DEF StartWorker
<1>6. ASSUME NEW w \in Workers, StopWorker(w)
     PROVE  TypeInv'
  BY <1>6 DEF StopWorker, Die, Fault
<1>7. ASSUME NEW w \in Workers, CrashWorker(w)
     PROVE  TypeInv'
  BY <1>7 DEF CrashWorker, Die, Fault
<1>8. ASSUME NEW w \in Workers, PollEmpty(w)
     PROVE  TypeInv'
  BY <1>8 DEF PollEmpty, vars
<1>9. ASSUME NEW w \in Workers, RenewLease(w)
     PROVE  TypeInv'
  BY <1>9 DEF RenewLease, Renewable
<1>10. ASSUME NEW w \in Workers, NEW r \in Recordings, ClaimNextJob(w, r)
     PROVE  TypeInv'
  BY <1>10 DEF ClaimNextJob, Eligible, DueQueued, ExpiredLease
<1>11. ASSUME NEW w \in Workers, ProcessJob(w)
     PROVE  TypeInv'
  BY <1>11 DEF ProcessJob, Continue, Die
<1>12. ASSUME NEW w \in Workers, StartAttempt(w)
     PROVE  TypeInv'
  BY <1>12 DEF StartAttempt, Continue, Fault
<1>13. ASSUME NEW w \in Workers, Transcribe(w)
     PROVE  TypeInv'
  BY <1>13 DEF Transcribe, Continue, Fault
<1>14. ASSUME NEW w \in Workers, MaterializeFails(w)
     PROVE  TypeInv'
  BY <1>14 DEF MaterializeFails, Die, Fault
<1>15. ASSUME NEW w \in Workers, AsrError(w)
     PROVE  TypeInv'
  BY <1>15 DEF AsrError, Continue, EndAttempt
<1>16. ASSUME NEW w \in Workers, SaveTranscriptPreview(w)
     PROVE  TypeInv'
  BY <1>16 DEF SaveTranscriptPreview, Continue, EndAttempt, Owns, RowGone, Lost
<1>17. ASSUME NEW w \in Workers, ReservePipeline(w)
     PROVE  TypeInv'
  BY <1>17 DEF ReservePipeline, Continue, Fault
<1>18. ASSUME NEW w \in Workers, NEW s \in PipelineStatuses, ReportStage(w, s)
     PROVE  TypeInv'
  BY <1>18 DEF ReportStage, Continue, Owns, RowGone
<1>19. ASSUME NEW w \in Workers, PipelineRaises(w)
     PROVE  TypeInv'
  BY <1>19 DEF PipelineRaises, Continue, Fault
<1>20. ASSUME NEW w \in Workers, PipelineReturns(w)
     PROVE  TypeInv'
  BY <1>20 DEF PipelineReturns, Continue, Owns, RowGone
<1>21. ASSUME NEW w \in Workers, FinalizeRecordingJob(w)
     PROVE  TypeInv'
  <2>1. TypeOK'
    BY <1>21 DEF FinalizeRecordingJob, Continue, EndAttempt, Owns, RowGone, ReleaseLease, Fault
  <2>2. TaskKnown'
    BY <1>21 DEF FinalizeRecordingJob, Continue, EndAttempt
  <2> QED BY <2>1, <2>2
<1>22. ASSUME NEW w \in Workers, FinalizeRollsBack(w)
     PROVE  TypeInv'
  BY <1>22 DEF FinalizeRollsBack, Continue, Owns, RowGone, Fault
<1>23. ASSUME NEW w \in Workers, PipelineError(w)
     PROVE  TypeInv'
  BY <1>23 DEF PipelineError, Continue, EndAttempt
<1>24. ASSUME NEW w \in Workers, DeferRecordingJob(w)
     PROVE  TypeInv'
  BY <1>24 DEF DeferRecordingJob, EndAttempt, Owns, RowGone, ReleaseLease
<1>25. ASSUME NEW w \in Workers, FailRecordingJob(w)
     PROVE  TypeInv'
  BY <1>25 DEF FailRecordingJob, EndAttempt, Owns, RowGone, ReleaseLease
<1>26. ASSUME NEW w \in Workers, AbandonAttempt(w)
     PROVE  TypeInv'
  BY <1>26 DEF AbandonAttempt, EndAttempt, Lost, RowGone
<1>27. ASSUME NEW w \in Workers, FinalizationErrorEscapes(w)
     PROVE  TypeInv'
  BY <1>27 DEF FinalizationErrorEscapes, Die, RowGone
<1>28. CASE UNCHANGED vars
  BY <1>28 DEF vars
<1> HIDE DEF TypeInv, TypeOK, TaskKnown, PipelineStatuses
<1> QED
  BY <1>1, <1>2, <1>3, <1>4, <1>5, <1>6, <1>7, <1>8, <1>9, <1>10, <1>11, <1>12, <1>13, <1>14,
     <1>15, <1>16, <1>17, <1>18, <1>19, <1>20, <1>21, <1>22, <1>23, <1>24, <1>25, <1>26, <1>27, <1>28
  DEF Next, WorkerStep, AttemptStep

\* The empty database and the stopped workers are well typed.
LEMMA TypeInit == Init => TypeInv
<1> SUFFICES ASSUME Init PROVE TypeInv
  OBVIOUS
<1>1. asrReady \in BOOLEAN
  BY Zenon DEF Init
<1>2. TypeOK
  BY <1>1, SymbolAssumption, TimingAssumption DEF Init, TypeOK
<1>3. TaskKnown
  BY DEF Init, TaskKnown
<1> QED BY <1>2, <1>3 DEF TypeInv

\* Every reachable state of the queue and of its workers is well typed.
THEOREM TypeCorrect == Spec => []TypeOK
<1>1. TypeInv => TypeOK
  BY DEF TypeInv
<1> QED BY <1>1, TypeInit, TypeStep, PTL DEF Spec

-----------------------------------------------------------------------------

\* Recording and job appear and disappear together.
RowsTogether ==
    \A r \in Recordings : recording[r] = "present" <=> status[r] # "absent"

\* A claim has been counted before its attempt starts.
TokenPositive == \A w \in Workers : InAttempt(w) => token[w] # 0

\* What makes lease_owner a fence: the parts depend on each other, since only an
\* owner whose token is the latest may write a result, and only an active job has
\* an owner.
Fence ==
    /\ RowsTogether
    /\ NoStrandedJob
    /\ TokenPositive
    /\ OwnerIsLatestAttempt
    /\ ResultFromLastClaim
    /\ DeletedStaysDeleted

\* Nothing is published yet, so the fence holds.
LEMMA FenceInit == Init => Fence
BY SymbolAssumption DEF Init, Fence, RowsTogether, NoStrandedJob, TokenPositive,
   OwnerIsLatestAttempt, ResultFromLastClaim, DeletedStaysDeleted

\* The fence holds across every step.
\* Every transaction of every process preserves the fence.
LEMMA FenceStep == TypeInv /\ Fence /\ [Next]_vars => Fence'
<1> SUFFICES ASSUME TypeInv, Fence, [Next]_vars PROVE Fence'
  OBVIOUS
<1> USE SymbolAssumption, TimingAssumption
    DEF TypeInv, TypeOK, TaskKnown, Fence, RowsTogether, NoStrandedJob, TokenPositive,
        OwnerIsLatestAttempt, ResultFromLastClaim, DeletedStaysDeleted
<1>1. ASSUME NEW r \in Recordings, CreateRecordingAndJob(r)
     PROVE  Fence'
  BY <1>1 DEF CreateRecordingAndJob
<1>2. ASSUME NEW r \in Recordings, DeleteRecording(r)
     PROVE  Fence'
  BY <1>2 DEF DeleteRecording
<1>3. ASSUME NEW ready \in BOOLEAN, RegisterWorker(ready)
     PROVE  Fence'
  BY <1>3 DEF RegisterWorker, Fault
<1>4. CASE Tick
  BY <1>4 DEF Tick, Stalled, Fault
<1>5. ASSUME NEW w \in Workers, StartWorker(w)
     PROVE  Fence'
  BY <1>5 DEF StartWorker
<1>6. ASSUME NEW w \in Workers, StopWorker(w)
     PROVE  Fence'
  BY <1>6 DEF StopWorker, Die, Fault
<1>7. ASSUME NEW w \in Workers, CrashWorker(w)
     PROVE  Fence'
  BY <1>7 DEF CrashWorker, Die, Fault
<1>8. ASSUME NEW w \in Workers, PollEmpty(w)
     PROVE  Fence'
  BY <1>8 DEF PollEmpty, vars
<1>9. ASSUME NEW w \in Workers, RenewLease(w)
     PROVE  Fence'
  BY <1>9 DEF RenewLease, Renewable
<1>10. ASSUME NEW w \in Workers, NEW r \in Recordings, ClaimNextJob(w, r)
     PROVE  Fence'
  BY <1>10 DEF ClaimNextJob, Eligible, DueQueued, ExpiredLease
<1>11. ASSUME NEW w \in Workers, ProcessJob(w)
     PROVE  Fence'
  BY <1>11 DEF ProcessJob, Continue, Die
<1>12. ASSUME NEW w \in Workers, StartAttempt(w)
     PROVE  Fence'
  BY <1>12 DEF StartAttempt, Continue, Fault
<1>13. ASSUME NEW w \in Workers, Transcribe(w)
     PROVE  Fence'
  BY <1>13 DEF Transcribe, Continue, Fault
<1>14. ASSUME NEW w \in Workers, MaterializeFails(w)
     PROVE  Fence'
  BY <1>14 DEF MaterializeFails, Die, Fault
<1>15. ASSUME NEW w \in Workers, AsrError(w)
     PROVE  Fence'
  BY <1>15 DEF AsrError, Continue, EndAttempt
<1>16. ASSUME NEW w \in Workers, SaveTranscriptPreview(w)
     PROVE  Fence'
  BY <1>16 DEF SaveTranscriptPreview, Continue, EndAttempt, Owns, RowGone, Lost
<1>17. ASSUME NEW w \in Workers, ReservePipeline(w)
     PROVE  Fence'
  BY <1>17 DEF ReservePipeline, Continue, Fault
<1>18. ASSUME NEW w \in Workers, NEW s \in PipelineStatuses, ReportStage(w, s)
     PROVE  Fence'
  BY <1>18 DEF ReportStage, Continue, Owns, RowGone
<1>19. ASSUME NEW w \in Workers, PipelineRaises(w)
     PROVE  Fence'
  BY <1>19 DEF PipelineRaises, Continue, Fault
<1>20. ASSUME NEW w \in Workers, PipelineReturns(w)
     PROVE  Fence'
  BY <1>20 DEF PipelineReturns, Continue, Owns, RowGone
<1>21. ASSUME NEW w \in Workers, FinalizeRecordingJob(w)
     PROVE  Fence'
  BY <1>21 DEF FinalizeRecordingJob, Continue, EndAttempt, Owns, RowGone, ReleaseLease, Fault
<1>22. ASSUME NEW w \in Workers, FinalizeRollsBack(w)
     PROVE  Fence'
  BY <1>22 DEF FinalizeRollsBack, Continue, Owns, RowGone, Fault
<1>23. ASSUME NEW w \in Workers, PipelineError(w)
     PROVE  Fence'
  BY <1>23 DEF PipelineError, Continue, EndAttempt
<1>24. ASSUME NEW w \in Workers, DeferRecordingJob(w)
     PROVE  Fence'
  BY <1>24 DEF DeferRecordingJob, EndAttempt, Owns, RowGone, ReleaseLease
<1>25. ASSUME NEW w \in Workers, FailRecordingJob(w)
     PROVE  Fence'
  BY <1>25 DEF FailRecordingJob, EndAttempt, Owns, RowGone, ReleaseLease
<1>26. ASSUME NEW w \in Workers, AbandonAttempt(w)
     PROVE  Fence'
  BY <1>26 DEF AbandonAttempt, EndAttempt, Lost, RowGone
<1>27. ASSUME NEW w \in Workers, FinalizationErrorEscapes(w)
     PROVE  Fence'
  BY <1>27 DEF FinalizationErrorEscapes, Die, RowGone
<1>28. CASE UNCHANGED vars
  BY <1>28 DEF vars
<1> HIDE DEF TypeInv, TypeOK, TaskKnown, PipelineStatuses, Fence, RowsTogether, NoStrandedJob, TokenPositive,
             OwnerIsLatestAttempt, ResultFromLastClaim, DeletedStaysDeleted
<1> QED
  BY <1>1, <1>2, <1>3, <1>4, <1>5, <1>6, <1>7, <1>8, <1>9, <1>10, <1>11, <1>12, <1>13, <1>14,
     <1>15, <1>16, <1>17, <1>18, <1>19, <1>20, <1>21, <1>22, <1>23, <1>24, <1>25, <1>26, <1>27, <1>28
  DEF Next, WorkerStep, AttemptStep

\* No job is stranded, an owner is in the latest attempt, results come from the
\* last claim only, and what is deleted stays deleted -- for any number of
\* workers and recordings.
THEOREM FenceCorrect ==
    Spec => [](NoStrandedJob /\ OwnerIsLatestAttempt /\ ResultFromLastClaim /\ DeletedStaysDeleted)
<1>1. Fence => NoStrandedJob /\ OwnerIsLatestAttempt /\ ResultFromLastClaim /\ DeletedStaysDeleted
  BY DEF Fence
<1> QED BY <1>1, TypeInit, TypeStep, FenceInit, FenceStep, PTL DEF Spec

-----------------------------------------------------------------------------

\* Only these steps of an attempt hold a reservation.
HoldSteps ==
    \A w \in Workers :
        hold[w] # "none" => pc[w] \in {"transcribe", "process", "pipeline_error"}

\* Each way out of a step that holds a reservation settles it or keeps to these.
LEMMA HoldStep == TypeInv /\ HoldSteps /\ [Next]_vars => HoldSteps'
<1> SUFFICES ASSUME TypeInv, HoldSteps, [Next]_vars PROVE HoldSteps'
  OBVIOUS
<1> USE SymbolAssumption, TimingAssumption DEF TypeInv, TypeOK, TaskKnown, HoldSteps
<1>1. ASSUME NEW r \in Recordings, CreateRecordingAndJob(r)
     PROVE  HoldSteps'
  BY <1>1 DEF CreateRecordingAndJob
<1>2. ASSUME NEW r \in Recordings, DeleteRecording(r)
     PROVE  HoldSteps'
  BY <1>2 DEF DeleteRecording
<1>3. ASSUME NEW ready \in BOOLEAN, RegisterWorker(ready)
     PROVE  HoldSteps'
  BY <1>3 DEF RegisterWorker, Fault
<1>4. CASE Tick
  BY <1>4 DEF Tick, Stalled, Fault
<1>5. ASSUME NEW w \in Workers, StartWorker(w)
     PROVE  HoldSteps'
  BY <1>5 DEF StartWorker
<1>6. ASSUME NEW w \in Workers, StopWorker(w)
     PROVE  HoldSteps'
  BY <1>6 DEF StopWorker, Die, Fault
<1>7. ASSUME NEW w \in Workers, CrashWorker(w)
     PROVE  HoldSteps'
  BY <1>7 DEF CrashWorker, Die, Fault
<1>8. ASSUME NEW w \in Workers, PollEmpty(w)
     PROVE  HoldSteps'
  BY <1>8 DEF PollEmpty, vars
<1>9. ASSUME NEW w \in Workers, RenewLease(w)
     PROVE  HoldSteps'
  BY <1>9 DEF RenewLease, Renewable
<1>10. ASSUME NEW w \in Workers, NEW r \in Recordings, ClaimNextJob(w, r)
     PROVE  HoldSteps'
  BY <1>10 DEF ClaimNextJob, Eligible, DueQueued, ExpiredLease
<1>11. ASSUME NEW w \in Workers, ProcessJob(w)
     PROVE  HoldSteps'
  BY <1>11 DEF ProcessJob, Continue, Die
<1>12. ASSUME NEW w \in Workers, StartAttempt(w)
     PROVE  HoldSteps'
  BY <1>12 DEF StartAttempt, Continue, Fault
<1>13. ASSUME NEW w \in Workers, Transcribe(w)
     PROVE  HoldSteps'
  BY <1>13 DEF Transcribe, Continue, Fault
<1>14. ASSUME NEW w \in Workers, MaterializeFails(w)
     PROVE  HoldSteps'
  BY <1>14 DEF MaterializeFails, Die, Fault
<1>15. ASSUME NEW w \in Workers, AsrError(w)
     PROVE  HoldSteps'
  BY <1>15 DEF AsrError, Continue, EndAttempt
<1>16. ASSUME NEW w \in Workers, SaveTranscriptPreview(w)
     PROVE  HoldSteps'
  BY <1>16 DEF SaveTranscriptPreview, Continue, EndAttempt, Owns, RowGone, Lost
<1>17. ASSUME NEW w \in Workers, ReservePipeline(w)
     PROVE  HoldSteps'
  BY <1>17 DEF ReservePipeline, Continue, Fault
<1>18. ASSUME NEW w \in Workers, NEW s \in PipelineStatuses, ReportStage(w, s)
     PROVE  HoldSteps'
  BY <1>18 DEF ReportStage, Continue, Owns, RowGone
<1>19. ASSUME NEW w \in Workers, PipelineRaises(w)
     PROVE  HoldSteps'
  BY <1>19 DEF PipelineRaises, Continue, Fault
<1>20. ASSUME NEW w \in Workers, PipelineReturns(w)
     PROVE  HoldSteps'
  BY <1>20 DEF PipelineReturns, Continue, Owns, RowGone
<1>21. ASSUME NEW w \in Workers, FinalizeRecordingJob(w)
     PROVE  HoldSteps'
  BY <1>21 DEF FinalizeRecordingJob, Continue, EndAttempt, Owns, RowGone, ReleaseLease, Fault
<1>22. ASSUME NEW w \in Workers, FinalizeRollsBack(w)
     PROVE  HoldSteps'
  BY <1>22 DEF FinalizeRollsBack, Continue, Owns, RowGone, Fault
<1>23. ASSUME NEW w \in Workers, PipelineError(w)
     PROVE  HoldSteps'
  BY <1>23 DEF PipelineError, Continue, EndAttempt
<1>24. ASSUME NEW w \in Workers, DeferRecordingJob(w)
     PROVE  HoldSteps'
  BY <1>24 DEF DeferRecordingJob, EndAttempt, Owns, RowGone, ReleaseLease
<1>25. ASSUME NEW w \in Workers, FailRecordingJob(w)
     PROVE  HoldSteps'
  BY <1>25 DEF FailRecordingJob, EndAttempt, Owns, RowGone, ReleaseLease
<1>26. ASSUME NEW w \in Workers, AbandonAttempt(w)
     PROVE  HoldSteps'
  BY <1>26 DEF AbandonAttempt, EndAttempt, Lost, RowGone
<1>27. ASSUME NEW w \in Workers, FinalizationErrorEscapes(w)
     PROVE  HoldSteps'
  BY <1>27 DEF FinalizationErrorEscapes, Die, RowGone
<1>28. CASE UNCHANGED vars
  BY <1>28 DEF vars
<1> QED
  BY <1>1, <1>2, <1>3, <1>4, <1>5, <1>6, <1>7, <1>8, <1>9, <1>10, <1>11, <1>12, <1>13, <1>14,
     <1>15, <1>16, <1>17, <1>18, <1>19, <1>20, <1>21, <1>22, <1>23, <1>24, <1>25, <1>26, <1>27, <1>28
  DEF Next, WorkerStep, AttemptStep

\* Whatever way a worker leaves an attempt, no budget reservation stays open.
THEOREM SettledCorrect == Spec => []SettledBetweenJobs
<1>1. Init => HoldSteps
  BY DEF Init, HoldSteps
<1>2. HoldSteps => SettledBetweenJobs
  BY DEF HoldSteps, SettledBetweenJobs
<1> QED BY <1>1, <1>2, TypeInit, TypeStep, HoldStep, PTL DEF Spec

\* The invariant TLC checks on two workers and two recordings holds for any number of both.
THEOREM QueueInvCorrect == Spec => []QueueInv
<1>1. TypeOK /\ SettledBetweenJobs
      /\ (NoStrandedJob /\ OwnerIsLatestAttempt /\ ResultFromLastClaim /\ DeletedStaysDeleted)
        => QueueInv
  BY DEF QueueInv
<1> QED BY <1>1, TypeCorrect, FenceCorrect, SettledCorrect, PTL

-----------------------------------------------------------------------------

\* A step changes a preview only to the latest attempt's, and takes a job from an
\* owner only when the lease has run out.
Orderly ==
    \A r \in Recordings :
        /\ preview'[r] # preview[r] => preview'[r] \in {0, attempts[r]}
        /\ owner[r] # NoWorker /\ owner'[r] \in Workers \ {owner[r]} => lease[r] = 0

\* Every step of a well typed, fenced state is orderly.
LEMMA OrderlyStep == TypeInv /\ Fence /\ [Next]_vars => Orderly
<1> SUFFICES ASSUME TypeInv, Fence, [Next]_vars PROVE Orderly
  OBVIOUS
<1> USE SymbolAssumption, TimingAssumption
    DEF TypeInv, TypeOK, TaskKnown, Fence, RowsTogether, NoStrandedJob, TokenPositive,
        OwnerIsLatestAttempt, ResultFromLastClaim, DeletedStaysDeleted, Orderly
<1>1. ASSUME NEW r \in Recordings, CreateRecordingAndJob(r)
     PROVE  Orderly
  BY <1>1 DEF CreateRecordingAndJob
<1>2. ASSUME NEW r \in Recordings, DeleteRecording(r)
     PROVE  Orderly
  BY <1>2 DEF DeleteRecording
<1>3. ASSUME NEW ready \in BOOLEAN, RegisterWorker(ready)
     PROVE  Orderly
  BY <1>3 DEF RegisterWorker, Fault
<1>4. CASE Tick
  BY <1>4 DEF Tick, Stalled, Fault
<1>5. ASSUME NEW w \in Workers, StartWorker(w)
     PROVE  Orderly
  BY <1>5 DEF StartWorker
<1>6. ASSUME NEW w \in Workers, StopWorker(w)
     PROVE  Orderly
  BY <1>6 DEF StopWorker, Die, Fault
<1>7. ASSUME NEW w \in Workers, CrashWorker(w)
     PROVE  Orderly
  BY <1>7 DEF CrashWorker, Die, Fault
<1>8. ASSUME NEW w \in Workers, PollEmpty(w)
     PROVE  Orderly
  BY <1>8 DEF PollEmpty, vars
<1>9. ASSUME NEW w \in Workers, RenewLease(w)
     PROVE  Orderly
  BY <1>9 DEF RenewLease, Renewable
<1>10. ASSUME NEW w \in Workers, NEW r \in Recordings, ClaimNextJob(w, r)
     PROVE  Orderly
  BY <1>10 DEF ClaimNextJob, Eligible, DueQueued, ExpiredLease
<1>11. ASSUME NEW w \in Workers, ProcessJob(w)
     PROVE  Orderly
  BY <1>11 DEF ProcessJob, Continue, Die
<1>12. ASSUME NEW w \in Workers, StartAttempt(w)
     PROVE  Orderly
  BY <1>12 DEF StartAttempt, Continue, Fault
<1>13. ASSUME NEW w \in Workers, Transcribe(w)
     PROVE  Orderly
  BY <1>13 DEF Transcribe, Continue, Fault
<1>14. ASSUME NEW w \in Workers, MaterializeFails(w)
     PROVE  Orderly
  BY <1>14 DEF MaterializeFails, Die, Fault
<1>15. ASSUME NEW w \in Workers, AsrError(w)
     PROVE  Orderly
  BY <1>15 DEF AsrError, Continue, EndAttempt
<1>16. ASSUME NEW w \in Workers, SaveTranscriptPreview(w)
     PROVE  Orderly
  BY <1>16 DEF SaveTranscriptPreview, Continue, EndAttempt, Owns, RowGone, Lost
<1>17. ASSUME NEW w \in Workers, ReservePipeline(w)
     PROVE  Orderly
  BY <1>17 DEF ReservePipeline, Continue, Fault
<1>18. ASSUME NEW w \in Workers, NEW s \in PipelineStatuses, ReportStage(w, s)
     PROVE  Orderly
  BY <1>18 DEF ReportStage, Continue, Owns, RowGone
<1>19. ASSUME NEW w \in Workers, PipelineRaises(w)
     PROVE  Orderly
  BY <1>19 DEF PipelineRaises, Continue, Fault
<1>20. ASSUME NEW w \in Workers, PipelineReturns(w)
     PROVE  Orderly
  BY <1>20 DEF PipelineReturns, Continue, Owns, RowGone
<1>21. ASSUME NEW w \in Workers, FinalizeRecordingJob(w)
     PROVE  Orderly
  BY <1>21 DEF FinalizeRecordingJob, Continue, EndAttempt, Owns, RowGone, ReleaseLease, Fault
<1>22. ASSUME NEW w \in Workers, FinalizeRollsBack(w)
     PROVE  Orderly
  BY <1>22 DEF FinalizeRollsBack, Continue, Owns, RowGone, Fault
<1>23. ASSUME NEW w \in Workers, PipelineError(w)
     PROVE  Orderly
  BY <1>23 DEF PipelineError, Continue, EndAttempt
<1>24. ASSUME NEW w \in Workers, DeferRecordingJob(w)
     PROVE  Orderly
  BY <1>24 DEF DeferRecordingJob, EndAttempt, Owns, RowGone, ReleaseLease
<1>25. ASSUME NEW w \in Workers, FailRecordingJob(w)
     PROVE  Orderly
  BY <1>25 DEF FailRecordingJob, EndAttempt, Owns, RowGone, ReleaseLease
<1>26. ASSUME NEW w \in Workers, AbandonAttempt(w)
     PROVE  Orderly
  BY <1>26 DEF AbandonAttempt, EndAttempt, Lost, RowGone
<1>27. ASSUME NEW w \in Workers, FinalizationErrorEscapes(w)
     PROVE  Orderly
  BY <1>27 DEF FinalizationErrorEscapes, Die, RowGone
<1>28. CASE UNCHANGED vars
  BY <1>28 DEF vars
<1> QED
  BY <1>1, <1>2, <1>3, <1>4, <1>5, <1>6, <1>7, <1>8, <1>9, <1>10, <1>11, <1>12, <1>13, <1>14,
     <1>15, <1>16, <1>17, <1>18, <1>19, <1>20, <1>21, <1>22, <1>23, <1>24, <1>25, <1>26, <1>27, <1>28
  DEF Next, WorkerStep, AttemptStep

\* A stalled worker never overwrites the preview of the one that reclaimed the job.
THEOREM PreviewCorrect == Spec => PreviewFromLatestAttempt
<1>1. Orderly => \A r \in Recordings :
                    preview'[r] # preview[r] => preview'[r] \in {0, attempts[r]}
  BY DEF Orderly
<1> QED
  BY <1>1, TypeInit, TypeStep, FenceInit, FenceStep, OrderlyStep, PTL
  DEF Spec, PreviewFromLatestAttempt

\* claim_next_job never takes a job whose lease is still running.
THEOREM LeaseCorrect == Spec => LeaseNotStolen
<1>1. Orderly => \A r \in Recordings :
                    owner[r] # NoWorker /\ owner'[r] \in Workers \ {owner[r]}
                        => lease[r] = 0
  BY DEF Orderly
<1> QED
  BY <1>1, TypeInit, TypeStep, FenceInit, FenceStep, OrderlyStep, PTL
  DEF Spec, LeaseNotStolen

\* No worker oversteps in another's attempt.
THEOREM OrderlyCorrect == Spec => OrderlySteps
BY PreviewCorrect, LeaseCorrect DEF OrderlySteps

-----------------------------------------------------------------------------

\* Every step of the recording queue is one of the abstract queue, or none at all.
LEMMA QueueStep == TypeInv /\ Fence /\ [Next]_vars => [Queue!Next]_Queue!vars
<1> SUFFICES ASSUME TypeInv, Fence, [Next]_vars PROVE [Queue!Next]_Queue!vars
  OBVIOUS
<1> USE SymbolAssumption, TimingAssumption
    DEF TypeInv, TypeOK, TaskKnown, Fence, RowsTogether, NoStrandedJob, TokenPositive,
        OwnerIsLatestAttempt, ResultFromLastClaim, DeletedStaysDeleted
<1>1. ASSUME NEW r \in Recordings, CreateRecordingAndJob(r)
     PROVE  [Queue!Next]_Queue!vars
  <2>1. Phase[r] = "none"
    BY <1>1 DEF CreateRecordingAndJob, Phase
  <2>2. Phase' = [Phase EXCEPT ![r] = "waiting"]
    BY <1>1 DEF CreateRecordingAndJob, Phase
  <2>3. Queue!Enqueue(r)
    BY <1>1, <2>1, <2>2 DEF CreateRecordingAndJob, Queue!Enqueue
  <2> QED BY <2>3 DEF Queue!Next
<1>2. ASSUME NEW r \in Recordings, DeleteRecording(r)
     PROVE  [Queue!Next]_Queue!vars
  <2>1. Phase[r] \notin {"none", "gone"}
    BY <1>2 DEF DeleteRecording, Phase
  <2>2. Phase' = [Phase EXCEPT ![r] = "gone"]
    BY <1>2 DEF DeleteRecording, Phase
  <2>3. Queue!Withdraw(r)
    BY <1>2, <2>1, <2>2 DEF DeleteRecording, Queue!Withdraw
  <2> QED BY <2>3 DEF Queue!Next
<1>3. ASSUME NEW ready \in BOOLEAN, RegisterWorker(ready)
     PROVE  [Queue!Next]_Queue!vars
  BY <1>3 DEF RegisterWorker, Fault, Phase, Queue!vars
<1>4. CASE Tick
  BY <1>4 DEF Tick, Stalled, Fault, Phase, Queue!vars
<1>5. ASSUME NEW w \in Workers, StartWorker(w)
     PROVE  [Queue!Next]_Queue!vars
  BY <1>5 DEF StartWorker, Phase, Queue!vars
<1>6. ASSUME NEW w \in Workers, StopWorker(w)
     PROVE  [Queue!Next]_Queue!vars
  BY <1>6 DEF StopWorker, Die, Fault, Phase, Queue!vars
<1>7. ASSUME NEW w \in Workers, CrashWorker(w)
     PROVE  [Queue!Next]_Queue!vars
  BY <1>7 DEF CrashWorker, Die, Fault, Phase, Queue!vars
<1>8. ASSUME NEW w \in Workers, PollEmpty(w)
     PROVE  [Queue!Next]_Queue!vars
  BY <1>8 DEF PollEmpty, vars, Phase, Queue!vars
<1>9. ASSUME NEW w \in Workers, RenewLease(w)
     PROVE  [Queue!Next]_Queue!vars
  BY <1>9 DEF RenewLease, Renewable, Phase, Queue!vars
<1>10. ASSUME NEW w \in Workers, NEW r \in Recordings, ClaimNextJob(w, r)
     PROVE  [Queue!Next]_Queue!vars
  <2>1. Phase[r] \in {"waiting", "running"}
    BY <1>10 DEF ClaimNextJob, Eligible, DueQueued, ExpiredLease, Phase
  <2>2. Phase' = [Phase EXCEPT ![r] = "running"]
    BY <1>10 DEF ClaimNextJob, Eligible, DueQueued, ExpiredLease, Phase
  <2>3. Queue!Begin(r)
    BY <1>10, <2>1, <2>2 DEF ClaimNextJob, Eligible, DueQueued, ExpiredLease, Queue!Begin
  <2> QED BY <2>3 DEF Queue!Next
<1>11. ASSUME NEW w \in Workers, ProcessJob(w)
     PROVE  [Queue!Next]_Queue!vars
  BY <1>11 DEF ProcessJob, Continue, Die, Phase, Queue!vars
<1>12. ASSUME NEW w \in Workers, StartAttempt(w)
     PROVE  [Queue!Next]_Queue!vars
  BY <1>12 DEF StartAttempt, Continue, Fault, Phase, Queue!vars
<1>13. ASSUME NEW w \in Workers, Transcribe(w)
     PROVE  [Queue!Next]_Queue!vars
  BY <1>13 DEF Transcribe, Continue, Fault, Phase, Queue!vars
<1>14. ASSUME NEW w \in Workers, MaterializeFails(w)
     PROVE  [Queue!Next]_Queue!vars
  BY <1>14 DEF MaterializeFails, Die, Fault, Phase, Queue!vars
<1>15. ASSUME NEW w \in Workers, AsrError(w)
     PROVE  [Queue!Next]_Queue!vars
  BY <1>15 DEF AsrError, Continue, EndAttempt, Phase, Queue!vars
<1>16. ASSUME NEW w \in Workers, SaveTranscriptPreview(w)
     PROVE  [Queue!Next]_Queue!vars
  BY <1>16 DEF SaveTranscriptPreview, Continue, EndAttempt, Owns, RowGone, Lost, Phase, Queue!vars
<1>17. ASSUME NEW w \in Workers, ReservePipeline(w)
     PROVE  [Queue!Next]_Queue!vars
  BY <1>17 DEF ReservePipeline, Continue, Fault, Phase, Queue!vars
<1>18. ASSUME NEW w \in Workers, NEW s \in PipelineStatuses, ReportStage(w, s)
     PROVE  [Queue!Next]_Queue!vars
  BY <1>18 DEF ReportStage, Continue, Owns, RowGone, Phase, Queue!vars
<1>19. ASSUME NEW w \in Workers, PipelineRaises(w)
     PROVE  [Queue!Next]_Queue!vars
  BY <1>19 DEF PipelineRaises, Continue, Fault, Phase, Queue!vars
<1>20. ASSUME NEW w \in Workers, PipelineReturns(w)
     PROVE  [Queue!Next]_Queue!vars
  BY <1>20 DEF PipelineReturns, Continue, Owns, RowGone, Phase, Queue!vars
<1>21. ASSUME NEW w \in Workers, FinalizeRecordingJob(w)
     PROVE  [Queue!Next]_Queue!vars
  <2>1. task[w] \in Recordings
    BY <1>21 DEF FinalizeRecordingJob
  <2>2. PICK i \in Recordings : i = task[w]
    BY <2>1
  <2>3. Phase[i] = "running"
    BY <1>21, <2>2 DEF FinalizeRecordingJob, Continue, EndAttempt, Owns, RowGone, ReleaseLease, Fault, Phase
  <2>4. Phase' = [Phase EXCEPT ![i] = "done"]
    BY <1>21, <2>2 DEF FinalizeRecordingJob, Continue, EndAttempt, Owns, RowGone, ReleaseLease, Fault, Phase
  <2>5. Queue!Deliver(i)
    BY <1>21, <2>2, <2>3, <2>4 DEF FinalizeRecordingJob, Continue, EndAttempt, Owns, RowGone, ReleaseLease, Fault, Queue!Deliver
  <2> QED BY <2>5 DEF Queue!Next
<1>22. ASSUME NEW w \in Workers, FinalizeRollsBack(w)
     PROVE  [Queue!Next]_Queue!vars
  BY <1>22 DEF FinalizeRollsBack, Continue, Owns, RowGone, Fault, Phase, Queue!vars
<1>23. ASSUME NEW w \in Workers, PipelineError(w)
     PROVE  [Queue!Next]_Queue!vars
  BY <1>23 DEF PipelineError, Continue, EndAttempt, Phase, Queue!vars
<1>24. ASSUME NEW w \in Workers, DeferRecordingJob(w)
     PROVE  [Queue!Next]_Queue!vars
  <2>1. task[w] \in Recordings
    BY <1>24 DEF DeferRecordingJob
  <2>2. PICK i \in Recordings : i = task[w]
    BY <2>1
  <2>3. Phase[i] = "running"
    BY <1>24, <2>2 DEF DeferRecordingJob, EndAttempt, Owns, RowGone, ReleaseLease, Phase
  <2>4. Phase' = [Phase EXCEPT ![i] = "waiting"]
    BY <1>24, <2>2 DEF DeferRecordingJob, EndAttempt, Owns, RowGone, ReleaseLease, Phase
  <2>5. Queue!PutBack(i)
    BY <1>24, <2>2, <2>3, <2>4 DEF DeferRecordingJob, EndAttempt, Owns, RowGone, ReleaseLease, Queue!PutBack
  <2> QED BY <2>5 DEF Queue!Next
<1>25. ASSUME NEW w \in Workers, FailRecordingJob(w)
     PROVE  [Queue!Next]_Queue!vars
  <2>1. task[w] \in Recordings
    BY <1>25 DEF FailRecordingJob
  <2>2. PICK i \in Recordings : i = task[w]
    BY <2>1
  <2>3. Phase[i] = "running"
    BY <1>25, <2>2 DEF FailRecordingJob, EndAttempt, Owns, RowGone, ReleaseLease, Phase
  <2>4. Phase' = [Phase EXCEPT ![i] = "failed"]
    BY <1>25, <2>2 DEF FailRecordingJob, EndAttempt, Owns, RowGone, ReleaseLease, Phase
  <2>5. Queue!GiveUp(i)
    BY <1>25, <2>2, <2>3, <2>4 DEF FailRecordingJob, EndAttempt, Owns, RowGone, ReleaseLease, Queue!GiveUp
  <2> QED BY <2>5 DEF Queue!Next
<1>26. ASSUME NEW w \in Workers, AbandonAttempt(w)
     PROVE  [Queue!Next]_Queue!vars
  BY <1>26 DEF AbandonAttempt, EndAttempt, Lost, RowGone, Phase, Queue!vars
<1>27. ASSUME NEW w \in Workers, FinalizationErrorEscapes(w)
     PROVE  [Queue!Next]_Queue!vars
  BY <1>27 DEF FinalizationErrorEscapes, Die, RowGone, Phase, Queue!vars
<1>28. CASE UNCHANGED vars
  BY <1>28 DEF vars, Phase, Queue!vars
<1> QED
  BY <1>1, <1>2, <1>3, <1>4, <1>5, <1>6, <1>7, <1>8, <1>9, <1>10, <1>11, <1>12, <1>13, <1>14,
     <1>15, <1>16, <1>17, <1>18, <1>19, <1>20, <1>21, <1>22, <1>23, <1>24, <1>25, <1>26, <1>27, <1>28
  DEF Next, WorkerStep, AttemptStep

\* The recording queue implements the abstract durable queue.
THEOREM QueueCorrect == Spec => ImplementsDurableQueue
<1>1. Init => Queue!Init
  BY DEF Init, Queue!Init, Phase
<1> QED
  BY <1>1, TypeInit, TypeStep, FenceInit, FenceStep, QueueStep, PTL
  DEF Spec, ImplementsDurableQueue, Queue!Spec

=============================================================================
