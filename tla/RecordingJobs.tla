---------------------------- MODULE RecordingJobs ---------------------------
(***************************************************************************)
(* The recording queue: the API publishes a recording with its job, worker *)
(* processes claim jobs under a lease and carry each one through           *)
(* recognition, extraction and archive persistence, the owner may delete   *)
(* the recording at any moment.                                            *)
(*                                                                         *)
(* Every database transaction is one action, and so is every call of an    *)
(* external service; between two of them any other process may step.  Time *)
(* is relative: lease[r] and delay[r] are what is left of lease_expires_at *)
(* and next_attempt_at, and Tick consumes one unit of both.                *)
(***************************************************************************)
EXTENDS Integers

CONSTANTS
    Workers,                   \* worker processes
    Recordings,                \* recordings, each with its one job
    NoWorker,                  \* lease_owner IS NULL
    NoRecording,               \* a worker that has no attempt under way
    LeaseTicks,                \* job_lease_seconds
    RetryTicks,                \* asr_retry_seconds
    MaxFaults,                 \* bound: how often the environment misbehaves
    RequiresRegisteredWorker   \* asr_client.requires_registered_worker

ASSUME SymbolAssumption ==
    /\ NoWorker \notin Workers
    /\ NoRecording \notin Recordings

ASSUME TimingAssumption ==
    /\ LeaseTicks \in Nat \ {0}
    /\ RetryTicks \in Nat
    /\ MaxFaults \in Nat
    /\ RequiresRegisteredWorker \in BOOLEAN

VARIABLES
    recording,   \* RecordingRow: "none", "present" or "deleted"
    status,      \* ProcessingJobRow.status, "absent" when there is no row
    owner,       \* ProcessingJobRow.lease_owner
    lease,       \* time left to lease_expires_at, NoLease when that is NULL
    delay,       \* time left to next_attempt_at
    attempts,    \* ProcessingJobRow.attempts
    preview,     \* the attempt that wrote transcript_preview, 0 if none
    claims,      \* the attempt whose archive claims are stored, 0 if none
    result,      \* the attempt whose PipelineResultRow is stored, 0 if none
    asrReady,    \* the registered recogniser says "ready"
    pc,          \* where a worker's claim loop stands
    task,        \* the recording of the attempt under way
    token,       \* job.attempts as the claim returned it
    heartbeat,   \* the workers whose LeaseHeartbeat thread still ticks
    hold,        \* the AI budget reservation the attempt has not settled
    faults       \* environment failures so far

jobVars    == <<recording, status, owner, lease, delay, attempts>>
outVars    == <<preview, claims, result>>
workerVars == <<pc, task, token, heartbeat, hold>>
vars       == <<recording, status, owner, lease, delay, attempts, preview, claims,
                result, asrReady, pc, task, token, heartbeat, hold, faults>>

NoLease == -1

TERMINAL_JOB_STATUSES == {"completed", "failed"}
PipelineStatuses      == {"cleaning", "extracting", "resolving"}
ActiveStatuses        == {"transcribing"} \cup PipelineStatuses
JobStatus             == {"queued"} \cup ActiveStatuses \cup TERMINAL_JOB_STATUSES

\* Where an attempt can stand between two of its transactions or calls.
AttemptSteps ==
    {"claimed", "gate", "transcribe", "asr_retryable", "asr_fatal", "preview",
     "reserve", "process", "finalize", "pipeline_error", "defer", "fail"}
WorkerSteps  == {"down", "idle"} \cup AttemptSteps

InAttempt(w) == pc[w] \in AttemptSteps

\* The environment fails once more.
Fault == faults < MaxFaults /\ faults' = faults + 1

Init ==
    /\ recording = [r \in Recordings |-> "none"]
    /\ status    = [r \in Recordings |-> "absent"]
    /\ owner     = [r \in Recordings |-> NoWorker]
    /\ lease     = [r \in Recordings |-> NoLease]
    /\ delay     = [r \in Recordings |-> 0]
    /\ attempts  = [r \in Recordings |-> 0]
    /\ preview   = [r \in Recordings |-> 0]
    /\ claims    = [r \in Recordings |-> 0]
    /\ result    = [r \in Recordings |-> 0]
    /\ asrReady  = FALSE
    /\ pc        = [w \in Workers |-> "down"]
    /\ task      = [w \in Workers |-> NoRecording]
    /\ token     = [w \in Workers |-> 0]
    /\ heartbeat = {}
    /\ hold      = [w \in Workers |-> "none"]
    /\ faults    = 0

-----------------------------------------------------------------------------
(* The API process                                                         *)

\* create_recording_and_job: both rows, one transaction.
CreateRecordingAndJob(r) ==
    /\ recording[r] = "none"
    /\ recording' = [recording EXCEPT ![r] = "present"]
    /\ status'    = [status EXCEPT ![r] = "queued"]
    /\ UNCHANGED <<owner, lease, delay, attempts, outVars, asrReady, workerVars, faults>>

\* delete_recording: job, result, claims and recording go in one transaction.
DeleteRecording(r) ==
    /\ recording[r] = "present"
    /\ recording' = [recording EXCEPT ![r] = "deleted"]
    /\ status'    = [status EXCEPT ![r] = "absent"]
    /\ owner'     = [owner EXCEPT ![r] = NoWorker]
    /\ lease'     = [lease EXCEPT ![r] = NoLease]
    /\ delay'     = [delay EXCEPT ![r] = 0]
    /\ preview'   = [preview EXCEPT ![r] = 0]
    /\ claims'    = [claims EXCEPT ![r] = 0]
    /\ result'    = [result EXCEPT ![r] = 0]
    /\ UNCHANGED <<attempts, asrReady, workerVars, faults>>

\* register_worker: the tunnelled recogniser announces itself.
RegisterWorker(ready) ==
    /\ RequiresRegisteredWorker
    /\ asrReady # ready
    /\ IF ready THEN UNCHANGED faults ELSE Fault
    /\ asrReady' = ready
    /\ UNCHANGED <<jobVars, outVars, workerVars>>

-----------------------------------------------------------------------------
(* Claiming and keeping a job                                              *)

DueQueued(r) ==
    /\ status[r] = "queued"
    /\ delay[r] = 0
    /\ lease[r] \in {NoLease, 0}

ExpiredLease(r) ==
    /\ status[r] \notin TERMINAL_JOB_STATUSES \cup {"absent"}
    /\ lease[r] = 0

\* A variant without crash recovery.
EligibleQueuedOnly(r) == DueQueued(r)

Eligible(r) == DueQueued(r) \/ ExpiredLease(r)

\* claim_next_job takes the oldest eligible row it can lock; SKIP LOCKED passes
\* over rows another transaction holds, so it may be any eligible row.
ClaimNextJob(w, r) ==
    /\ pc[w] = "idle"
    /\ Eligible(r)
    /\ owner'     = [owner EXCEPT ![r] = w]
    /\ lease'     = [lease EXCEPT ![r] = LeaseTicks]
    /\ attempts'  = [attempts EXCEPT ![r] = @ + 1]
    /\ status'    = [status EXCEPT ![r] = "transcribing"]
    /\ pc'        = [pc EXCEPT ![w] = "claimed"]
    /\ task'      = [task EXCEPT ![w] = r]
    /\ token'     = [token EXCEPT ![w] = attempts[r] + 1]
    /\ heartbeat' = heartbeat \cup {w}
    /\ UNCHANGED <<recording, delay, outVars, asrReady, hold, faults>>

\* An idle worker finds nothing and waits out its poll interval.
PollEmpty(w) ==
    /\ pc[w] = "idle"
    /\ ~ \E r \in Recordings : Eligible(r)
    /\ UNCHANGED vars

Renewable(w) ==
    /\ owner[task[w]] = w
    /\ status[task[w]] \notin TERMINAL_JOB_STATUSES

\* One tick of the heartbeat thread.  A refused renewal ends the thread, and so
\* does the attempt: a tick seen after it is the renewal that stop()'s join
\* timeout left in flight.
RenewLease(w) ==
    /\ w \in heartbeat
    /\ IF Renewable(w) THEN lease' = [lease EXCEPT ![task[w]] = LeaseTicks]
                       ELSE UNCHANGED lease
    /\ heartbeat' = IF Renewable(w) /\ InAttempt(w) THEN heartbeat ELSE heartbeat \ {w}
    /\ task'      = IF InAttempt(w) THEN task ELSE [task EXCEPT ![w] = NoRecording]
    /\ UNCHANGED <<recording, status, owner, delay, attempts, outVars, asrReady,
                   pc, token, hold, faults>>

\* Leases about to run out although their worker is alive and at work.
Stalled ==
    {r \in Recordings :
        /\ lease[r] = 1
        /\ \E w \in Workers : InAttempt(w) /\ owner[r] = w /\ task[w] = r}

\* Time passes.  The lease outlasts three heartbeats, so a live worker loses
\* one only when the environment holds all of them up.
Tick ==
    /\ \E r \in Recordings : lease[r] > 0 \/ delay[r] > 0
    /\ IF Stalled = {} THEN UNCHANGED faults ELSE Fault
    /\ lease' = [r \in Recordings |-> IF lease[r] > 0 THEN lease[r] - 1 ELSE lease[r]]
    /\ delay' = [r \in Recordings |-> IF delay[r] > 0 THEN delay[r] - 1 ELSE delay[r]]
    /\ UNCHANGED <<recording, status, owner, attempts, outVars, asrReady, workerVars>>

-----------------------------------------------------------------------------
(* How an attempt moves on                                                 *)

Continue(w, step) ==
    /\ pc' = [pc EXCEPT ![w] = step]
    /\ UNCHANGED <<task, token, heartbeat>>

\* process_once returns to the claim loop.  The heartbeat is told to stop; a
\* renewal already in flight may outlive the join timeout.
EndAttempt(w) ==
    /\ pc'    = [pc EXCEPT ![w] = "idle"]
    /\ token' = [token EXCEPT ![w] = 0]
    /\ \/ /\ heartbeat' = heartbeat \ {w}
          /\ task'      = [task EXCEPT ![w] = NoRecording]
       \/ /\ w \in heartbeat
          /\ UNCHANGED <<heartbeat, task>>

\* The process is gone, and its memory with it.  Its successor draws a new
\* worker id; since a new process has no attempt under way, nothing depends on
\* the slot's name being used again.
Die(w) ==
    /\ pc'        = [pc EXCEPT ![w] = "down"]
    /\ task'      = [task EXCEPT ![w] = NoRecording]
    /\ token'     = [token EXCEPT ![w] = 0]
    /\ heartbeat' = heartbeat \ {w}
    /\ hold'      = [hold EXCEPT ![w] = "none"]

\* The three answers of a transaction that must own the job it writes.
RowGone(w) == status[task[w]] = "absent"
Owns(w)    == ~RowGone(w) /\ owner[task[w]] = w
Lost(w)    == ~RowGone(w) /\ owner[task[w]] # w

ReleaseLease(r) ==
    /\ owner' = [owner EXCEPT ![r] = NoWorker]
    /\ lease' = [lease EXCEPT ![r] = NoLease]

-----------------------------------------------------------------------------
(* Worker processes                                                        *)

\* The supervisor starts the claim loop; the container restarts a dead one.
StartWorker(w) ==
    /\ pc[w] = "down"
    /\ pc' = [pc EXCEPT ![w] = "idle"]
    /\ UNCHANGED <<jobVars, outVars, asrReady, task, token, heartbeat, hold, faults>>

\* request_stop is honoured between jobs only.
StopWorker(w) ==
    /\ pc[w] = "idle"
    /\ Fault
    /\ Die(w)
    /\ UNCHANGED <<jobVars, outVars, asrReady>>

\* SIGKILL, power loss, out of memory.
CrashWorker(w) ==
    /\ InAttempt(w)
    /\ Fault
    /\ Die(w)
    /\ UNCHANGED <<jobVars, outVars, asrReady>>

\* _process_job.  Rows disappear together, so when the recording is missing
\* fail_job finds no job either and its LookupError ends the process.
ProcessJob(w) ==
    /\ pc[w] = "claimed"
    /\ \/ recording[task[w]] = "present" /\ Continue(w, "gate") /\ UNCHANGED hold
       \/ recording[task[w]] # "present" /\ Die(w)
    /\ UNCHANGED <<jobVars, outVars, asrReady, faults>>

GatePasses == ~RequiresRegisteredWorker \/ asrReady

\* The registration gate and the budget reservation for recognition.
StartAttempt(w) ==
    /\ pc[w] = "gate"
    /\ \/ ~GatePasses /\ Fault /\ Continue(w, "defer") /\ UNCHANGED hold
       \/ GatePasses /\ Fault /\ Continue(w, "defer") /\ UNCHANGED hold  \* budget exceeded
       \/ /\ GatePasses
          /\ Continue(w, "transcribe")
          /\ hold' = [hold EXCEPT ![w] = "asr"]
          /\ UNCHANGED faults
    /\ UNCHANGED <<jobVars, outVars, asrReady>>

\* transcribe: a transcript (the reservation is committed) or ASRClientError
\* (it is released).
Transcribe(w) ==
    /\ pc[w] = "transcribe"
    /\ hold' = [hold EXCEPT ![w] = "none"]
    /\ \/ Continue(w, "preview") /\ UNCHANGED faults
       \/ \E step \in {"asr_retryable", "asr_fatal"} : Fault /\ Continue(w, step)
    /\ UNCHANGED <<jobVars, outVars, asrReady>>

\* Storage errors of materialize are not ASRClientErrors and end the process.
\* They happen when storage is unreachable or the audio has been erased.
MaterializeFails(w) ==
    /\ pc[w] = "transcribe"
    /\ IF recording[task[w]] = "present" THEN Fault ELSE UNCHANGED faults
    /\ Die(w)
    /\ UNCHANGED <<jobVars, outVars, asrReady>>

\* The ASRClientError handler: a deleted recording is abandoned.
AsrError(w) ==
    /\ pc[w] \in {"asr_retryable", "asr_fatal"}
    /\ \/ recording[task[w]] # "present" /\ EndAttempt(w)
       \/ /\ recording[task[w]] = "present"
          /\ Continue(w, IF pc[w] = "asr_retryable" THEN "defer" ELSE "fail")
    /\ UNCHANGED <<jobVars, outVars, asrReady, hold, faults>>

\* A variant that writes the recording without comparing the job's lease_owner.
SaveTranscriptPreviewNoOwner(w) ==
    /\ pc[w] = "preview"
    /\ preview' = IF RowGone(w) THEN preview ELSE [preview EXCEPT ![task[w]] = token[w]]
    /\ Continue(w, "reserve")
    /\ UNCHANGED <<jobVars, claims, result, asrReady, hold, faults>>

\* save_transcript_preview: a missing row costs only the early view.
SaveTranscriptPreview(w) ==
    /\ pc[w] = "preview"
    /\ \/ /\ Owns(w)
          /\ preview' = [preview EXCEPT ![task[w]] = token[w]]
          /\ Continue(w, "reserve")
       \/ RowGone(w) /\ Continue(w, "reserve") /\ UNCHANGED preview
       \/ Lost(w) /\ EndAttempt(w) /\ UNCHANGED preview
    /\ UNCHANGED <<jobVars, claims, result, asrReady, hold, faults>>

\* The budget reservation for extraction.
ReservePipeline(w) ==
    /\ pc[w] = "reserve"
    /\ \/ Fault /\ Continue(w, "defer") /\ UNCHANGED hold     \* budget exceeded
       \/ /\ Continue(w, "process")
          /\ hold' = [hold EXCEPT ![w] = "pipeline"]
          /\ UNCHANGED faults
    /\ UNCHANGED <<jobVars, outVars, asrReady>>

\* report_stage, called by the pipeline before each of its stages.
ReportStage(w, s) ==
    /\ pc[w] = "process"
    /\ \/ /\ Owns(w)
          /\ status' = [status EXCEPT ![task[w]] = s]
          /\ Continue(w, "process")
       \/ ~Owns(w) /\ Continue(w, "pipeline_error") /\ UNCHANGED status
    /\ UNCHANGED <<recording, owner, lease, delay, attempts, outVars, asrReady, hold, faults>>

PipelineRaises(w) ==
    /\ pc[w] = "process"
    /\ Fault
    /\ Continue(w, "pipeline_error")
    /\ UNCHANGED <<jobVars, outVars, asrReady, hold>>

\* The pipeline returns: its reservation is committed, and the job announces
\* that it is persisting.
PipelineReturns(w) ==
    /\ pc[w] = "process"
    /\ hold' = [hold EXCEPT ![w] = "none"]
    /\ \/ /\ Owns(w)
          /\ status' = [status EXCEPT ![task[w]] = "resolving"]
          /\ Continue(w, "finalize")
       \/ ~Owns(w) /\ Continue(w, "pipeline_error") /\ UNCHANGED status
    /\ UNCHANGED <<recording, owner, lease, delay, attempts, outVars, asrReady, faults>>

\* A variant that does not compare lease_owner.
FinalizeRecordingJobNoOwner(w) ==
    /\ pc[w] = "finalize"
    /\ ~RowGone(w)
    /\ claims' = [claims EXCEPT ![task[w]] = token[w]]
    /\ result' = [result EXCEPT ![task[w]] = token[w]]
    /\ status' = [status EXCEPT ![task[w]] = "completed"]
    /\ ReleaseLease(task[w])
    /\ \/ EndAttempt(w) /\ UNCHANGED faults
       \/ Fault /\ Continue(w, "pipeline_error")
    /\ UNCHANGED <<recording, delay, attempts, preview, asrReady, hold>>

\* The final transaction: archive claims, result and terminal state together.
\* Its commit may succeed although the acknowledgement is lost.
FinalizeRecordingJob(w) ==
    /\ pc[w] = "finalize"
    /\ Owns(w)
    /\ claims' = [claims EXCEPT ![task[w]] = token[w]]
    /\ result' = [result EXCEPT ![task[w]] = token[w]]
    /\ status' = [status EXCEPT ![task[w]] = "completed"]
    /\ ReleaseLease(task[w])
    /\ \/ EndAttempt(w) /\ UNCHANGED faults
       \/ Fault /\ Continue(w, "pipeline_error")
    /\ UNCHANGED <<recording, delay, attempts, preview, asrReady, hold>>

\* It is rolled back as a whole when the job is gone or owned by another, or
\* when the database refuses it.
FinalizeRollsBack(w) ==
    /\ pc[w] = "finalize"
    /\ IF Owns(w) THEN Fault ELSE UNCHANGED faults
    /\ Continue(w, "pipeline_error")
    /\ UNCHANGED <<jobVars, outVars, asrReady, hold>>

\* The handler of every exception of the pipeline and of the final transaction:
\* release the reservation unless it is settled, abandon a deleted recording.
PipelineError(w) ==
    /\ pc[w] = "pipeline_error"
    /\ hold' = [hold EXCEPT ![w] = "none"]
    /\ \/ recording[task[w]] # "present" /\ EndAttempt(w)
       \/ recording[task[w]] = "present" /\ Continue(w, "fail")
    /\ UNCHANGED <<jobVars, outVars, asrReady, faults>>

\* defer_recording_job: back to the queue, due after the retry interval.
DeferRecordingJob(w) ==
    /\ pc[w] = "defer"
    /\ Owns(w)
    /\ status' = [status EXCEPT ![task[w]] = "queued"]
    /\ delay'  = [delay EXCEPT ![task[w]] = RetryTicks]
    /\ ReleaseLease(task[w])
    /\ EndAttempt(w)
    /\ UNCHANGED <<recording, attempts, outVars, asrReady, hold, faults>>

\* A variant that does not compare lease_owner.
FailRecordingJobNoOwner(w) ==
    /\ pc[w] = "fail"
    /\ ~RowGone(w)
    /\ status' = [status EXCEPT ![task[w]] = "failed"]
    /\ ReleaseLease(task[w])
    /\ EndAttempt(w)
    /\ UNCHANGED <<recording, delay, attempts, outVars, asrReady, hold, faults>>

\* fail_recording_job: terminal.
FailRecordingJob(w) ==
    /\ pc[w] = "fail"
    /\ Owns(w)
    /\ status' = [status EXCEPT ![task[w]] = "failed"]
    /\ ReleaseLease(task[w])
    /\ EndAttempt(w)
    /\ UNCHANGED <<recording, delay, attempts, outVars, asrReady, hold, faults>>

\* Either of them finds the job owned by another worker: LeaseOwnershipLost,
\* which process_once swallows.
AbandonAttempt(w) ==
    /\ pc[w] \in {"defer", "fail"}
    /\ Lost(w)
    /\ EndAttempt(w)
    /\ UNCHANGED <<jobVars, outVars, asrReady, hold, faults>>

\* Either of them finds no job: JobFinalizationError, which nobody catches.
FinalizationErrorEscapes(w) ==
    /\ pc[w] \in {"defer", "fail"}
    /\ RowGone(w)
    /\ Die(w)
    /\ UNCHANGED <<jobVars, outVars, asrReady, faults>>

-----------------------------------------------------------------------------

\* What a live worker does next in its attempt.
AttemptStep(w) ==
    \/ ProcessJob(w)
    \/ StartAttempt(w)
    \/ Transcribe(w)
    \/ MaterializeFails(w)
    \/ AsrError(w)
    \/ SaveTranscriptPreview(w)
    \/ ReservePipeline(w)
    \/ \E s \in PipelineStatuses : ReportStage(w, s)
    \/ PipelineRaises(w)
    \/ PipelineReturns(w)
    \/ FinalizeRecordingJob(w)
    \/ FinalizeRollsBack(w)
    \/ PipelineError(w)
    \/ DeferRecordingJob(w)
    \/ FailRecordingJob(w)
    \/ AbandonAttempt(w)
    \/ FinalizationErrorEscapes(w)

WorkerStep(w) ==
    \/ StartWorker(w)
    \/ StopWorker(w)
    \/ CrashWorker(w)
    \/ PollEmpty(w)
    \/ RenewLease(w)
    \/ \E r \in Recordings : ClaimNextJob(w, r)
    \/ AttemptStep(w)

Next ==
    \/ \E r \in Recordings : CreateRecordingAndJob(r) \/ DeleteRecording(r)
    \/ \E ready \in BOOLEAN : RegisterWorker(ready)
    \/ \E w \in Workers : WorkerStep(w)
    \/ Tick

Spec == Init /\ [][Next]_vars

\* What the deployment keeps running: time, a supervisor that is restarted, a
\* claim loop, heartbeats, and calls that return.  No failure is ever fair, and
\* neither is anything a user does.
Fairness ==
    /\ WF_vars(Tick)
    /\ \A w \in Workers :
        /\ WF_vars(StartWorker(w))
        /\ WF_vars(\E r \in Recordings : ClaimNextJob(w, r))
        /\ WF_vars(RenewLease(w))
        /\ WF_vars(AttemptStep(w))
        /\ WF_vars(PipelineReturns(w))

FairSpec == Spec /\ Fairness

-----------------------------------------------------------------------------
(* Properties                                                              *)

\* Type invariant: every row and every worker variable holds a value the code
\* can store in it.
TypeOK ==
    /\ recording \in [Recordings -> {"none", "present", "deleted"}]
    /\ status    \in [Recordings -> JobStatus \cup {"absent"}]
    /\ owner     \in [Recordings -> Workers \cup {NoWorker}]
    /\ lease     \in [Recordings -> {NoLease} \cup 0 .. LeaseTicks]
    /\ delay     \in [Recordings -> 0 .. RetryTicks]
    /\ attempts  \in [Recordings -> Nat]
    /\ preview   \in [Recordings -> Nat]
    /\ claims    \in [Recordings -> Nat]
    /\ result    \in [Recordings -> Nat]
    /\ asrReady  \in BOOLEAN
    /\ pc        \in [Workers -> WorkerSteps]
    /\ task      \in [Workers -> Recordings \cup {NoRecording}]
    /\ token     \in [Workers -> Nat]
    /\ heartbeat \in SUBSET Workers
    /\ hold      \in [Workers -> {"none", "asr", "pipeline"}]
    /\ faults    \in 0 .. MaxFaults

\* No job is stranded: a job that is neither settled nor queued carries an owner
\* and a lease that will run out, so the expired-lease branch of claim_next_job
\* can reach it; every other job carries neither.
NoStrandedJob ==
    \A r \in Recordings :
        /\ status[r] \in ActiveStatuses <=> owner[r] \in Workers
        /\ owner[r] \in Workers <=> lease[r] # NoLease

\* A worker the job's row still names as lease_owner is in the row's latest
\* attempt: the owner check of _owned_job is as good as a fencing token, although
\* it compares names only, because no worker starts an attempt while it is in one.
OwnerIsLatestAttempt ==
    \A w \in Workers :
        InAttempt(w) => /\ token[w] <= attempts[task[w]]
                        /\ owner[task[w]] = w => token[w] = attempts[task[w]]

\* A result is there exactly when the job is completed, and result and archive
\* claims both come from its last claim: no finalize_recording_job of a worker
\* that was presumed dead gets through, alone or mixed with a later one.
ResultFromLastClaim ==
    \A r \in Recordings :
        /\ claims[r] = result[r]
        /\ result[r] # 0 <=> status[r] = "completed"
        /\ result[r] # 0 => result[r] = attempts[r]

\* After delete_recording nothing of the recording is left, and no late worker
\* brings a row, a preview, a claim or a result back.
DeletedStaysDeleted ==
    \A r \in Recordings :
        recording[r] # "present" =>
            /\ status[r] = "absent"
            /\ preview[r] = 0 /\ claims[r] = 0 /\ result[r] = 0

\* A worker between two jobs has settled every AI budget reservation it made:
\* each way out of an attempt commits or releases it.
SettledBetweenJobs ==
    \A w \in Workers : hold[w] # "none" => InAttempt(w)

\* Only the latest attempt publishes a transcript preview: a stalled worker never
\* overwrites what the worker that reclaimed the job showed.
PreviewFromLatestAttempt ==
    [][\A r \in Recordings :
        preview'[r] # preview[r] => preview'[r] \in {0, attempts[r]}]_vars

\* A live owner keeps its job: a worker loses its lease to another one only when
\* the lease has run out.
LeaseNotStolen ==
    [][\A r \in Recordings :
        owner[r] # NoWorker /\ owner'[r] \in Workers \ {owner[r]} => lease[r] = 0]_vars

\* The queue forgets nothing: whatever crashes, stalls and outages occur, once
\* they stop every published recording is completed, failed or deleted, provided
\* that a recogniser that has to announce itself is there in the end.
EveryJobSettles ==
    (RequiresRegisteredWorker => <>[]asrReady)
      => \A r \in Recordings :
            status[r] \in {"queued"} \cup ActiveStatuses
                ~> status[r] \in TERMINAL_JOB_STATUSES \cup {"absent"}

\* The comment above the last handler of _execute_job_attempt: a deletion that
\* wins the race must not "crash the supervisor", so only a failure of the
\* environment ends a worker that is at work.
DeletionNeverKillsWorker ==
    [][\A w \in Workers : InAttempt(w) /\ pc'[w] = "down" => faults' # faults]_vars

\* What the recording queue is to its users.
Phase == [r \in Recordings |->
    CASE recording[r] = "none"        -> "none"
      [] recording[r] = "deleted"     -> "gone"
      [] status[r] = "queued"         -> "waiting"
      [] status[r] \in ActiveStatuses -> "running"
      [] status[r] = "completed"      -> "done"
      [] OTHER                        -> "failed"]

Queue == INSTANCE DurableQueue WITH
    Items  <- Recordings,
    phase  <- Phase,
    epoch  <- attempts,
    output <- result

\* Leases, heartbeats, stalls, crashes and deletions together implement the
\* abstract queue: at most one attempt delivers, it is the latest one, and what
\* is settled stays settled.
ImplementsDurableQueue == Queue!Spec

\* The recording queue in every state: nothing that is claimed can be forgotten, the owner of
\* a row is the attempt that claimed it last, a result and its claims are that attempt's,
\* nothing of a deleted recording is left or comes back, and no attempt ends with money held
\* (claim_next_job, finalize_recording_job, delete_recording, process_once).
QueueInv ==
    /\ TypeOK
    /\ NoStrandedJob /\ OwnerIsLatestAttempt /\ ResultFromLastClaim
    /\ DeletedStaysDeleted /\ SettledBetweenJobs

\* What no step of a worker does to another's job: show a preview of an attempt that was
\* reclaimed, or take a lease that has not run out (save_transcript_preview, claim_next_job).
OrderlySteps == PreviewFromLatestAttempt /\ LeaseNotStolen

=============================================================================
