--------------------------- MODULE StorageCleanup ---------------------------
(***************************************************************************)
(* The life of a stored object.  An upload writes the audio and publishes  *)
(* its recording, or takes the audio back; an export writes an artifact of *)
(* a book; a deletion removes the rows and queues the erasure of the       *)
(* object in the same transaction; cleanup workers erase what is queued.   *)
(*                                                                         *)
(* The database and the object store fail independently.  An object stands *)
(* for its storage key, which is never used twice.  The lease clock is the *)
(* one of RecordingJobs.                                                   *)
(***************************************************************************)
EXTENDS Integers

CONSTANTS
    Workers,        \* cleanup worker processes
    Audio,          \* objects written by uploads
    Artifacts,      \* objects written by exports, at their canonical keys
    NoWorker,       \* lease_owner IS NULL
    NoObject,       \* a worker that has no attempt under way
    MaxAttempts,    \* storage_cleanup_max_attempts
    LeaseTicks,     \* lease_seconds
    RetryTicks,     \* the longest delay of calculate_retry_delay
    CommitsKnown,   \* the API learns of every commit: no acknowledgement is lost
    MaxFaults       \* bound: how often the environment misbehaves

Objects == Audio \cup Artifacts

ASSUME SymbolAssumption ==
    /\ NoWorker \notin Workers
    /\ NoObject \notin Objects
    /\ Audio \cap Artifacts = {}

ASSUME SizeAssumption ==
    /\ {MaxAttempts, LeaseTicks} \subseteq Nat \ {0}
    /\ {RetryTicks, MaxFaults} \subseteq Nat
    /\ CommitsKnown \in BOOLEAN

VARIABLES
    stored,      \* the objects that are in the store
    row,         \* the RecordingRow or BookRow that owns the object
    upload,      \* where the request that uploads the audio stands
    status,      \* StorageCleanupJobRow.status, "absent" when there is no row
    owner,       \* lease_owner
    lease,       \* time left to lease_expires_at, NoLease when that is NULL
    delay,       \* time left to next_attempt_at
    attempts,    \* StorageCleanupJobRow.attempts
    pc,          \* where a worker's attempt stands
    task,        \* the object of the attempt under way
    token,       \* job.attempts as the claim returned it
    heartbeat,   \* the workers whose LeaseHeartbeat thread still ticks
    faults       \* environment failures so far

jobVars    == <<status, owner, lease, delay, attempts>>
workerVars == <<pc, task, token, heartbeat>>
vars       == <<stored, row, upload, status, owner, lease, delay, attempts, pc, task, token,
                heartbeat, faults>>

NoLease == -1

StorageCleanupStatus      == {"queued", "running", "completed", "failed"}
TERMINAL_CLEANUP_STATUSES == {"completed", "failed"}

AttemptSteps == {"delete", "complete", "retryable", "terminal"}
InAttempt(w) == pc[w] \in AttemptSteps
Fault        == faults < MaxFaults /\ faults' = faults + 1

Init ==
    /\ stored    = {}
    /\ row       = [k \in Objects |-> "none"]
    /\ upload    = [k \in Audio |-> "idle"]
    /\ status    = [k \in Objects |-> "absent"]
    /\ owner     = [k \in Objects |-> NoWorker]
    /\ lease     = [k \in Objects |-> NoLease]
    /\ delay     = [k \in Objects |-> 0]
    /\ attempts  = [k \in Objects |-> 0]
    /\ pc        = [w \in Workers |-> "down"]
    /\ task      = [w \in Workers |-> NoObject]
    /\ token     = [w \in Workers |-> 0]
    /\ heartbeat = {}
    /\ faults    = 0

\* An object that is queued already, or was, keeps its row as it is.
EnqueueCleanup(k) ==
    status' = [status EXCEPT ![k] = IF @ = "absent" THEN "queued" ELSE @]

-----------------------------------------------------------------------------
(* Uploads, exports and deletions                                          *)

UploadGoto(k, step) == upload' = [upload EXCEPT ![k] = step]

\* The object is written inside the transaction that will publish its recording.
SaveAudio(k) ==
    /\ upload[k] = "idle"
    /\ stored' = stored \cup {k}
    /\ UploadGoto(k, "saved")
    /\ UNCHANGED <<row, jobVars, workerVars, faults>>

\* The transaction commits or rolls back.  The handler takes a commit whose
\* acknowledgement is lost for a rollback.
PublishRecording(k) ==
    /\ upload[k] = "saved"
    /\ \/ row' = [row EXCEPT ![k] = "live"] /\ UploadGoto(k, "done") /\ UNCHANGED faults
       \/ Fault /\ UploadGoto(k, "compensate") /\ UNCHANGED row
       \/ /\ ~CommitsKnown
          /\ Fault
          /\ row' = [row EXCEPT ![k] = "live"]
          /\ UploadGoto(k, "compensate")
    /\ UNCHANGED <<stored, jobVars, workerVars>>

\* The cheap compensation; when the store is unavailable too, a cleanup row.
Compensate(k) ==
    /\ upload[k] = "compensate"
    /\ \/ stored' = stored \ {k} /\ UploadGoto(k, "done") /\ UNCHANGED faults
       \/ Fault /\ UploadGoto(k, "enqueue") /\ UNCHANGED stored
    /\ UNCHANGED <<row, jobVars, workerVars>>

EnqueueOrphan(k) ==
    /\ upload[k] = "enqueue"
    /\ EnqueueCleanup(k)
    /\ UploadGoto(k, "done")
    /\ UNCHANGED <<stored, row, owner, lease, delay, attempts, workerVars, faults>>

\* The API process ends during the request.
UploadAborts(k) ==
    /\ upload[k] \in {"saved", "compensate", "enqueue"}
    /\ Fault
    /\ UploadGoto(k, "done")
    /\ UNCHANGED <<stored, row, jobVars, workerVars>>

CreateBook(k) ==
    /\ row[k] = "none"
    /\ row' = [row EXCEPT ![k] = "live"]
    /\ UNCHANGED <<stored, upload, jobVars, workerVars, faults>>

\* A variant that renders, then stores without looking at the book again.
StoreArtifactUnlocked(k) ==
    /\ row[k] # "none"
    /\ stored' = stored \cup {k}
    /\ UNCHANGED <<row, upload, jobVars, workerVars, faults>>

\* The artifact is written under the lock of the book row.  Whether its export
\* row commits does not matter here: deletion queues the canonical key anyway.
StoreArtifact(k) ==
    /\ row[k] = "live"
    /\ stored' = stored \cup {k}
    /\ UNCHANGED <<row, upload, jobVars, workerVars, faults>>

\* A variant that queues the erasure and removes the rows afterwards, or never.
DeleteOwnerQueuesFirst(k) ==
    /\ row[k] = "live"
    /\ EnqueueCleanup(k)
    /\ \/ row' = [row EXCEPT ![k] = "deleted"]
       \/ UNCHANGED row
    /\ UNCHANGED <<stored, upload, owner, lease, delay, attempts, workerVars, faults>>

\* delete_recording and delete_family_book: rows and cleanup job at once.
DeleteOwner(k) ==
    /\ row[k] = "live"
    /\ row' = [row EXCEPT ![k] = "deleted"]
    /\ EnqueueCleanup(k)
    /\ UNCHANGED <<stored, upload, owner, lease, delay, attempts, workerVars, faults>>

-----------------------------------------------------------------------------
(* Claiming and keeping a job                                              *)

DueQueued(k) ==
    /\ status[k] = "queued"
    /\ delay[k] = 0
    /\ lease[k] \in {NoLease, 0}
    /\ attempts[k] < MaxAttempts

\* A variant whose ceiling covers crashed attempts, as in the book queue.
ExpiredRunningCeiling(k) ==
    status[k] = "running" /\ lease[k] = 0 /\ attempts[k] < MaxAttempts

ExpiredRunning(k) == status[k] = "running" /\ lease[k] = 0

\* A crash is not a provider failure and costs no attempt.
AttemptOf(k) == IF status[k] = "running" THEN attempts[k] ELSE attempts[k] + 1

Eligible(k) == DueQueued(k) \/ ExpiredRunning(k)

ClaimNextJob(w, k) ==
    /\ pc[w] = "idle"
    /\ Eligible(k)
    /\ status'    = [status EXCEPT ![k] = "running"]
    /\ owner'     = [owner EXCEPT ![k] = w]
    /\ lease'     = [lease EXCEPT ![k] = LeaseTicks]
    /\ attempts'  = [attempts EXCEPT ![k] = AttemptOf(k)]
    /\ pc'        = [pc EXCEPT ![w] = "delete"]
    /\ task'      = [task EXCEPT ![w] = k]
    /\ token'     = [token EXCEPT ![w] = AttemptOf(k)]
    /\ heartbeat' = heartbeat \cup {w}
    /\ UNCHANGED <<stored, row, upload, delay, faults>>

PollEmpty(w) ==
    /\ pc[w] = "idle"
    /\ ~ \E k \in Objects : Eligible(k)
    /\ UNCHANGED vars

Renewable(w) == owner[task[w]] = w /\ status[task[w]] = "running"

\* One tick of the heartbeat thread, or the renewal that outlives the attempt.
RenewLease(w) ==
    /\ w \in heartbeat
    /\ IF Renewable(w) THEN lease' = [lease EXCEPT ![task[w]] = LeaseTicks]
                       ELSE UNCHANGED lease
    /\ heartbeat' = IF Renewable(w) /\ InAttempt(w) THEN heartbeat ELSE heartbeat \ {w}
    /\ task'      = IF InAttempt(w) THEN task ELSE [task EXCEPT ![w] = NoObject]
    /\ UNCHANGED <<stored, row, upload, status, owner, delay, attempts, pc, token, faults>>

\* Leases about to run out although their worker is alive and at work.
Stalled ==
    {k \in Objects :
        /\ lease[k] = 1
        /\ \E w \in Workers : InAttempt(w) /\ owner[k] = w /\ task[w] = k}

Tick ==
    /\ \E k \in Objects : lease[k] > 0 \/ delay[k] > 0
    /\ IF Stalled = {} THEN UNCHANGED faults ELSE Fault
    /\ lease' = [k \in Objects |-> IF lease[k] > 0 THEN lease[k] - 1 ELSE lease[k]]
    /\ delay' = [k \in Objects |-> IF delay[k] > 0 THEN delay[k] - 1 ELSE delay[k]]
    /\ UNCHANGED <<stored, row, upload, status, owner, attempts, workerVars>>

-----------------------------------------------------------------------------
(* An attempt                                                              *)

Goto(w, step) ==
    /\ pc' = [pc EXCEPT ![w] = step]
    /\ UNCHANGED <<task, token, heartbeat>>

EndAttempt(w) ==
    /\ pc'    = [pc EXCEPT ![w] = "idle"]
    /\ token' = [token EXCEPT ![w] = 0]
    /\ \/ heartbeat' = heartbeat \ {w} /\ task' = [task EXCEPT ![w] = NoObject]
       \/ w \in heartbeat /\ UNCHANGED <<heartbeat, task>>

StartWorker(w) ==
    /\ pc[w] = "down"
    /\ pc' = [pc EXCEPT ![w] = "idle"]
    /\ UNCHANGED <<stored, row, upload, jobVars, task, token, heartbeat, faults>>

CrashWorker(w) ==
    /\ InAttempt(w)
    /\ Fault
    /\ pc'        = [pc EXCEPT ![w] = "down"]
    /\ task'      = [task EXCEPT ![w] = NoObject]
    /\ token'     = [token EXCEPT ![w] = 0]
    /\ heartbeat' = heartbeat \ {w}
    /\ UNCHANGED <<stored, row, upload, jobVars>>

\* storage.delete: gone now or gone before, both are success.  It may also fail,
\* having erased the object or not.
DeleteObject(w) ==
    /\ pc[w] = "delete"
    /\ \/ stored' = stored \ {task[w]} /\ Goto(w, "complete") /\ UNCHANGED faults
       \/ /\ Fault
          /\ stored' \in {stored, stored \ {task[w]}}
          /\ \E kind \in {"retryable", "terminal"} : Goto(w, kind)
    /\ UNCHANGED <<row, upload, jobVars>>

\* _owned_job: the rows stay for ever, so only ownership can be missing.
Owns(w) == owner[task[w]] = w

ReleaseLease(k) ==
    /\ owner' = [owner EXCEPT ![k] = NoWorker]
    /\ lease' = [lease EXCEPT ![k] = NoLease]

Complete(w) ==
    /\ pc[w] = "complete"
    /\ \/ /\ Owns(w)
          /\ status' = [status EXCEPT ![task[w]] = "completed"]
          /\ ReleaseLease(task[w])
          /\ EndAttempt(w)
       \/ ~Owns(w) /\ EndAttempt(w) /\ UNCHANGED <<status, owner, lease>>
    /\ UNCHANGED <<stored, row, upload, delay, attempts, faults>>

\* The transaction rolls back, or only its acknowledgement is lost: the handler
\* takes both for a failure of the erasure.
CompleteFails(w) ==
    /\ pc[w] = "complete"
    /\ Fault
    /\ \/ /\ Owns(w)
          /\ status' = [status EXCEPT ![task[w]] = "completed"]
          /\ ReleaseLease(task[w])
       \/ UNCHANGED <<status, owner, lease>>
    /\ \E kind \in {"retryable", "terminal"} : Goto(w, kind)
    /\ UNCHANGED <<stored, row, upload, delay, attempts>>

Retries(w) == pc[w] = "retryable" /\ token[w] < MaxAttempts

\* A variant that does not compare lease_owner.
HandleFailureNoOwner(w) ==
    /\ pc[w] \in {"retryable", "terminal"}
    /\ status' = [status EXCEPT ![task[w]] = IF Retries(w) THEN "queued" ELSE "failed"]
    /\ ReleaseLease(task[w])
    /\ EndAttempt(w)
    /\ UNCHANGED <<stored, row, upload, delay, attempts, faults>>

\* defer or fail, in a transaction that compares the owner.
HandleFailure(w) ==
    /\ pc[w] \in {"retryable", "terminal"}
    /\ \/ /\ Owns(w)
          /\ status' = [status EXCEPT ![task[w]] = IF Retries(w) THEN "queued" ELSE "failed"]
          /\ delay'  = IF Retries(w) THEN [delay EXCEPT ![task[w]] = RetryTicks] ELSE delay
          /\ ReleaseLease(task[w])
       \/ ~Owns(w) /\ UNCHANGED <<status, delay, owner, lease>>
    /\ EndAttempt(w)
    /\ UNCHANGED <<stored, row, upload, attempts, faults>>

-----------------------------------------------------------------------------

AttemptStep(w) == DeleteObject(w) \/ Complete(w) \/ CompleteFails(w) \/ HandleFailure(w)

WorkerStep(w) ==
    \/ StartWorker(w) \/ CrashWorker(w) \/ PollEmpty(w) \/ RenewLease(w)
    \/ \E k \in Objects : ClaimNextJob(w, k)
    \/ AttemptStep(w)

UploadStep(k) ==
    SaveAudio(k) \/ PublishRecording(k) \/ Compensate(k) \/ EnqueueOrphan(k) \/ UploadAborts(k)

Next ==
    \/ \E k \in Audio : UploadStep(k)
    \/ \E k \in Artifacts : CreateBook(k) \/ StoreArtifact(k)
    \/ \E k \in Objects : DeleteOwner(k)
    \/ \E w \in Workers : WorkerStep(w)
    \/ Tick

Spec == Init /\ [][Next]_vars

\* Time passes, workers are restarted, poll, heartbeat and get answers.
Fairness ==
    /\ WF_vars(Tick)
    /\ \A w \in Workers :
        /\ WF_vars(StartWorker(w))
        /\ WF_vars(\E k \in Objects : ClaimNextJob(w, k))
        /\ WF_vars(RenewLease(w))
        /\ WF_vars(AttemptStep(w))

FairSpec == Spec /\ Fairness

-----------------------------------------------------------------------------
(* Properties                                                              *)

\* Type invariant; the attempt counter stays within its ceiling although crashed
\* attempts are reclaimed without one.
TypeOK ==
    /\ stored    \in SUBSET Objects
    /\ row       \in [Objects -> {"none", "live", "deleted"}]
    /\ upload    \in [Audio -> {"idle", "saved", "compensate", "enqueue", "done"}]
    /\ status    \in [Objects -> StorageCleanupStatus \cup {"absent"}]
    /\ owner     \in [Objects -> Workers \cup {NoWorker}]
    /\ lease     \in [Objects -> {NoLease} \cup 0 .. LeaseTicks]
    /\ delay     \in [Objects -> 0 .. RetryTicks]
    /\ attempts  \in [Objects -> 0 .. MaxAttempts]
    /\ pc        \in [Workers -> {"down", "idle"} \cup AttemptSteps]
    /\ task      \in [Workers -> Objects \cup {NoObject}]
    /\ token     \in [Workers -> 0 .. MaxAttempts]
    /\ heartbeat \in SUBSET Workers
    /\ faults    \in 0 .. MaxFaults

\* "make a recording unreachable and queue physical erasure": an object whose
\* recording or book was deleted is erased, queued for it or reported as failed,
\* in every interleaving of deletion, export, upload and erasure.
DeletedIsTracked ==
    \A k \in Objects :
        row[k] = "deleted" /\ k \in stored => status[k] \in {"queued", "running", "failed"}

\* A completed cleanup job means that the object is gone, and for ever: no export
\* or upload brings it back, even one that was under way when it was queued.
CompletedIsErased ==
    \A k \in Objects : status[k] = "completed" => k \notin stored

\* No object that a recording or a book still points to is ever erased, whether by
\* a stale cleanup attempt or by the compensation of an upload.
LiveNeverErased ==
    [][\A k \in Objects : row[k] = "live" /\ k \in stored => k \in stored']_vars

\* "reclaim it so an idempotent delete can observe 'already absent' and durably
\* complete instead of leaving RUNNING forever": every queued erasure ends, also
\* when a worker dies in the last attempt.
EveryErasureSettles ==
    \A k \in Objects :
        status[k] \in {"queued", "running"} ~> status[k] \in TERMINAL_CLEANUP_STATUSES

Phase == [k \in Objects |->
    CASE status[k] = "queued"    -> "waiting"
      [] status[k] = "running"   -> "running"
      [] status[k] = "completed" -> "done"
      [] status[k] = "failed"    -> "failed"
      [] OTHER                   -> "none"]

Output == [k \in Objects |-> IF status[k] = "completed" THEN attempts[k] ELSE 0]

Queue == INSTANCE DurableQueue WITH
    Items  <- Objects,
    phase  <- Phase,
    epoch  <- attempts,
    output <- Output

\* The cleanup queue implements the abstract queue: a reclaim continues the epoch
\* of the attempt that crashed, and a settled job is never touched again.
ImplementsDurableQueue == Queue!Spec

\* The cleanup queue in every state: what a deletion removed is queued until it is erased,
\* and what the queue calls completed is gone and is not stored again by a late export
\* (delete_recording, delete_family_book, complete, export_book).
CleanupInv == TypeOK /\ DeletedIsTracked /\ CompletedIsErased

=============================================================================
