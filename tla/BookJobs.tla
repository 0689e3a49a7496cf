------------------------------ MODULE BookJobs ------------------------------
(***************************************************************************)
(* The book queue: the API queues a book with its frozen sources, worker   *)
(* processes plan it, write, review and repair it chapter by chapter and   *)
(* export it, resuming after a crash from what is stored.  The owner may   *)
(* cancel or delete the book at any moment; the cancel endpoint is itself  *)
(* a sequence of transactions.                                             *)
(*                                                                         *)
(* A guarded write is one action, together with the writes of the stage    *)
(* display around it; a call of the language model or the renderer is      *)
(* another.  Text is abstracted to what it was written from: a draft to    *)
(* the number of chapters its continuity state knew about.  A transaction  *)
(* that rolls back for want of the database is not told apart from a crash *)
(* before it.  The lease clock is the one of RecordingJobs.                *)
(***************************************************************************)
EXTENDS Integers

CONSTANTS
    Workers,       \* book worker processes
    Books,         \* books, each with its one job
    NoWorker,      \* lease_owner IS NULL
    NoBook,        \* a worker that has no attempt under way
    Chapters,      \* how many chapters the blueprint plans
    MaxAttempts,   \* BookJobRow.max_attempts
    MaxRepairs,    \* max_repair_attempts
    LeaseTicks,    \* lease_seconds
    RetryTicks,    \* the longest delay of calculate_retry_delay
    MaxFaults      \* bound: how often the environment misbehaves

ASSUME SymbolAssumption == NoWorker \notin Workers /\ NoBook \notin Books

ASSUME SizeAssumption ==
    /\ {Chapters, MaxAttempts, LeaseTicks} \subseteq Nat \ {0}
    /\ {MaxRepairs, RetryTicks, MaxFaults} \subseteq Nat

VARIABLES
    book,        \* BookRow.status; "none" before, "deleted" after the row
    flagged,     \* the books whose cancel_requested_at is set
    status,      \* BookJobRow.status, "absent" when there is no row
    owner,       \* BookJobRow.lease_owner
    lease,       \* time left to lease_expires_at, NoLease when that is NULL
    delay,       \* time left to next_attempt_at
    attempts,    \* BookJobRow.attempts
    planned,     \* the books that have a BookPlanRow
    chapter,     \* BookChapterRow.status, "none" when there is no row
    draft,       \* draft_text: how many chapters its author knew, or Missing
    cont,        \* BookContinuityStateRow: how many chapters it knows, or Missing
    exports,     \* the formats whose BookExportRow is READY
    pc,          \* where a worker's attempt stands
    task,        \* the book of the attempt under way
    token,       \* job.attempts as the claim returned it
    heartbeat,   \* the workers whose LeaseHeartbeat thread still ticks
    at,          \* chapter.chapter_number of the loop
    basis,       \* how many chapters the loop's continuity state knows
    repairs,     \* repair_count
    api,         \* where a cancel request stands
    faults       \* environment failures so far

jobVars     == <<status, owner, lease, delay, attempts>>
contentVars == <<planned, chapter, draft, cont, exports>>
loopVars    == <<at, basis, repairs>>
workerVars  == <<pc, task, token, heartbeat, at, basis, repairs>>
vars        == <<book, flagged, status, owner, lease, delay, attempts, planned, chapter,
                 draft, cont, exports, pc, task, token, heartbeat, at, basis, repairs,
                 api, faults>>

NoLease == -1
Missing == -1
Numbers == 1 .. Chapters
Formats == {"pdf", "epub"}

TERMINAL_BOOK_STATUSES     == {"completed", "failed", "cancelled"}
TERMINAL_BOOK_JOB_STATUSES == {"completed", "failed", "cancelled"}

\* PLANNING, WRITING and EXPORTING tell users how far a book is; nothing depends
\* on which of them it is.
BookStatus    == {"queued", "generating"} \cup TERMINAL_BOOK_STATUSES
BookJobStatus == {"queued", "running"} \cup TERMINAL_BOOK_JOB_STATUSES
ChapterStatus == {"planned", "reviewing", "approved", "failed"}

AttemptSteps ==
    {"claimed", "start", "planning", "plan_call", "save_plan", "stubs", "next", "begin",
     "write_call", "save_draft", "review", "review_call", "review_approved",
     "review_rejected", "review_blocked", "repair", "repair_call", "save_repair",
     "fail_chapter", "approve", "continuity_call", "save_continuity", "export",
     "render_pdf", "pdf_unavailable", "pdf_failed", "publish_pdf", "epub",
     "publish_epub", "verify", "complete", "cancel", "export_cancelled",
     "cancel_export", "retryable", "terminal", "defer", "fail", "fail_book"}

InAttempt(w) == pc[w] \in AttemptSteps
Exists(b)    == book[b] \in BookStatus
Fault        == faults < MaxFaults /\ faults' = faults + 1

Init ==
    /\ book      = [b \in Books |-> "none"]
    /\ flagged   = {}
    /\ status    = [b \in Books |-> "absent"]
    /\ owner     = [b \in Books |-> NoWorker]
    /\ lease     = [b \in Books |-> NoLease]
    /\ delay     = [b \in Books |-> 0]
    /\ attempts  = [b \in Books |-> 0]
    /\ planned   = {}
    /\ chapter   = [b \in Books |-> [k \in Numbers |-> "none"]]
    /\ draft     = [b \in Books |-> [k \in Numbers |-> Missing]]
    /\ cont      = [b \in Books |-> [k \in 0 .. Chapters |-> Missing]]
    /\ exports   = [b \in Books |-> {}]
    /\ pc        = [w \in Workers |-> "down"]
    /\ task      = [w \in Workers |-> NoBook]
    /\ token     = [w \in Workers |-> 0]
    /\ heartbeat = {}
    /\ at        = [w \in Workers |-> 0]
    /\ basis     = [w \in Workers |-> 0]
    /\ repairs   = [w \in Workers |-> 0]
    /\ api       = [b \in Books |-> "idle"]
    /\ faults    = 0

ReleaseLease(b) ==
    /\ owner' = [owner EXCEPT ![b] = NoWorker]
    /\ lease' = [lease EXCEPT ![b] = NoLease]

-----------------------------------------------------------------------------
(* The API process                                                         *)

\* create_queued_book: book, source snapshot and job in one transaction.
CreateQueuedBook(b) ==
    /\ book[b] = "none"
    /\ book'   = [book EXCEPT ![b] = "queued"]
    /\ status' = [status EXCEPT ![b] = "queued"]
    /\ UNCHANGED <<flagged, owner, lease, delay, attempts, contentVars, workerVars, api, faults>>

\* delete_family_book: every row of the book, under the book's row lock.
DeleteFamilyBook(b) ==
    /\ Exists(b)
    /\ book'    = [book EXCEPT ![b] = "deleted"]
    /\ flagged' = flagged \ {b}
    /\ status'  = [status EXCEPT ![b] = "absent"]
    /\ ReleaseLease(b)
    /\ delay'   = [delay EXCEPT ![b] = 0]
    /\ planned' = planned \ {b}
    /\ chapter' = [chapter EXCEPT ![b] = [k \in Numbers |-> "none"]]
    /\ draft'   = [draft EXCEPT ![b] = [k \in Numbers |-> Missing]]
    /\ cont'    = [cont EXCEPT ![b] = [k \in 0 .. Chapters |-> Missing]]
    /\ exports' = [exports EXCEPT ![b] = {}]
    /\ UNCHANGED <<attempts, workerVars, api, faults>>

ApiGoto(b, step) == api' = [api EXCEPT ![b] = step]

\* request_cancel reads the book without locking it ...
CancelRequest(b) ==
    /\ api[b] = "idle"
    /\ Exists(b)
    /\ ApiGoto(b, IF book[b] \in TERMINAL_BOOK_STATUSES THEN "peek" ELSE "flag")
    /\ UNCHANGED <<book, flagged, jobVars, contentVars, workerVars, faults>>

\* ... and writes cancel_requested_at when it commits.
CancelFlag(b) ==
    /\ api[b] = "flag"
    /\ \/ Exists(b) /\ flagged' = flagged \cup {b} /\ ApiGoto(b, "peek")
       \/ ~Exists(b) /\ UNCHANGED flagged /\ ApiGoto(b, "idle")
    /\ UNCHANGED <<book, jobVars, contentVars, workerVars, faults>>

\* cancel_family_book then looks at the job: only an unclaimed one is cancelled
\* here, a claimed one is left to its worker.
CancelPeek(b) ==
    /\ api[b] = "peek"
    /\ ApiGoto(b, IF status[b] = "queued" /\ owner[b] = NoWorker THEN "cancel_job" ELSE "idle")
    /\ UNCHANGED <<book, flagged, jobVars, contentVars, workerVars, faults>>

\* cancel_job without a lease_owner looks at neither owner nor status again.
CancelJob(b) ==
    /\ api[b] = "cancel_job"
    /\ \/ /\ status[b] # "absent"
          /\ status' = [status EXCEPT ![b] = "cancelled"]
          /\ ReleaseLease(b)
          /\ ApiGoto(b, "cancel_book")
       \/ /\ status[b] = "absent"
          /\ UNCHANGED <<status, owner, lease>>
          /\ ApiGoto(b, "idle")
    /\ UNCHANGED <<book, flagged, delay, attempts, contentVars, workerVars, faults>>

CancelBook(b) ==
    /\ api[b] = "cancel_book"
    /\ book' = IF Exists(b) THEN [book EXCEPT ![b] = "cancelled"] ELSE book
    /\ ApiGoto(b, "idle")
    /\ UNCHANGED <<flagged, jobVars, contentVars, workerVars, faults>>

\* The request dies between two of its transactions.
CancelAborts(b) ==
    /\ api[b] # "idle"
    /\ Fault
    /\ ApiGoto(b, "idle")
    /\ UNCHANGED <<book, flagged, jobVars, contentVars, workerVars>>

-----------------------------------------------------------------------------
(* Claiming and keeping a job                                              *)

DueQueued(b)    == status[b] = "queued" /\ delay[b] = 0 /\ lease[b] \in {NoLease, 0}
ExpiredLease(b) == status[b] \in {"queued", "running"} /\ lease[b] = 0

\* A variant without crash recovery.
EligibleQueuedOnly(b) == attempts[b] < MaxAttempts /\ DueQueued(b)

\* The attempt ceiling covers expired leases too.
Eligible(b) == attempts[b] < MaxAttempts /\ (DueQueued(b) \/ ExpiredLease(b))

ClaimNextJob(w, b) ==
    /\ pc[w] = "idle"
    /\ Eligible(b)
    /\ owner'     = [owner EXCEPT ![b] = w]
    /\ lease'     = [lease EXCEPT ![b] = LeaseTicks]
    /\ attempts'  = [attempts EXCEPT ![b] = @ + 1]
    /\ status'    = [status EXCEPT ![b] = "running"]
    /\ pc'        = [pc EXCEPT ![w] = "claimed"]
    /\ task'      = [task EXCEPT ![w] = b]
    /\ token'     = [token EXCEPT ![w] = attempts[b] + 1]
    /\ heartbeat' = heartbeat \cup {w}
    /\ UNCHANGED <<book, flagged, delay, contentVars, loopVars, api, faults>>

PollEmpty(w) ==
    /\ pc[w] = "idle"
    /\ ~ \E b \in Books : Eligible(b)
    /\ UNCHANGED vars

Renewable(w) ==
    /\ owner[task[w]] = w
    /\ status[task[w]] \notin TERMINAL_BOOK_JOB_STATUSES

\* One tick of the heartbeat thread, or the renewal that outlives the attempt.
RenewLease(w) ==
    /\ w \in heartbeat
    /\ IF Renewable(w) THEN lease' = [lease EXCEPT ![task[w]] = LeaseTicks]
                       ELSE UNCHANGED lease
    /\ heartbeat' = IF Renewable(w) /\ InAttempt(w) THEN heartbeat ELSE heartbeat \ {w}
    /\ task'      = IF InAttempt(w) THEN task ELSE [task EXCEPT ![w] = NoBook]
    /\ UNCHANGED <<book, flagged, status, owner, delay, attempts, contentVars, pc, token,
                   loopVars, api, faults>>

\* Leases about to run out although their worker is alive and at work.
Stalled ==
    {b \in Books :
        /\ lease[b] = 1
        /\ \E w \in Workers : InAttempt(w) /\ owner[b] = w /\ task[w] = b}

Tick ==
    /\ \E b \in Books : lease[b] > 0 \/ delay[b] > 0
    /\ IF Stalled = {} THEN UNCHANGED faults ELSE Fault
    /\ lease' = [b \in Books |-> IF lease[b] > 0 THEN lease[b] - 1 ELSE lease[b]]
    /\ delay' = [b \in Books |-> IF delay[b] > 0 THEN delay[b] - 1 ELSE delay[b]]
    /\ UNCHANGED <<book, flagged, status, owner, attempts, contentVars, workerVars, api>>

-----------------------------------------------------------------------------
(* How an attempt moves on                                                 *)

Goto(w, step) ==
    /\ pc' = [pc EXCEPT ![w] = step]
    /\ UNCHANGED <<task, token, heartbeat>>

ResetLoop(w) ==
    /\ at'      = [at EXCEPT ![w] = 0]
    /\ basis'   = [basis EXCEPT ![w] = 0]
    /\ repairs' = [repairs EXCEPT ![w] = 0]

EndAttempt(w) ==
    /\ pc'    = [pc EXCEPT ![w] = "idle"]
    /\ token' = [token EXCEPT ![w] = 0]
    /\ ResetLoop(w)
    /\ \/ heartbeat' = heartbeat \ {w} /\ task' = [task EXCEPT ![w] = NoBook]
       \/ w \in heartbeat /\ UNCHANGED <<heartbeat, task>>

Die(w) ==
    /\ pc'        = [pc EXCEPT ![w] = "down"]
    /\ task'      = [task EXCEPT ![w] = NoBook]
    /\ token'     = [token EXCEPT ![w] = 0]
    /\ heartbeat' = heartbeat \ {w}
    /\ ResetLoop(w)

\* _guard_worker_write compares the lease_owner under the row locks.  A deleted
\* book raises LookupError, a reclaimed job LeaseOwnershipLost; the handlers of
\* _process_job return from both.
Owns(w) == Exists(task[w]) /\ owner[task[w]] = w

\* A transaction of the attempt that writes contents only if the guard passes.
Guarded(w, Write) ==
    \/ Owns(w) /\ Write /\ UNCHANGED flagged
    \/ /\ ~Owns(w)
       /\ EndAttempt(w)
       /\ UNCHANGED <<book, flagged, jobVars, contentVars>>

\* A write of the stage display only.
Stage(w, next) ==
    Guarded(w, Goto(w, next) /\ UNCHANGED <<book, jobVars, contentVars, loopVars>>)

\* _check_cancellation: a deleted book ends the attempt, a flagged one is
\* cancelled by a transaction of its own.
CheckCancellation(w, Otherwise) ==
    \/ ~Exists(task[w]) /\ EndAttempt(w)
    \/ task[w] \in flagged /\ Goto(w, "cancel") /\ UNCHANGED loopVars
    \/ Exists(task[w]) /\ task[w] \notin flagged /\ Otherwise

\* A look for cancellation, then the stage display.
CheckedStage(w, next) ==
    /\ \/ /\ ~Exists(task[w])
          /\ EndAttempt(w)
          /\ UNCHANGED <<book, flagged, jobVars, contentVars>>
       \/ /\ task[w] \in flagged
          /\ Goto(w, "cancel")
          /\ UNCHANGED <<book, flagged, jobVars, contentVars, loopVars>>
       \/ Exists(task[w]) /\ task[w] \notin flagged /\ Stage(w, next)
    /\ UNCHANGED <<api, faults>>

\* A call of the language model, with its budget reservation: it may fail in a
\* way classify_failure retries or not.
Call(w, next) ==
    /\ \/ Goto(w, next) /\ UNCHANGED faults
       \/ \E kind \in {"retryable", "terminal"} : Fault /\ Goto(w, kind)
    /\ UNCHANGED <<book, flagged, jobVars, contentVars, loopVars, api>>

-----------------------------------------------------------------------------
(* Worker processes                                                        *)

StartWorker(w) ==
    /\ pc[w] = "down"
    /\ pc' = [pc EXCEPT ![w] = "idle"]
    /\ UNCHANGED <<book, flagged, jobVars, contentVars, task, token, heartbeat, loopVars,
                   api, faults>>

CrashWorker(w) ==
    /\ InAttempt(w)
    /\ Fault
    /\ Die(w)
    /\ UNCHANGED <<book, flagged, jobVars, contentVars, api>>

\* _process_job.  The job goes with its book, so when the book is missing fail_job
\* raises a LookupError that ends the process.
ProcessJob(w) ==
    /\ pc[w] = "claimed"
    /\ \/ Exists(task[w]) /\ Goto(w, "start") /\ UNCHANGED loopVars
       \/ ~Exists(task[w]) /\ Die(w)
    /\ UNCHANGED <<book, flagged, jobVars, contentVars, api, faults>>

\* The stored snapshot is verified; a stored plan is taken up where it is.
StartAttempt(w) ==
    /\ pc[w] = "start"
    /\ CheckCancellation(w,
            /\ Goto(w, IF task[w] \in planned THEN "next" ELSE "planning")
            /\ UNCHANGED loopVars)
    /\ UNCHANGED <<book, flagged, jobVars, contentVars, api, faults>>

BeginPlanning(w) ==
    /\ pc[w] = "planning"
    /\ Guarded(w, /\ book' = [book EXCEPT ![task[w]] = "generating"]
                  /\ Goto(w, "plan_call")
                  /\ UNCHANGED <<jobVars, contentVars, loopVars>>)
    /\ UNCHANGED <<api, faults>>

PlanBook(w) == pc[w] = "plan_call" /\ Call(w, "save_plan")

SavePlan(w) ==
    /\ pc[w] = "save_plan"
    /\ Guarded(w, /\ planned' = planned \cup {task[w]}
                  /\ Goto(w, "stubs")
                  /\ UNCHANGED <<book, jobVars, chapter, draft, cont, exports, loopVars>>)
    /\ UNCHANGED <<api, faults>>

CreateChapterStubs(w) ==
    /\ pc[w] = "stubs"
    /\ Guarded(w, /\ chapter' = [chapter EXCEPT ![task[w]] =
                        [k \in Numbers |-> IF @[k] = "none" THEN "planned" ELSE @[k]]]
                  /\ Goto(w, "next")
                  /\ UNCHANGED <<book, jobVars, planned, draft, cont, exports, loopVars>>)
    /\ UNCHANGED <<api, faults>>

\* The chapters the loop still has to visit.  They are listed once per attempt;
\* while the worker owns the job nobody else writes them.
Unfinished(b) == {k \in Numbers : chapter[b][k] \notin {"none", "approved"}}

NextChapter(w) ==
    LET todo == Unfinished(task[w])
    IN  /\ pc[w] = "next"
        /\ CheckCancellation(w,
              \/ /\ todo = {}
                 /\ Goto(w, "export")
                 /\ ResetLoop(w)
              \/ \E k \in todo :
                    /\ \A j \in todo : k <= j
                    /\ at' = [at EXCEPT ![w] = k]
                    /\ repairs' = [repairs EXCEPT ![w] = 0]
                    /\ Goto(w, "begin")
                    /\ UNCHANGED basis)
        /\ UNCHANGED <<book, flagged, jobVars, contentVars, api, faults>>

\* What the chapter is written from: the state after its predecessor, or the
\* initial state when there is none.
PreviousContinuity(b, k) == IF cont[b][k - 1] = Missing THEN 0 ELSE cont[b][k - 1]

BeginChapter(w) ==
    LET b == task[w]
        k == at[w]
    IN  /\ pc[w] = "begin"
        /\ Guarded(w,
              /\ book'  = [book EXCEPT ![b] = "generating"]
              /\ cont'  = IF k = 1 /\ cont[b][0] = Missing
                          THEN [cont EXCEPT ![b][0] = 0] ELSE cont
              /\ basis' = [basis EXCEPT ![w] = PreviousContinuity(b, k)]
              /\ Goto(w, IF draft[b][k] = Missing THEN "write_call" ELSE "review")
              /\ UNCHANGED <<jobVars, planned, chapter, draft, exports, at, repairs>>)
        /\ UNCHANGED <<api, faults>>

WriteChapter(w)  == pc[w] = "write_call" /\ Call(w, "save_draft")
RepairChapter(w) == pc[w] = "repair_call" /\ Call(w, "save_repair")

StoreDraft(w) ==
    /\ draft'   = [draft EXCEPT ![task[w]][at[w]] = basis[w]]
    /\ chapter' = [chapter EXCEPT ![task[w]][at[w]] = "reviewing"]
    /\ UNCHANGED <<book, jobVars, planned, cont, exports, at, basis>>

\* A variant without the guard.
UpdateChapterDraftUnguarded(w) ==
    /\ pc[w] \in {"save_draft", "save_repair"}
    /\ StoreDraft(w)
    /\ \/ pc[w] = "save_draft" /\ Goto(w, "review") /\ UNCHANGED repairs
       \/ /\ pc[w] = "save_repair"
          /\ Goto(w, "review_call")
          /\ repairs' = [repairs EXCEPT ![w] = @ + 1]
    /\ UNCHANGED <<flagged, api, faults>>

UpdateChapterDraft(w) ==
    /\ pc[w] \in {"save_draft", "save_repair"}
    /\ Guarded(w,
          /\ StoreDraft(w)
          /\ \/ pc[w] = "save_draft" /\ Goto(w, "review") /\ UNCHANGED repairs
             \/ /\ pc[w] = "save_repair"
                /\ Goto(w, "review_call")
                /\ repairs' = [repairs EXCEPT ![w] = @ + 1])
    /\ UNCHANGED <<api, faults>>

BeginReview(w) ==
    \/ pc[w] = "review" /\ CheckedStage(w, "review_call")
    \/ pc[w] = "repair" /\ CheckedStage(w, "repair_call")

\* The reviewer approves, objects although the gates pass, or a gate blocks.
ReviewChapter(w) ==
    /\ pc[w] = "review_call"
    /\ \E verdict \in {"review_approved", "review_rejected", "review_blocked"} : Call(w, verdict)

\* update_chapter_review, and what the repair loop makes of the verdict: the
\* reviewer's objection alone stops nothing once the repairs are used up.
UpdateChapterReview(w) ==
    /\ pc[w] \in {"review_approved", "review_rejected", "review_blocked"}
    /\ Guarded(w,
          /\ chapter' = [chapter EXCEPT ![task[w]][at[w]] = "reviewing"]
          /\ Goto(w, CASE pc[w] = "review_approved"   -> "approve"
                       [] pc[w] # "review_approved" /\ repairs[w] < MaxRepairs -> "repair"
                       [] pc[w] = "review_rejected" /\ repairs[w] >= MaxRepairs -> "approve"
                       [] OTHER -> "fail_chapter")
          /\ UNCHANGED <<book, jobVars, planned, draft, cont, exports, loopVars>>)
    /\ UNCHANGED <<api, faults>>

FailChapter(w) ==
    /\ pc[w] = "fail_chapter"
    /\ Guarded(w, /\ chapter' = [chapter EXCEPT ![task[w]][at[w]] = "failed"]
                  /\ Goto(w, "terminal")
                  /\ UNCHANGED <<book, jobVars, planned, draft, cont, exports, loopVars>>)
    /\ UNCHANGED <<api, faults>>

ApproveChapter(w) ==
    /\ pc[w] = "approve"
    /\ Guarded(w, /\ chapter' = [chapter EXCEPT ![task[w]][at[w]] = "approved"]
                  /\ Goto(w, "continuity_call")
                  /\ UNCHANGED <<book, jobVars, planned, draft, cont, exports, loopVars>>)
    /\ UNCHANGED <<api, faults>>

\* The chapter is approved already when its continuity state is computed.
UpdateContinuity(w) == pc[w] = "continuity_call" /\ Call(w, "save_continuity")

SaveContinuity(w) ==
    /\ pc[w] = "save_continuity"
    /\ Guarded(w, /\ cont' = [cont EXCEPT ![task[w]][at[w]] = basis[w] + 1]
                  /\ Goto(w, "next")
                  /\ UNCHANGED <<book, jobVars, planned, chapter, draft, exports, loopVars>>)
    /\ UNCHANGED <<api, faults>>

-----------------------------------------------------------------------------
(* Export and completion                                                   *)

Approved(b) == {k \in Numbers : chapter[b][k] = "approved"}

BeginExport(w) ==
    /\ pc[w] = "export"
    /\ Guarded(w, /\ book' = [book EXCEPT ![task[w]] = "generating"]
                  /\ Goto(w, "render_pdf")
                  /\ UNCHANGED <<jobVars, contentVars, loopVars>>)
    /\ UNCHANGED <<api, faults>>

\* export_book refuses a book without approved chapters.  A missing engine is
\* swallowed by the caller, any other failure of the renderer is not.
RenderPdf(w) ==
    /\ pc[w] = "render_pdf"
    /\ \/ Approved(task[w]) = {} /\ Goto(w, "terminal") /\ UNCHANGED faults
       \/ Approved(task[w]) # {} /\ Goto(w, "publish_pdf") /\ UNCHANGED faults
       \/ /\ Approved(task[w]) # {}
          /\ \E outcome \in {"pdf_unavailable", "pdf_failed"} : Fault /\ Goto(w, outcome)
    /\ UNCHANGED <<book, flagged, jobVars, contentVars, loopVars, api>>

\* save_export with status FAILED, over whatever an earlier attempt published.
SaveFailedExport(w) ==
    /\ pc[w] \in {"pdf_unavailable", "pdf_failed"}
    /\ Guarded(w, /\ exports' = [exports EXCEPT ![task[w]] = @ \ {"pdf"}]
                  /\ \/ pc[w] = "pdf_unavailable" /\ Goto(w, "epub")
                     \/ /\ pc[w] = "pdf_failed"
                        /\ \E kind \in {"retryable", "terminal"} : Goto(w, kind)
                  /\ UNCHANGED <<book, jobVars, planned, chapter, draft, cont, loopVars>>)
    /\ UNCHANGED <<api, faults>>

\* The artifact durability boundary: under the book's row lock, cancellation and
\* ownership are looked at again, the file is stored and the row written.
Publish(w, format, next) ==
    \/ ~Exists(task[w]) /\ EndAttempt(w) /\ UNCHANGED <<exports, faults>>
    \/ /\ task[w] \in flagged
       /\ Goto(w, "export_cancelled")
       /\ UNCHANGED <<exports, loopVars, faults>>
    \/ /\ Exists(task[w]) /\ task[w] \notin flagged
       /\ \/ ~Owns(w) /\ EndAttempt(w) /\ UNCHANGED <<exports, faults>>
          \/ /\ Owns(w)
             /\ exports' = [exports EXCEPT ![task[w]] = @ \cup {format}]
             /\ Goto(w, next)
             /\ UNCHANGED <<loopVars, faults>>
          \/ /\ Owns(w)
             /\ \E kind \in {"retryable", "terminal"} : Fault /\ Goto(w, kind)
             /\ UNCHANGED <<exports, loopVars>>

ExportBook(w) ==
    /\ \/ pc[w] = "publish_pdf" /\ Publish(w, "pdf", "epub")
       \/ pc[w] = "publish_epub" /\ Publish(w, "epub", "verify")
    /\ UNCHANGED <<book, flagged, jobVars, planned, chapter, draft, cont, api>>

BeginEpub(w) == pc[w] = "epub" /\ CheckedStage(w, "publish_epub")

\* A variant that believes the caller's "skipping PDF export".
VerifyExportsEpubOnly(w) ==
    /\ pc[w] = "verify"
    /\ CheckCancellation(w, /\ Goto(w, IF "epub" \in exports[task[w]] THEN "complete" ELSE "terminal")
                            /\ UNCHANGED loopVars)
    /\ UNCHANGED <<book, flagged, jobVars, contentVars, api, faults>>

VerifyExports(w) ==
    /\ pc[w] = "verify"
    /\ CheckCancellation(w, /\ Goto(w, IF exports[task[w]] = Formats THEN "complete" ELSE "terminal")
                            /\ UNCHANGED loopVars)
    /\ UNCHANGED <<book, flagged, jobVars, contentVars, api, faults>>

\* Book and job reach a terminal status together.
Settle(w, outcome) ==
    /\ book'   = [book EXCEPT ![task[w]] = outcome]
    /\ status' = [status EXCEPT ![task[w]] = outcome]
    /\ ReleaseLease(task[w])
    /\ UNCHANGED <<delay, attempts, contentVars>>

\* complete_book_and_job does not look at cancel_requested_at again.  Its commit
\* may succeed although the acknowledgement is lost.
CompleteBookAndJob(w) ==
    /\ pc[w] = "complete"
    /\ \/ Guarded(w, Settle(w, "completed") /\ EndAttempt(w)) /\ UNCHANGED faults
       \/ /\ Owns(w)
          /\ Settle(w, "completed")
          /\ \E kind \in {"retryable", "terminal"} : Fault /\ Goto(w, kind)
          /\ UNCHANGED <<flagged, loopVars>>
    /\ UNCHANGED api

CancelBookAndJob(w) ==
    /\ pc[w] = "cancel"
    /\ Guarded(w, Settle(w, "cancelled") /\ EndAttempt(w))
    /\ UNCHANGED <<api, faults>>

\* The BookExportCancelled handler looks once more before it cancels.
ExportCancelled(w) ==
    /\ pc[w] = "export_cancelled"
    /\ \/ ~Exists(task[w]) /\ EndAttempt(w)
       \/ Exists(task[w]) /\ Goto(w, "cancel_export") /\ UNCHANGED loopVars
    /\ UNCHANGED <<book, flagged, jobVars, contentVars, api, faults>>

\* No handler surrounds it: a deletion in between ends the process.
CancelAfterExport(w) ==
    /\ pc[w] = "cancel_export"
    /\ \/ Exists(task[w]) /\ Guarded(w, Settle(w, "cancelled") /\ EndAttempt(w))
       \/ /\ ~Exists(task[w])
          /\ Die(w)
          /\ UNCHANGED <<book, flagged, jobVars, contentVars>>
    /\ UNCHANGED <<api, faults>>

-----------------------------------------------------------------------------
(* Failure                                                                 *)

\* The handler of every other exception of an attempt.
HandleFailure(w) ==
    /\ pc[w] \in {"retryable", "terminal"}
    /\ \/ ~Exists(task[w]) /\ EndAttempt(w)
       \/ /\ Exists(task[w])
          /\ Goto(w, IF pc[w] = "retryable" /\ token[w] < MaxAttempts THEN "defer" ELSE "fail")
          /\ UNCHANGED loopVars
    /\ UNCHANGED <<book, flagged, jobVars, contentVars, api, faults>>

\* A variant that does not compare lease_owner.
DeferJobNoOwner(w) ==
    /\ pc[w] = "defer"
    /\ status' = [status EXCEPT ![task[w]] = IF @ = "absent" THEN @ ELSE "queued"]
    /\ ReleaseLease(task[w])
    /\ EndAttempt(w)
    /\ UNCHANGED <<book, flagged, delay, attempts, contentVars, api, faults>>

\* defer_job; whatever it raises is logged and dropped.
DeferJob(w) ==
    /\ pc[w] = "defer"
    /\ \/ /\ Owns(w)
          /\ status' = [status EXCEPT ![task[w]] = "queued"]
          /\ delay'  = [delay EXCEPT ![task[w]] = RetryTicks]
          /\ ReleaseLease(task[w])
       \/ ~Owns(w) /\ UNCHANGED <<status, delay, owner, lease>>
    /\ EndAttempt(w)
    /\ UNCHANGED <<book, flagged, attempts, contentVars, api, faults>>

\* fail_job and fail_book are two transactions; the second has no guard.
FailJob(w) ==
    /\ pc[w] = "fail"
    /\ \/ /\ Owns(w)
          /\ status' = [status EXCEPT ![task[w]] = "failed"]
          /\ ReleaseLease(task[w])
          /\ Goto(w, "fail_book")
          /\ UNCHANGED loopVars
       \/ ~Owns(w) /\ EndAttempt(w) /\ UNCHANGED <<status, owner, lease>>
    /\ UNCHANGED <<book, flagged, delay, attempts, contentVars, api, faults>>

FailBook(w) ==
    /\ pc[w] = "fail_book"
    /\ book' = IF Exists(task[w]) THEN [book EXCEPT ![task[w]] = "failed"] ELSE book
    /\ EndAttempt(w)
    /\ UNCHANGED <<flagged, jobVars, contentVars, api, faults>>

-----------------------------------------------------------------------------

PlanStep(w) ==
    \/ ProcessJob(w) \/ StartAttempt(w)
    \/ BeginPlanning(w) \/ PlanBook(w) \/ SavePlan(w) \/ CreateChapterStubs(w)

ChapterStep(w) ==
    \/ NextChapter(w) \/ BeginChapter(w)
    \/ WriteChapter(w) \/ RepairChapter(w) \/ UpdateChapterDraft(w)
    \/ BeginReview(w) \/ ReviewChapter(w) \/ UpdateChapterReview(w)
    \/ FailChapter(w) \/ ApproveChapter(w)
    \/ UpdateContinuity(w) \/ SaveContinuity(w)

ExportStep(w) ==
    \/ BeginExport(w) \/ RenderPdf(w) \/ SaveFailedExport(w)
    \/ ExportBook(w) \/ BeginEpub(w) \/ VerifyExports(w)
    \/ CompleteBookAndJob(w)

EndStep(w) ==
    \/ CancelBookAndJob(w) \/ ExportCancelled(w) \/ CancelAfterExport(w)
    \/ HandleFailure(w) \/ DeferJob(w) \/ FailJob(w) \/ FailBook(w)

AttemptStep(w) == PlanStep(w) \/ ChapterStep(w) \/ ExportStep(w) \/ EndStep(w)

WorkerStep(w) ==
    \/ StartWorker(w) \/ CrashWorker(w) \/ PollEmpty(w) \/ RenewLease(w)
    \/ \E b \in Books : ClaimNextJob(w, b)
    \/ AttemptStep(w)

ApiStep(b) ==
    \/ CreateQueuedBook(b) \/ DeleteFamilyBook(b)
    \/ CancelRequest(b) \/ CancelFlag(b) \/ CancelPeek(b) \/ CancelJob(b) \/ CancelBook(b)
    \/ CancelAborts(b)

Next ==
    \/ \E b \in Books : ApiStep(b)
    \/ \E w \in Workers : WorkerStep(w)
    \/ Tick

Spec == Init /\ [][Next]_vars

\* Time passes, workers are restarted, poll, heartbeat and get answers.
Fairness ==
    /\ WF_vars(Tick)
    /\ \A w \in Workers :
        /\ WF_vars(StartWorker(w))
        /\ WF_vars(\E b \in Books : ClaimNextJob(w, b))
        /\ WF_vars(RenewLease(w))
        /\ WF_vars(AttemptStep(w))

FairSpec == Spec /\ Fairness

-----------------------------------------------------------------------------
(* Properties                                                              *)

\* Type invariant of the rows and of the workers.
TypeOK ==
    /\ book      \in [Books -> BookStatus \cup {"none", "deleted"}]
    /\ flagged   \in SUBSET Books
    /\ status    \in [Books -> BookJobStatus \cup {"absent"}]
    /\ owner     \in [Books -> Workers \cup {NoWorker}]
    /\ lease     \in [Books -> {NoLease} \cup 0 .. LeaseTicks]
    /\ delay     \in [Books -> 0 .. RetryTicks]
    /\ attempts  \in [Books -> 0 .. MaxAttempts]
    /\ planned   \in SUBSET Books
    /\ chapter   \in [Books -> [Numbers -> ChapterStatus \cup {"none"}]]
    /\ draft     \in [Books -> [Numbers -> {Missing} \cup 0 .. Chapters]]
    /\ cont      \in [Books -> [0 .. Chapters -> {Missing} \cup 0 .. Chapters]]
    /\ exports   \in [Books -> SUBSET Formats]
    /\ pc        \in [Workers -> {"down", "idle"} \cup AttemptSteps]
    /\ task      \in [Workers -> Books \cup {NoBook}]
    /\ token     \in [Workers -> 0 .. MaxAttempts]
    /\ heartbeat \in SUBSET Workers
    /\ at        \in [Workers -> 0 .. Chapters]
    /\ basis     \in [Workers -> 0 .. Chapters]
    /\ repairs   \in [Workers -> 0 .. MaxRepairs]
    /\ api       \in [Books -> {"idle", "flag", "peek", "cancel_job", "cancel_book"}]
    /\ faults    \in 0 .. MaxFaults

\* A worker that the job still names as its owner is in its latest attempt, so
\* the guard of every worker write admits the latest attempt only.
OwnerIsLatestAttempt ==
    \A w \in Workers :
        InAttempt(w) => /\ token[w] <= attempts[task[w]]
                        /\ owner[task[w]] = w => token[w] = attempts[task[w]]

\* A completed book is whole: planned, every chapter approved, both formats
\* published -- whatever mixture of attempts, crashes and reclaims produced it.
CompletedIsWhole ==
    \A b \in Books :
        book[b] = "completed" =>
            b \in planned /\ Approved(b) = Numbers /\ exports[b] = Formats

\* "resumes ... without re-generating approved chapters": once approved, a chapter
\* is neither redrafted nor reopened, by a resumed attempt or by a stale worker.
ApprovedNeverRewritten ==
    [][\A b \in Books, k \in Numbers :
        chapter[b][k] = "approved" /\ book'[b] # "deleted" =>
            chapter'[b][k] = "approved" /\ draft'[b][k] = draft[b][k]]_vars

\* A settled job's book is frozen: after completion, failure or cancellation no
\* late write of any worker changes its plan, chapters or exports.
SettledIsFrozen ==
    [][\A b \in Books :
        status[b] \in TERMINAL_BOOK_JOB_STATUSES /\ book'[b] # "deleted" =>
            /\ (b \in planned') = (b \in planned)
            /\ chapter'[b] = chapter[b] /\ draft'[b] = draft[b]
            /\ cont'[b] = cont[b] /\ exports'[b] = exports[b]]_vars

\* "Automatic Reclaim: ... expired leases are automatically re-eligible for claim":
\* every queued book's job is eventually completed, failed, cancelled or deleted.
EveryJobSettles ==
    \A b \in Books :
        status[b] \in {"queued", "running"}
            ~> status[b] \in TERMINAL_BOOK_JOB_STATUSES \cup {"absent"}

\* The one way for a job never to settle: its worker died in the last attempt that
\* the ceiling allows, so that its lease has run out and nobody may claim it.
OnlyLastAttemptIsLost ==
    \A b \in Books :
        status[b] \in {"queued", "running"}
            ~> \/ status[b] \in TERMINAL_BOOK_JOB_STATUSES \cup {"absent"}
               \/ ExpiredLease(b) /\ attempts[b] = MaxAttempts

\* "Terminal guard against stale lease writes": a completed book and its job stay
\* completed until deleted, although cancel_job, cancel_book and fail_book write
\* without looking: whoever gets there raised the cancel flag or failed the job
\* before, and no attempt completes past either.
CompletedStaysCompleted ==
    [][\A b \in Books :
        /\ book[b] = "completed" => book'[b] \in {"completed", "deleted"}
        /\ status[b] = "completed" => status'[b] \in {"completed", "absent"}]_vars

\* What the book queue is to its users; a cancelled book is withdrawn.
Phase == [b \in Books |->
    CASE status[b] = "queued"    -> "waiting"
      [] status[b] = "running"   -> "running"
      [] status[b] = "completed" -> "done"
      [] status[b] = "failed"    -> "failed"
      [] OTHER -> IF book[b] = "none" THEN "none" ELSE "gone"]

Output == [b \in Books |-> IF status[b] = "completed" THEN attempts[b] ELSE 0]

Queue == INSTANCE DurableQueue WITH
    Items  <- Books,
    phase  <- Phase,
    epoch  <- attempts,
    output <- Output

\* Seen by its jobs, the book queue with its unguarded cancel endpoint still
\* implements the abstract queue: only the latest attempt delivers, and what is
\* settled is only ever withdrawn.
ImplementsDurableQueue == Queue!Spec

\* The book queue in every state: the owner of a row is the attempt that claimed it last, and
\* a completed book has its plan, all its chapters approved and every export, whatever
\* mixture of attempts made it (claim_next_job, complete_book_and_job).
BookInv == TypeOK /\ OwnerIsLatestAttempt /\ CompletedIsWhole

\* What no step undoes: a completed book, an approved chapter, and anything of a book whose
\* job is settled, although stale workers and the cancel endpoint write without looking.
FinishedIsKept == CompletedStaysCompleted /\ ApprovedNeverRewritten /\ SettledIsFrozen

=============================================================================
