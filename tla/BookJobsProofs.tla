--------------------------- MODULE BookJobsProofs ---------------------------
(***************************************************************************)
(* The book queue is correct for any workers, books, chapters, ceilings    *)
(* and lease times.  Footprint says once, for every step of an attempt,    *)
(* what it may touch; what concerns jobs, leases and cancellation follows  *)
(* from it.  Progress ties the place an owner has reached to what is       *)
(* stored.                                                                 *)
(***************************************************************************)
EXTENDS BookJobs, TLAPS

USE DEF jobVars, contentVars, loopVars, workerVars, NoLease, Missing, Numbers, Formats,
        TERMINAL_BOOK_STATUSES, TERMINAL_BOOK_JOB_STATUSES, BookStatus, BookJobStatus,
        ChapterStatus, InAttempt, Exists

-----------------------------------------------------------------------------
(* What an attempt may touch                                               *)

\* The names of the steps, one by one: the provers do without the set.
LEMMA Steps ==
    /\ "idle" \notin AttemptSteps /\ "down" \notin AttemptSteps
    /\ "claimed" \in AttemptSteps /\ "start" \in AttemptSteps
    /\ "planning" \in AttemptSteps /\ "plan_call" \in AttemptSteps
    /\ "save_plan" \in AttemptSteps /\ "stubs" \in AttemptSteps
    /\ "next" \in AttemptSteps /\ "begin" \in AttemptSteps
    /\ "write_call" \in AttemptSteps /\ "save_draft" \in AttemptSteps
    /\ "review" \in AttemptSteps /\ "review_call" \in AttemptSteps
    /\ "review_approved" \in AttemptSteps /\ "review_rejected" \in AttemptSteps
    /\ "review_blocked" \in AttemptSteps /\ "repair" \in AttemptSteps
    /\ "repair_call" \in AttemptSteps /\ "save_repair" \in AttemptSteps
    /\ "fail_chapter" \in AttemptSteps /\ "approve" \in AttemptSteps
    /\ "continuity_call" \in AttemptSteps /\ "save_continuity" \in AttemptSteps
    /\ "export" \in AttemptSteps /\ "render_pdf" \in AttemptSteps
    /\ "pdf_unavailable" \in AttemptSteps /\ "pdf_failed" \in AttemptSteps
    /\ "publish_pdf" \in AttemptSteps /\ "epub" \in AttemptSteps
    /\ "publish_epub" \in AttemptSteps /\ "verify" \in AttemptSteps
    /\ "complete" \in AttemptSteps /\ "cancel" \in AttemptSteps
    /\ "export_cancelled" \in AttemptSteps /\ "cancel_export" \in AttemptSteps
    /\ "retryable" \in AttemptSteps /\ "terminal" \in AttemptSteps
    /\ "defer" \in AttemptSteps /\ "fail" \in AttemptSteps
    /\ "fail_book" \in AttemptSteps
BY DEF AttemptSteps

\* A worker at work, or a renewal in flight, refers to a book.
TaskKnown ==
    \A w \in Workers : InAttempt(w) \/ w \in heartbeat => task[w] \in Books

\* A step of an attempt moves its own worker, which keeps its job and token until it
\* leaves, and asks no user of the API.
WorkerFootprint(w) ==
    /\ InAttempt(w)
    /\ \E s \in {"down", "idle"} \cup AttemptSteps : pc' = [pc EXCEPT ![w] = s]
    /\ task'  = task  \/ task'  = [task EXCEPT ![w] = NoBook]
    /\ token' = token \/ token' = [token EXCEPT ![w] = 0]
    /\ InAttempt(w)' => task' = task /\ token' = token
    /\ heartbeat' \in {heartbeat, heartbeat \ {w}}
    /\ w \in heartbeat' => task' = task
    /\ \A v \in Workers \ {w} : at'[v] = at[v] /\ basis'[v] = basis[v] /\ repairs'[v] = repairs[v]
    /\ UNCHANGED <<flagged, attempts, api>>
    /\ faults' \in 0 .. MaxFaults

\* The job's row: only its owner writes it, and only to settle it or to put it back.
JobFootprint(w) ==
    LET b == task[w]
    IN  \/ UNCHANGED <<status, owner, lease, delay>>
        \/ /\ Owns(w)
           /\ owner' = [owner EXCEPT ![b] = NoWorker]
           /\ lease' = [lease EXCEPT ![b] = NoLease]
           /\ delay' \in {delay, [delay EXCEPT ![b] = RetryTicks]}
           /\ \/ pc[w] = "complete" /\ status' = [status EXCEPT ![b] = "completed"]
              \/ pc[w] \in {"cancel", "cancel_export"} /\ status' = [status EXCEPT ![b] = "cancelled"]
              \/ pc[w] = "defer" /\ status' = [status EXCEPT ![b] = "queued"]
              \/ pc[w] = "fail" /\ status' = [status EXCEPT ![b] = "failed"]

\* The book's row: settled with the job, marked as in progress by the owner, or failed
\* after the job was.
BookFootprint(w) ==
    LET b == task[w]
    IN  \/ UNCHANGED book
        \/ Owns(w) /\ status' = status /\ book' = [book EXCEPT ![b] = "generating"]
        \/ Owns(w) /\ status'[b] = "completed" /\ book' = [book EXCEPT ![b] = "completed"]
        \/ Owns(w) /\ status'[b] = "cancelled" /\ book' = [book EXCEPT ![b] = "cancelled"]
        \/ pc[w] = "fail_book" /\ Exists(b) /\ status' = status /\ book' = [book EXCEPT ![b] = "failed"]

\* The contents of a book that only its owner writes.
SameContent(b) ==
    /\ b \in planned' <=> b \in planned
    /\ chapter'[b] = chapter[b] /\ draft'[b] = draft[b] /\ cont'[b] = cont[b]
    /\ exports'[b] = exports[b]

ContentFootprint(w) == \A b \in Books : (Owns(w) /\ b = task[w]) \/ SameContent(b)

Footprint(w) ==
    WorkerFootprint(w) /\ JobFootprint(w) /\ BookFootprint(w) /\ ContentFootprint(w)

\* A step that leaves the other workers' loops alone.
OthersLoop(w) ==
    \A v \in Workers \ {w} : at'[v] = at[v] /\ basis'[v] = basis[v] /\ repairs'[v] = repairs[v]

\* A worker that goes on to a step, and one that leaves its attempt.
LEMMA GoesOn ==
    ASSUME NEW w \in Workers, InAttempt(w), NEW s \in AttemptSteps, Goto(w, s), OthersLoop(w),
           UNCHANGED <<flagged, attempts, api>>, faults' \in 0 .. MaxFaults
    PROVE  WorkerFootprint(w)
  BY DEF Goto, OthersLoop, WorkerFootprint

LEMMA Departs ==
    ASSUME TypeOK, NEW w \in Workers, InAttempt(w), EndAttempt(w) \/ Die(w),
           UNCHANGED <<flagged, attempts, api>>, faults' \in 0 .. MaxFaults
    PROVE  WorkerFootprint(w)
<1>1. OthersLoop(w)
  BY DEF TypeOK, EndAttempt, Die, ResetLoop, OthersLoop
<1>2. pc' = [pc EXCEPT ![w] = "idle"] \/ pc' = [pc EXCEPT ![w] = "down"]
  BY DEF EndAttempt, Die
<1>3. pc'[w] \notin AttemptSteps
  BY <1>2, Steps DEF TypeOK
<1>4. /\ token' = [token EXCEPT ![w] = 0] /\ task' \in {task, [task EXCEPT ![w] = NoBook]}
      /\ heartbeat' \in {heartbeat, heartbeat \ {w}}
      /\ w \in heartbeat' => task' = task
  BY DEF EndAttempt, Die
<1> QED BY <1>1, <1>2, <1>3, <1>4 DEF OthersLoop, WorkerFootprint

\* A step that touches no row, and one that writes contents of its own book only.
LEMMA NoRowTouched ==
    ASSUME NEW w \in Workers, UNCHANGED <<book, jobVars, contentVars>>
    PROVE  JobFootprint(w) /\ BookFootprint(w) /\ ContentFootprint(w)
  BY DEF JobFootprint, BookFootprint, ContentFootprint, SameContent

LEMMA MovesOn ==
    ASSUME TypeOK, NEW w \in Workers, InAttempt(w), NEW s \in AttemptSteps, Goto(w, s),
           UNCHANGED <<book, flagged, jobVars, contentVars, loopVars, api>>, faults' \in 0 .. MaxFaults
    PROVE  Footprint(w)
<1>1. OthersLoop(w)
  BY DEF OthersLoop
<1> QED BY <1>1, GoesOn, NoRowTouched DEF Footprint

LEMMA LosesIt ==
    ASSUME TypeOK, NEW w \in Workers, InAttempt(w), EndAttempt(w) \/ Die(w),
           UNCHANGED <<book, flagged, jobVars, contentVars, api, faults>>
    PROVE  Footprint(w)
<1>1. faults' \in 0 .. MaxFaults
  BY DEF TypeOK
<1> QED BY <1>1, Departs, NoRowTouched DEF Footprint

LEMMA WritesContents ==
    ASSUME TypeOK, NEW w \in Workers, InAttempt(w), Owns(w), NEW s \in AttemptSteps, Goto(w, s), OthersLoop(w),
           UNCHANGED <<flagged, jobVars, api, faults>>, BookFootprint(w),
           \A b \in Books : b = task[w] \/ SameContent(b)
    PROVE  Footprint(w)
<1>1. faults' \in 0 .. MaxFaults
  BY DEF TypeOK
<1>2. JobFootprint(w) /\ ContentFootprint(w)
  BY DEF JobFootprint, ContentFootprint
<1> QED BY <1>1, <1>2, GoesOn DEF Footprint

\* A call of a provider answers or fails.
LEMMA Calls ==
    ASSUME TypeOK, NEW w \in Workers, InAttempt(w), NEW next \in AttemptSteps, Call(w, next)
    PROVE  Footprint(w)
<1>1. UNCHANGED <<book, flagged, jobVars, contentVars, loopVars, api>>
  BY DEF Call
<1>2. faults' \in 0 .. MaxFaults
  <2>1. faults' = faults \/ Fault
    BY DEF Call
  <2>2. faults \in 0 .. MaxFaults
    BY DEF TypeOK
  <2> QED BY <2>1, <2>2, SizeAssumption DEF Fault
<1>3. PICK s \in {next, "retryable", "terminal"} : Goto(w, s)
  BY DEF Call
<1>4. s \in AttemptSteps
  BY Steps
<1> QED BY <1>1, <1>2, <1>3, <1>4, MovesOn

LEMMA AttemptFootprint ==
    ASSUME TypeOK, TaskKnown, NEW w \in Workers, AttemptStep(w)
    PROVE  Footprint(w)
<1>1. CASE ProcessJob(w)
  <2>1. InAttempt(w) /\ UNCHANGED <<book, flagged, jobVars, contentVars, api, faults>> /\ faults' \in 0 .. MaxFaults
    BY <1>1, Steps DEF ProcessJob, TypeOK
  <2>2. Die(w) \/ (Goto(w, "start") /\ UNCHANGED loopVars)
    BY <1>1 DEF ProcessJob
  <2> QED BY <2>1, <2>2, LosesIt, MovesOn, Steps
<1>2. CASE CreateChapterStubs(w)
  <2>1. CASE Owns(w)
    <3>1. PICK s \in {"next"} : Goto(w, s)
      BY <1>2, <2>1 DEF CreateChapterStubs, Guarded
    <3>2. UNCHANGED <<book, flagged, api, faults, jobVars, loopVars>> /\ InAttempt(w)
      BY <1>2, <2>1, Steps DEF CreateChapterStubs, Guarded
    <3>3. OthersLoop(w) /\ BookFootprint(w) /\ s \in AttemptSteps
      BY <3>1, <3>2, Steps DEF OthersLoop, BookFootprint
    <3>4. ASSUME NEW b \in Books, b # task[w] PROVE SameContent(b)
      BY <1>2, <2>1, <3>4 DEF CreateChapterStubs, Guarded, TypeOK, SameContent
    <3> QED BY <2>1, <3>1, <3>2, <3>3, <3>4, WritesContents
  <2>2. CASE ~ Owns(w)
    <3>1. EndAttempt(w) /\ UNCHANGED <<book, flagged, jobVars, contentVars, api, faults>> /\ InAttempt(w)
      BY <1>2, <2>2, Steps DEF CreateChapterStubs, Guarded
    <3> QED BY <3>1, LosesIt
  <2> QED BY <2>1, <2>2
<1>3. CASE NextChapter(w)
  <2>1. InAttempt(w) /\ UNCHANGED <<book, flagged, jobVars, contentVars, api, faults>> /\ faults' \in 0 .. MaxFaults
    BY <1>3, Steps DEF NextChapter, TypeOK
  <2>2. \/ EndAttempt(w)
        \/ Goto(w, "cancel") /\ UNCHANGED loopVars
        \/ Goto(w, "export") /\ ResetLoop(w)
        \/ \E k \in Unfinished(task[w]) : /\ Goto(w, "begin") /\ at' = [at EXCEPT ![w] = k]
                  /\ repairs' = [repairs EXCEPT ![w] = 0] /\ UNCHANGED basis
    BY <1>3 DEF NextChapter, CheckCancellation
  <2>3. CASE EndAttempt(w)
    BY <2>1, <2>3, LosesIt
  <2>4. ASSUME NEW s \in {"cancel", "export", "begin"}, Goto(w, s), OthersLoop(w) PROVE Footprint(w)
    <3>1. s \in AttemptSteps
      BY Steps
    <3> QED BY <2>1, <2>4, <3>1, GoesOn, NoRowTouched DEF Footprint
  <2>5. CASE Goto(w, "cancel") /\ UNCHANGED loopVars
    <3>1. OthersLoop(w)
      BY <2>5 DEF OthersLoop
    <3> QED BY <2>4, <2>5, <3>1
  <2>6. CASE Goto(w, "export") /\ ResetLoop(w)
    <3>1. OthersLoop(w)
      BY <2>6 DEF OthersLoop, ResetLoop, TypeOK
    <3> QED BY <2>4, <2>6, <3>1
  <2>7. CASE \E k \in Unfinished(task[w]) : /\ Goto(w, "begin") /\ at' = [at EXCEPT ![w] = k]
                    /\ repairs' = [repairs EXCEPT ![w] = 0] /\ UNCHANGED basis
    <3>1. OthersLoop(w) /\ Goto(w, "begin")
      BY <2>7 DEF OthersLoop, TypeOK
    <3> QED BY <2>4, <3>1
  <2> QED BY <2>2, <2>3, <2>5, <2>6, <2>7
<1>4. CASE BeginChapter(w)
  <2>1. CASE Owns(w)
    <3>1. PICK s \in {"write_call", "review"} : Goto(w, s)
      BY <1>4, <2>1 DEF BeginChapter, Guarded
    <3>2. UNCHANGED <<flagged, api, faults, jobVars, planned, chapter, draft, exports, at, repairs>> /\ InAttempt(w)
      BY <1>4, <2>1, Steps DEF BeginChapter, Guarded
    <3>3. /\ book' = [book EXCEPT ![task[w]] = "generating"]
          /\ \E n : basis' = [basis EXCEPT ![w] = n]
          /\ cont' = cont \/ cont' = [cont EXCEPT ![task[w]][0] = 0]
      BY <1>4, <2>1 DEF BeginChapter, Guarded
    <3>4. OthersLoop(w) /\ s \in AttemptSteps
      BY <3>2, <3>3, Steps DEF OthersLoop, TypeOK
    <3>5. BookFootprint(w)
      BY <2>1, <3>2, <3>3 DEF BookFootprint
    <3>6. ASSUME NEW b \in Books, b # task[w] PROVE SameContent(b)
      BY <3>2, <3>3, <3>6 DEF TypeOK, SameContent
    <3> QED BY <2>1, <3>1, <3>2, <3>4, <3>5, <3>6, WritesContents
  <2>2. CASE ~ Owns(w)
    <3>1. EndAttempt(w) /\ UNCHANGED <<book, flagged, jobVars, contentVars, api, faults>> /\ InAttempt(w)
      BY <1>4, <2>2, Steps DEF BeginChapter, Guarded
    <3> QED BY <3>1, LosesIt
  <2> QED BY <2>1, <2>2
<1>5. CASE BeginReview(w)
  <2>1. InAttempt(w) /\ UNCHANGED <<book, flagged, jobVars, contentVars, api, faults>>
    BY <1>5, Steps DEF BeginReview, CheckedStage, Stage, Guarded
  <2>2. EndAttempt(w) \/ \E s \in {"cancel", "review_call", "repair_call"} : Goto(w, s) /\ UNCHANGED loopVars
    BY <1>5 DEF BeginReview, CheckedStage, Stage, Guarded
  <2>3. faults' \in 0 .. MaxFaults /\ {"cancel", "review_call", "repair_call"} \subseteq AttemptSteps
    BY <2>1, Steps DEF TypeOK
  <2>4. CASE EndAttempt(w)
    BY <2>1, <2>4, LosesIt
  <2>5. ASSUME NEW s \in {"cancel", "review_call", "repair_call"}, Goto(w, s), UNCHANGED loopVars PROVE Footprint(w)
    BY <2>1, <2>3, <2>5, MovesOn
  <2> QED BY <2>2, <2>4, <2>5
<1>6. CASE UpdateChapterReview(w)
  <2>1. CASE Owns(w)
    <3>1. PICK s \in {"approve", "repair", "fail_chapter"} : Goto(w, s)
      BY <1>6, <2>1 DEF UpdateChapterReview, Guarded
    <3>2. UNCHANGED <<book, flagged, api, faults, jobVars, loopVars>> /\ InAttempt(w)
      BY <1>6, <2>1, Steps DEF UpdateChapterReview, Guarded
    <3>3. OthersLoop(w) /\ BookFootprint(w) /\ s \in AttemptSteps
      BY <3>1, <3>2, Steps DEF OthersLoop, BookFootprint
    <3>4. ASSUME NEW b \in Books, b # task[w] PROVE SameContent(b)
      BY <1>6, <2>1, <3>4 DEF UpdateChapterReview, Guarded, TypeOK, SameContent
    <3> QED BY <2>1, <3>1, <3>2, <3>3, <3>4, WritesContents
  <2>2. CASE ~ Owns(w)
    <3>1. EndAttempt(w) /\ UNCHANGED <<book, flagged, jobVars, contentVars, api, faults>> /\ InAttempt(w)
      BY <1>6, <2>2, Steps DEF UpdateChapterReview, Guarded
    <3> QED BY <3>1, LosesIt
  <2> QED BY <2>1, <2>2
<1>7. CASE FailChapter(w)
  <2>1. CASE Owns(w)
    <3>1. PICK s \in {"terminal"} : Goto(w, s)
      BY <1>7, <2>1 DEF FailChapter, Guarded
    <3>2. UNCHANGED <<book, flagged, api, faults, jobVars, loopVars>> /\ InAttempt(w)
      BY <1>7, <2>1, Steps DEF FailChapter, Guarded
    <3>3. OthersLoop(w) /\ BookFootprint(w) /\ s \in AttemptSteps
      BY <3>1, <3>2, Steps DEF OthersLoop, BookFootprint
    <3>4. ASSUME NEW b \in Books, b # task[w] PROVE SameContent(b)
      BY <1>7, <2>1, <3>4 DEF FailChapter, Guarded, TypeOK, SameContent
    <3> QED BY <2>1, <3>1, <3>2, <3>3, <3>4, WritesContents
  <2>2. CASE ~ Owns(w)
    <3>1. EndAttempt(w) /\ UNCHANGED <<book, flagged, jobVars, contentVars, api, faults>> /\ InAttempt(w)
      BY <1>7, <2>2, Steps DEF FailChapter, Guarded
    <3> QED BY <3>1, LosesIt
  <2> QED BY <2>1, <2>2
<1>8. CASE ApproveChapter(w)
  <2>1. CASE Owns(w)
    <3>1. PICK s \in {"continuity_call"} : Goto(w, s)
      BY <1>8, <2>1 DEF ApproveChapter, Guarded
    <3>2. UNCHANGED <<book, flagged, api, faults, jobVars, loopVars>> /\ InAttempt(w)
      BY <1>8, <2>1, Steps DEF ApproveChapter, Guarded
    <3>3. OthersLoop(w) /\ BookFootprint(w) /\ s \in AttemptSteps
      BY <3>1, <3>2, Steps DEF OthersLoop, BookFootprint
    <3>4. ASSUME NEW b \in Books, b # task[w] PROVE SameContent(b)
      BY <1>8, <2>1, <3>4 DEF ApproveChapter, Guarded, TypeOK, SameContent
    <3> QED BY <2>1, <3>1, <3>2, <3>3, <3>4, WritesContents
  <2>2. CASE ~ Owns(w)
    <3>1. EndAttempt(w) /\ UNCHANGED <<book, flagged, jobVars, contentVars, api, faults>> /\ InAttempt(w)
      BY <1>8, <2>2, Steps DEF ApproveChapter, Guarded
    <3> QED BY <3>1, LosesIt
  <2> QED BY <2>1, <2>2
<1>9. CASE SaveContinuity(w)
  <2>1. CASE Owns(w)
    <3>1. PICK s \in {"next"} : Goto(w, s)
      BY <1>9, <2>1 DEF SaveContinuity, Guarded
    <3>2. UNCHANGED <<book, flagged, api, faults, jobVars, loopVars>> /\ InAttempt(w)
      BY <1>9, <2>1, Steps DEF SaveContinuity, Guarded
    <3>3. OthersLoop(w) /\ BookFootprint(w) /\ s \in AttemptSteps
      BY <3>1, <3>2, Steps DEF OthersLoop, BookFootprint
    <3>4. ASSUME NEW b \in Books, b # task[w] PROVE SameContent(b)
      BY <1>9, <2>1, <3>4 DEF SaveContinuity, Guarded, TypeOK, SameContent
    <3> QED BY <2>1, <3>1, <3>2, <3>3, <3>4, WritesContents
  <2>2. CASE ~ Owns(w)
    <3>1. EndAttempt(w) /\ UNCHANGED <<book, flagged, jobVars, contentVars, api, faults>> /\ InAttempt(w)
      BY <1>9, <2>2, Steps DEF SaveContinuity, Guarded
    <3> QED BY <3>1, LosesIt
  <2> QED BY <2>1, <2>2
<1>10. CASE RenderPdf(w)
  <2>1. InAttempt(w) /\ UNCHANGED <<book, flagged, jobVars, contentVars, loopVars, api>>
    BY <1>10, Steps DEF RenderPdf
  <2>4. faults' \in 0 .. MaxFaults
    <3>1. faults' = faults \/ Fault
      BY <1>10 DEF RenderPdf
    <3>2. faults \in 0 .. MaxFaults
      BY DEF TypeOK
    <3> QED BY <3>1, <3>2, SizeAssumption DEF Fault
  <2>2. PICK s \in {"terminal", "publish_pdf", "pdf_unavailable", "pdf_failed"} : Goto(w, s)
    BY <1>10 DEF RenderPdf
  <2>3. s \in AttemptSteps
    BY Steps
  <2> QED BY <2>1, <2>2, <2>3, <2>4, MovesOn
<1>11. CASE SaveFailedExport(w)
  <2>1. CASE Owns(w)
    <3>1. PICK s \in {"epub", "retryable", "terminal"} : Goto(w, s)
      BY <1>11, <2>1 DEF SaveFailedExport, Guarded
    <3>2. UNCHANGED <<book, flagged, api, faults, jobVars, loopVars>> /\ InAttempt(w)
      BY <1>11, <2>1, Steps DEF SaveFailedExport, Guarded
    <3>3. OthersLoop(w) /\ BookFootprint(w) /\ s \in AttemptSteps
      BY <3>1, <3>2, Steps DEF OthersLoop, BookFootprint
    <3>4. ASSUME NEW b \in Books, b # task[w] PROVE SameContent(b)
      BY <1>11, <2>1, <3>4 DEF SaveFailedExport, Guarded, TypeOK, SameContent
    <3> QED BY <2>1, <3>1, <3>2, <3>3, <3>4, WritesContents
  <2>2. CASE ~ Owns(w)
    <3>1. EndAttempt(w) /\ UNCHANGED <<book, flagged, jobVars, contentVars, api, faults>> /\ InAttempt(w)
      BY <1>11, <2>2, Steps DEF SaveFailedExport, Guarded
    <3> QED BY <3>1, LosesIt
  <2> QED BY <2>1, <2>2
<1>12. CASE BeginEpub(w)
  <2>1. InAttempt(w) /\ UNCHANGED <<book, flagged, jobVars, contentVars, api, faults>>
    BY <1>12, Steps DEF BeginEpub, CheckedStage, Stage, Guarded
  <2>2. EndAttempt(w) \/ \E s \in {"cancel", "publish_epub"} : Goto(w, s) /\ UNCHANGED loopVars
    BY <1>12 DEF BeginEpub, CheckedStage, Stage, Guarded
  <2>3. faults' \in 0 .. MaxFaults /\ {"cancel", "publish_epub"} \subseteq AttemptSteps
    BY <2>1, Steps DEF TypeOK
  <2>4. CASE EndAttempt(w)
    BY <2>1, <2>4, LosesIt
  <2>5. ASSUME NEW s \in {"cancel", "publish_epub"}, Goto(w, s), UNCHANGED loopVars PROVE Footprint(w)
    BY <2>1, <2>3, <2>5, MovesOn
  <2> QED BY <2>2, <2>4, <2>5
<1>13. CASE CancelAfterExport(w)
  <2>1. CASE Exists(task[w]) /\ Owns(w)
    <3>1. /\ UNCHANGED <<delay, attempts, contentVars, flagged, api, faults>> /\ EndAttempt(w) /\ InAttempt(w)
          /\ book' = [book EXCEPT ![task[w]] = "cancelled"] /\ status' = [status EXCEPT ![task[w]] = "cancelled"]
          /\ owner' = [owner EXCEPT ![task[w]] = NoWorker] /\ lease' = [lease EXCEPT ![task[w]] = NoLease]
          /\ pc[w] = "cancel_export" /\ task[w] \in Books /\ faults' \in 0 .. MaxFaults
      BY <1>13, <2>1, Steps DEF CancelAfterExport, Guarded, Settle, ReleaseLease, TypeOK, TaskKnown
    <3>2. WorkerFootprint(w)
      BY <3>1, Departs
    <3>3. JobFootprint(w)
      BY <2>1, <3>1 DEF JobFootprint
    <3>4. BookFootprint(w)
      BY <2>1, <3>1 DEF BookFootprint, TypeOK
    <3>5. ContentFootprint(w)
      BY <3>1 DEF ContentFootprint, SameContent
    <3> QED BY <3>2, <3>3, <3>4, <3>5 DEF Footprint
  <2>2. CASE ~ (Exists(task[w]) /\ Owns(w))
    <3>1. /\ EndAttempt(w) \/ Die(w)
          /\ UNCHANGED <<book, flagged, jobVars, contentVars, api, faults>> /\ InAttempt(w)
      BY <1>13, <2>2, Steps DEF CancelAfterExport, Guarded, Owns
    <3> QED BY <3>1, LosesIt
  <2> QED BY <2>1, <2>2
<1>14. CASE PlanBook(w)
  <2>1. InAttempt(w) /\ Call(w, "save_plan") /\ "save_plan" \in AttemptSteps
    BY <1>14, Steps DEF PlanBook
  <2> QED BY <2>1, Calls
<1>15. CASE WriteChapter(w)
  <2>1. InAttempt(w) /\ Call(w, "save_draft") /\ "save_draft" \in AttemptSteps
    BY <1>15, Steps DEF WriteChapter
  <2> QED BY <2>1, Calls
<1>16. CASE RepairChapter(w)
  <2>1. InAttempt(w) /\ Call(w, "save_repair") /\ "save_repair" \in AttemptSteps
    BY <1>16, Steps DEF RepairChapter
  <2> QED BY <2>1, Calls
<1>17. CASE UpdateContinuity(w)
  <2>1. InAttempt(w) /\ Call(w, "save_continuity") /\ "save_continuity" \in AttemptSteps
    BY <1>17, Steps DEF UpdateContinuity
  <2> QED BY <2>1, Calls
<1>18. CASE ReviewChapter(w)
  <2>1. PICK s \in {"review_approved", "review_rejected", "review_blocked"} : Call(w, s)
    BY <1>18 DEF ReviewChapter
  <2>2. InAttempt(w) /\ s \in AttemptSteps
    BY <1>18, Steps DEF ReviewChapter
  <2> QED BY <2>1, <2>2, Calls
<1>19. CASE HandleFailure(w)
  <2>1. InAttempt(w) /\ UNCHANGED <<book, flagged, jobVars, contentVars, api, faults>> /\ faults' \in 0 .. MaxFaults
    BY <1>19, Steps DEF HandleFailure, TypeOK
  <2>2. EndAttempt(w) \/ \E s \in {"defer", "fail"} : Goto(w, s) /\ UNCHANGED loopVars
    BY <1>19 DEF HandleFailure
  <2>3. CASE EndAttempt(w)
    BY <2>1, <2>3, LosesIt
  <2>4. ASSUME NEW s \in {"defer", "fail"}, Goto(w, s), UNCHANGED loopVars PROVE Footprint(w)
    <3>1. s \in AttemptSteps
      BY Steps
    <3> QED BY <2>1, <2>4, <3>1, MovesOn
  <2> QED BY <2>2, <2>3, <2>4
<1>20. CASE ExportCancelled(w)
  <2>1. InAttempt(w) /\ UNCHANGED <<book, flagged, jobVars, contentVars, api, faults>> /\ faults' \in 0 .. MaxFaults
    BY <1>20, Steps DEF ExportCancelled, TypeOK
  <2>2. EndAttempt(w) \/ \E s \in {"cancel_export"} : Goto(w, s) /\ UNCHANGED loopVars
    BY <1>20 DEF ExportCancelled
  <2>3. CASE EndAttempt(w)
    BY <2>1, <2>3, LosesIt
  <2>4. ASSUME NEW s \in {"cancel_export"}, Goto(w, s), UNCHANGED loopVars PROVE Footprint(w)
    <3>1. s \in AttemptSteps
      BY Steps
    <3> QED BY <2>1, <2>4, <3>1, MovesOn
  <2> QED BY <2>2, <2>3, <2>4
<1>21. CASE UpdateChapterDraft(w)
  <2>1. CASE Owns(w)
    <3>1. PICK s \in {"review", "review_call"} : Goto(w, s)
      BY <1>21, <2>1 DEF UpdateChapterDraft, Guarded
    <3>2. UNCHANGED <<book, flagged, api, faults, jobVars, planned, cont, exports, at, basis>> /\ InAttempt(w)
      BY <1>21, <2>1, Steps DEF UpdateChapterDraft, Guarded, StoreDraft
    <3>3. repairs' = repairs \/ repairs' = [repairs EXCEPT ![w] = @ + 1]
      BY <1>21, <2>1 DEF UpdateChapterDraft, Guarded
    <3>4. /\ draft' = [draft EXCEPT ![task[w]][at[w]] = basis[w]]
          /\ chapter' = [chapter EXCEPT ![task[w]][at[w]] = "reviewing"]
      BY <1>21, <2>1 DEF UpdateChapterDraft, Guarded, StoreDraft
    <3>5. OthersLoop(w) /\ BookFootprint(w) /\ s \in AttemptSteps
      BY <3>2, <3>3, Steps DEF OthersLoop, BookFootprint, TypeOK
    <3>6. ASSUME NEW b \in Books, b # task[w] PROVE SameContent(b)
      BY <3>2, <3>4, <3>6 DEF TypeOK, SameContent
    <3> QED BY <2>1, <3>1, <3>2, <3>5, <3>6, WritesContents
  <2>2. CASE ~ Owns(w)
    <3>1. EndAttempt(w) /\ UNCHANGED <<book, flagged, jobVars, contentVars, api, faults>> /\ InAttempt(w)
      BY <1>21, <2>2, Steps DEF UpdateChapterDraft, Guarded
    <3> QED BY <3>1, LosesIt
  <2> QED BY <2>1, <2>2
<1> USE SymbolAssumption, SizeAssumption, Steps
    DEF TypeOK, TaskKnown, Footprint, WorkerFootprint, JobFootprint, BookFootprint,
        ContentFootprint, SameContent
<1>22. CASE StartAttempt(w)
  BY <1>22 DEF StartAttempt, CheckCancellation, Goto, EndAttempt, ResetLoop
<1>23. CASE BeginPlanning(w)
  BY <1>23 DEF BeginPlanning, Guarded, Owns, Goto, EndAttempt, ResetLoop
<1>24. CASE SavePlan(w)
  BY <1>24 DEF SavePlan, Guarded, Owns, Goto, EndAttempt, ResetLoop
<1>25. CASE BeginExport(w)
  BY <1>25 DEF BeginExport, Guarded, Owns, Goto, EndAttempt, ResetLoop
<1>26. CASE ExportBook(w)
  <2>1. PICK format \in Formats, step \in {"epub", "verify"} : Publish(w, format, step)
    BY <1>26 DEF ExportBook
  <2>2. UNCHANGED <<book, flagged, jobVars, planned, chapter, draft, cont, api>> /\ InAttempt(w)
    BY <1>26 DEF ExportBook
  <2>3. \/ EndAttempt(w) /\ UNCHANGED faults
        \/ \E s \in {"export_cancelled", "epub", "verify", "retryable", "terminal"} :
              Goto(w, s) /\ UNCHANGED loopVars
    BY <2>1 DEF Publish
  <2>4. faults' \in 0 .. MaxFaults
    BY <2>1 DEF Publish, Fault
  <2>5. CASE EndAttempt(w) /\ UNCHANGED faults
    <3>1. WorkerFootprint(w)
      BY <2>2, <2>4, <2>5 DEF EndAttempt, ResetLoop
    <3>2. ContentFootprint(w)
      BY <2>1, <2>2, <2>5 DEF Publish, Owns
    <3> QED BY <2>2, <3>1, <3>2
  <2>6. CASE \E s \in {"export_cancelled", "epub", "verify", "retryable", "terminal"} :
                Goto(w, s) /\ UNCHANGED loopVars
    <3>1. PICK s \in {"export_cancelled", "epub", "verify", "retryable", "terminal"} :
              Goto(w, s) /\ UNCHANGED loopVars
      BY <2>6
    <3>2. s \in AttemptSteps
      BY <3>1
    <3>3. WorkerFootprint(w)
      BY <2>2, <2>4, <3>1, <3>2 DEF Goto
    <3>4. ContentFootprint(w)
      BY <2>1, <2>2 DEF Publish, Owns
    <3> QED BY <2>2, <3>3, <3>4
  <2> QED BY <2>3, <2>5, <2>6
<1>27. CASE VerifyExports(w)
  BY <1>27 DEF VerifyExports, CheckCancellation, Goto, EndAttempt, ResetLoop
<1>28. CASE CompleteBookAndJob(w)
  <2>1. CASE Guarded(w, Settle(w, "completed") /\ EndAttempt(w)) /\ UNCHANGED faults
    <3>1. CASE Owns(w)
      <4>1. /\ UNCHANGED <<delay, attempts, contentVars, flagged, api, faults>> /\ EndAttempt(w) /\ InAttempt(w)
              /\ book' = [book EXCEPT ![task[w]] = "completed"] /\ status' = [status EXCEPT ![task[w]] = "completed"]
              /\ owner' = [owner EXCEPT ![task[w]] = NoWorker] /\ lease' = [lease EXCEPT ![task[w]] = NoLease]
              /\ pc[w] = "complete" /\ task[w] \in Books /\ faults' \in 0 .. MaxFaults
        BY <1>28, <2>1, <3>1, Steps DEF CompleteBookAndJob, Guarded, Settle, ReleaseLease, TypeOK, TaskKnown
      <4>2. WorkerFootprint(w)
        BY <4>1, Departs
      <4>3. JobFootprint(w)
        BY <2>1, <3>1, <4>1 DEF JobFootprint
      <4>4. BookFootprint(w)
        BY <2>1, <3>1, <4>1 DEF BookFootprint, TypeOK
      <4>5. ContentFootprint(w)
        BY <4>1 DEF ContentFootprint, SameContent
      <4> QED BY <4>2, <4>3, <4>4, <4>5 DEF Footprint
    <3>2. CASE ~ Owns(w)
      <4>1. EndAttempt(w) /\ UNCHANGED <<book, flagged, jobVars, contentVars, api, faults>> /\ InAttempt(w)
        BY <1>28, <2>1, <3>2, Steps DEF CompleteBookAndJob, Guarded
      <4> QED BY <4>1, LosesIt
    <3> QED BY <3>1, <3>2
  <2>2. CASE ~(Guarded(w, Settle(w, "completed") /\ EndAttempt(w)) /\ UNCHANGED faults)
    <3>1. PICK kind \in {"retryable", "terminal"} :
            /\ Owns(w) /\ Settle(w, "completed") /\ Fault /\ Goto(w, kind)
            /\ UNCHANGED <<flagged, loopVars, api>>
      BY <1>28, <2>2 DEF CompleteBookAndJob
    <3>2. faults' \in 0 .. MaxFaults
      BY <3>1 DEF Fault
    <3>3. kind \in AttemptSteps /\ InAttempt(w)
      BY <1>28, <3>1 DEF CompleteBookAndJob
    <3>4. attempts' = attempts
      BY <3>1 DEF Settle
    <3>5. WorkerFootprint(w)
      BY <3>1, <3>2, <3>3, <3>4 DEF Goto
    <3>6. JobFootprint(w)
      BY <1>28, <3>1 DEF CompleteBookAndJob, Settle, ReleaseLease
    <3>7. BookFootprint(w)
      BY <1>28, <3>1 DEF CompleteBookAndJob, Owns, Settle
    <3>8. ContentFootprint(w)
      BY <1>28, <3>1 DEF CompleteBookAndJob, Settle
    <3> QED BY <3>5, <3>6, <3>7, <3>8
  <2> QED BY <2>1, <2>2
<1>29. CASE CancelBookAndJob(w)
  BY <1>29 DEF CancelBookAndJob, Guarded, Owns, Goto, EndAttempt, ResetLoop, Settle,
  ReleaseLease
<1>30. CASE DeferJob(w)
  BY <1>30 DEF DeferJob, Owns, EndAttempt, ResetLoop, ReleaseLease
<1>31. CASE FailJob(w)
  BY <1>31 DEF FailJob, Owns, Goto, EndAttempt, ResetLoop, ReleaseLease
<1>32. CASE FailBook(w)
  BY <1>32 DEF FailBook, EndAttempt, ResetLoop
<1> QED
  BY <1>1, <1>2, <1>3, <1>4, <1>5, <1>6, <1>7, <1>8, <1>9, <1>10, <1>11, <1>12, <1>13, <1>22,
  <1>23, <1>14, <1>24, <1>15, <1>16, <1>21, <1>18, <1>17, <1>25, <1>26, <1>27, <1>28, <1>29,
  <1>20, <1>19, <1>30, <1>31, <1>32 DEF AttemptStep, PlanStep, ChapterStep, ExportStep, EndStep

-----------------------------------------------------------------------------
(* How an attempt goes on                                                  *)

\* The steps at which the loop stands at a chapter, and those between a rejected
\* review and the repaired draft.
DraftSteps  == {"write_call", "save_draft", "review", "review_call", "review_approved",
                "review_rejected", "review_blocked", "repair", "repair_call", "save_repair",
                "fail_chapter", "approve"}
StoredSteps == {"continuity_call", "save_continuity"}
RepairSteps == {"repair", "repair_call", "save_repair"}

\* The steps after the last chapter, and those after the rendering.
WholeSteps  == {"pdf_unavailable", "pdf_failed", "publish_pdf", "epub", "publish_epub",
                "verify", "complete"}
ExportSteps == {"export", "render_pdf"} \cup WholeSteps

\* The steps after the plan is stored.
PlannedSteps == {"stubs", "next", "begin"} \cup DraftSteps \cup StoredSteps \cup ExportSteps

\* An attempt that leaves writes no contents.
Leaves(w) == (EndAttempt(w) \/ Die(w)) /\ UNCHANGED contentVars

\* What may be relied on at the step an attempt goes on to, it could rely on before,
\* or it has just looked.
LeadsTo(w, s) ==
    /\ s \in AttemptSteps \ {"begin", "claimed", "fail_book"}
    /\ s \in DraftSteps   => pc[w] \in DraftSteps
    /\ s \in StoredSteps  => pc[w] \in StoredSteps
    /\ s \in RepairSteps  => pc[w] \in RepairSteps
    /\ s \in PlannedSteps => pc[w] \in PlannedSteps \/ task[w] \in planned
    /\ s \in ExportSteps  => pc[w] \in ExportSteps
    /\ s \in WholeSteps   => pc[w] \in WholeSteps \/ Approved(task[w]) # {}
    /\ s = "complete"     => exports[task[w]] = Formats
    /\ s = "start" <=> pc[w] = "claimed"
    /\ pc[w] = "start" /\ task[w] \in flagged => s = "cancel"
    /\ pc[w] # "cancel"

Moves(w) ==
    \E s \in AttemptSteps :
        Goto(w, s) /\ LeadsTo(w, s) /\ UNCHANGED loopVars /\ UNCHANGED contentVars

\* The other steps: writes of contents by the owner, the loop's choice of a chapter,
\* and what follows a failed job.
Writes(w) ==
    \/ SavePlan(w) \/ CreateChapterStubs(w) \/ BeginChapter(w) \/ UpdateChapterDraft(w)
    \/ UpdateChapterReview(w) \/ FailChapter(w) \/ ApproveChapter(w) \/ SaveContinuity(w)
    \/ SaveFailedExport(w) \/ ExportBook(w)

LEMMA AttemptCases ==
    ASSUME NEW w \in Workers, AttemptStep(w)
    PROVE  \/ Leaves(w) \/ Moves(w) \/ NextChapter(w) \/ FailJob(w)
           \/ Owns(w) /\ Writes(w)
<1> USE Steps DEF Leaves, Moves, LeadsTo, Writes, DraftSteps, StoredSteps, RepairSteps,
        WholeSteps, ExportSteps, PlannedSteps
<1>1. CASE ProcessJob(w)
  BY <1>1 DEF ProcessJob, Goto, Die, ResetLoop
<1>2. CASE StartAttempt(w)
  BY <1>2 DEF StartAttempt, CheckCancellation, Goto, EndAttempt, ResetLoop
<1>3. CASE BeginPlanning(w)
  BY <1>3 DEF BeginPlanning, Guarded, Owns, Goto, EndAttempt, ResetLoop
<1>4. CASE PlanBook(w)
  BY <1>4 DEF PlanBook, Call, Goto, Fault
<1>5. CASE SavePlan(w)
  BY <1>5 DEF SavePlan, Guarded, Owns, Goto, EndAttempt, ResetLoop
<1>6. CASE CreateChapterStubs(w)
  BY <1>6 DEF CreateChapterStubs, Guarded, Owns, Goto, EndAttempt, ResetLoop
<1>7. CASE NextChapter(w)
  BY <1>7 DEF NextChapter, CheckCancellation, Unfinished, Goto, EndAttempt, ResetLoop
<1>8. CASE BeginChapter(w)
  BY <1>8 DEF BeginChapter, Guarded, Owns, Goto, EndAttempt, ResetLoop, PreviousContinuity
<1>9. CASE WriteChapter(w)
  BY <1>9 DEF WriteChapter, Call, Goto, Fault
<1>10. CASE RepairChapter(w)
  BY <1>10 DEF RepairChapter, Call, Goto, Fault
<1>11. CASE UpdateChapterDraft(w)
  BY <1>11 DEF UpdateChapterDraft, Guarded, Owns, Goto, EndAttempt, ResetLoop, StoreDraft
<1>12. CASE BeginReview(w)
  BY <1>12 DEF BeginReview, CheckedStage, Stage, Guarded, Owns, Goto, EndAttempt, ResetLoop
<1>13. CASE ReviewChapter(w)
  BY <1>13 DEF ReviewChapter, Call, Goto, Fault
<1>14. CASE UpdateChapterReview(w)
  BY <1>14 DEF UpdateChapterReview, Guarded, Owns, Goto, EndAttempt, ResetLoop
<1>15. CASE FailChapter(w)
  BY <1>15 DEF FailChapter, Guarded, Owns, Goto, EndAttempt, ResetLoop
<1>16. CASE ApproveChapter(w)
  BY <1>16 DEF ApproveChapter, Guarded, Owns, Goto, EndAttempt, ResetLoop
<1>17. CASE UpdateContinuity(w)
  BY <1>17 DEF UpdateContinuity, Call, Goto, Fault
<1>18. CASE SaveContinuity(w)
  BY <1>18 DEF SaveContinuity, Guarded, Owns, Goto, EndAttempt, ResetLoop
<1>19. CASE BeginExport(w)
  BY <1>19 DEF BeginExport, Guarded, Owns, Goto, EndAttempt, ResetLoop
<1>20. CASE RenderPdf(w)
  BY <1>20 DEF RenderPdf, Approved, Goto, Fault
<1>21. CASE SaveFailedExport(w)
  BY <1>21 DEF SaveFailedExport, Guarded, Owns, Goto, EndAttempt, ResetLoop
<1>22. CASE ExportBook(w)
  BY <1>22 DEF ExportBook, Publish, Owns, Goto, EndAttempt, ResetLoop, Fault
<1>23. CASE BeginEpub(w)
  BY <1>23 DEF BeginEpub, CheckedStage, Stage, Guarded, Owns, Goto, EndAttempt, ResetLoop
<1>24. CASE VerifyExports(w)
  BY <1>24 DEF VerifyExports, CheckCancellation, Goto, EndAttempt, ResetLoop
<1>25. CASE CompleteBookAndJob(w)
  BY <1>25 DEF CompleteBookAndJob, Guarded, Owns, Goto, EndAttempt, ResetLoop, Settle,
  ReleaseLease, Fault
<1>26. CASE CancelBookAndJob(w)
  BY <1>26 DEF CancelBookAndJob, Guarded, Owns, Goto, EndAttempt, ResetLoop, Settle,
  ReleaseLease
<1>27. CASE ExportCancelled(w)
  BY <1>27 DEF ExportCancelled, Goto, EndAttempt, ResetLoop
<1>28. CASE CancelAfterExport(w)
  BY <1>28 DEF CancelAfterExport, Guarded, Owns, Goto, EndAttempt, ResetLoop, Die, Settle,
  ReleaseLease
<1>29. CASE HandleFailure(w)
  BY <1>29 DEF HandleFailure, Goto, EndAttempt, ResetLoop
<1>30. CASE DeferJob(w)
  BY <1>30 DEF DeferJob, Owns, EndAttempt, ResetLoop, ReleaseLease
<1>31. CASE FailJob(w)
  BY <1>31 DEF FailJob, Owns, Goto, EndAttempt, ResetLoop, ReleaseLease
<1>32. CASE FailBook(w)
  BY <1>32 DEF FailBook, EndAttempt, ResetLoop
<1> QED
  BY <1>1, <1>2, <1>3, <1>4, <1>5, <1>6, <1>7, <1>8, <1>9, <1>10, <1>11, <1>12, <1>13, <1>14,
  <1>15, <1>16, <1>17, <1>18, <1>19, <1>20, <1>21, <1>22, <1>23, <1>24, <1>25, <1>26, <1>27,
  <1>28, <1>29, <1>30, <1>31, <1>32 DEF AttemptStep, PlanStep, ChapterStep, ExportStep, EndStep

-----------------------------------------------------------------------------
(* Types                                                                   *)

\* The parts of TypeOK.
RowTypes ==
    /\ book     \in [Books -> BookStatus \cup {"none", "deleted"}]
    /\ flagged  \in SUBSET Books
    /\ status   \in [Books -> BookJobStatus \cup {"absent"}]
    /\ owner    \in [Books -> Workers \cup {NoWorker}]
    /\ lease    \in [Books -> {NoLease} \cup 0 .. LeaseTicks]
    /\ delay    \in [Books -> 0 .. RetryTicks]
    /\ attempts \in [Books -> 0 .. MaxAttempts]
    /\ api      \in [Books -> {"idle", "flag", "peek", "cancel_job", "cancel_book"}]
    /\ faults   \in 0 .. MaxFaults

ContentTypes ==
    /\ planned \in SUBSET Books
    /\ chapter \in [Books -> [Numbers -> ChapterStatus \cup {"none"}]]
    /\ draft   \in [Books -> [Numbers -> {Missing} \cup 0 .. Chapters]]
    /\ cont    \in [Books -> [0 .. Chapters -> {Missing} \cup 0 .. Chapters]]
    /\ exports \in [Books -> SUBSET Formats]

WorkerTypes ==
    /\ pc        \in [Workers -> {"down", "idle"} \cup AttemptSteps]
    /\ task      \in [Workers -> Books \cup {NoBook}]
    /\ token     \in [Workers -> 0 .. MaxAttempts]
    /\ heartbeat \in SUBSET Workers

LoopTypes ==
    /\ at      \in [Workers -> 0 .. Chapters]
    /\ basis   \in [Workers -> 0 .. Chapters]
    /\ repairs \in [Workers -> 0 .. MaxRepairs]

LEMMA TypeParts ==
    /\ TypeOK  <=> RowTypes /\ ContentTypes /\ WorkerTypes /\ LoopTypes
    /\ TypeOK' <=> RowTypes' /\ ContentTypes' /\ WorkerTypes' /\ LoopTypes'
BY DEF TypeOK, RowTypes, ContentTypes, WorkerTypes, LoopTypes

\* A continuity state knows no more chapters than precede it, and the loop's knows
\* fewer than the chapter's number; a repair is begun only while some are left.
LoopBounds ==
    /\ \A b \in Books, k \in 0 .. Chapters : cont[b][k] <= k
    /\ \A w \in Workers :
        /\ pc[w] \in {"begin"} \cup DraftSteps \cup StoredSteps => at[w] \in Numbers
        /\ pc[w] \in DraftSteps \cup StoredSteps => basis[w] < at[w]
        /\ pc[w] \in RepairSteps => repairs[w] < MaxRepairs

TypeInv == TypeOK /\ TaskKnown /\ LoopBounds

\* A table of two keys, written at one cell.
LEMMA Cell ==
    ASSUME NEW S, NEW T, NEW R, NEW f \in [S -> [T -> R]], NEW a \in S, NEW b \in T, NEW v \in R
    PROVE  [f EXCEPT ![a][b] = v] \in [S -> [T -> R]]
OBVIOUS

LEMMA TypeInit == Init => TypeInv
BY SymbolAssumption, SizeAssumption, Steps
DEF Init, TypeInv, TypeOK, TaskKnown, LoopBounds, DraftSteps, StoredSteps, RepairSteps

\* What an attempt writes into its book and its loop has its type and stays in bounds.
LEMMA AttemptContents ==
    ASSUME TypeInv, NEW w \in Workers, AttemptStep(w)
    PROVE  ContentTypes' /\ LoopTypes' /\ LoopBounds'
<1>1. task[w] \in Books /\ InAttempt(w)
  BY AttemptFootprint DEF TypeInv, TaskKnown, Footprint, WorkerFootprint
<1>2. ContentTypes /\ WorkerTypes /\ LoopTypes /\ LoopBounds
  BY TypeParts DEF TypeInv
<1> USE SymbolAssumption, SizeAssumption, Steps
<1>3. CASE Leaves(w)
  <2>1. ContentTypes'
    BY <1>2, <1>3 DEF Leaves, ContentTypes
  <2>2. LoopTypes'
    BY <1>2, <1>3 DEF Leaves, EndAttempt, Die, ResetLoop, LoopTypes
  <2>3. LoopBounds'
    BY <1>2, <1>3
    DEF Leaves, EndAttempt, Die, ResetLoop, LoopBounds, LoopTypes, WorkerTypes, DraftSteps,
        StoredSteps, RepairSteps
  <2> QED BY <2>1, <2>2, <2>3
<1>4. CASE Moves(w)
  <2>1. PICK s \in AttemptSteps :
            Goto(w, s) /\ LeadsTo(w, s) /\ UNCHANGED loopVars /\ UNCHANGED contentVars
    BY <1>4 DEF Moves
  <2>2. ContentTypes' /\ LoopTypes'
    BY <1>2, <2>1 DEF ContentTypes, LoopTypes
  <2>3. LoopBounds'
    BY <1>2, <2>1 DEF Goto, LeadsTo, LoopBounds, WorkerTypes
  <2> QED BY <2>2, <2>3
<1>5. CASE NextChapter(w)
  <2>1. ContentTypes'
    BY <1>2, <1>5 DEF NextChapter, ContentTypes
  <2>2. LoopTypes'
    BY <1>2, <1>5
    DEF NextChapter, CheckCancellation, Unfinished, Goto, EndAttempt, ResetLoop, LoopTypes
  <2>3. LoopBounds'
    BY <1>2, <1>5
    DEF NextChapter, CheckCancellation, Unfinished, Goto, EndAttempt, ResetLoop, LoopBounds,
        LoopTypes, WorkerTypes, DraftSteps, StoredSteps, RepairSteps
  <2> QED BY <2>1, <2>2, <2>3
<1>6. CASE FailJob(w)
  <2>1. ContentTypes'
    BY <1>2, <1>6 DEF FailJob, ContentTypes
  <2>2. LoopTypes'
    BY <1>2, <1>6 DEF FailJob, Goto, EndAttempt, ResetLoop, LoopTypes
  <2>3. LoopBounds'
    BY <1>2, <1>6
    DEF FailJob, Goto, EndAttempt, ResetLoop, LoopBounds, LoopTypes, WorkerTypes, DraftSteps,
        StoredSteps, RepairSteps
  <2> QED BY <2>1, <2>2, <2>3
<1>7. CASE Owns(w) /\ SavePlan(w)
  <2>1. ContentTypes'
    BY <1>1, <1>2, <1>7 DEF SavePlan, Guarded, Goto, ContentTypes, LoopTypes, LoopBounds,
    DraftSteps, StoredSteps
  <2>2. LoopTypes'
    BY <1>1, <1>2, <1>7 DEF SavePlan, Guarded, Goto, ContentTypes, LoopTypes, LoopBounds,
    RepairSteps
  <2>3. LoopBounds'
    BY <1>1, <1>2, <1>7 DEF SavePlan, Guarded, Goto, LoopBounds, ContentTypes, LoopTypes,
    WorkerTypes, DraftSteps, StoredSteps, RepairSteps
  <2> QED BY <2>1, <2>2, <2>3
<1>8. CASE Owns(w) /\ CreateChapterStubs(w)
  <2>1. ContentTypes'
    <3>1. UNCHANGED <<planned, draft, cont, exports>>
      BY <1>8 DEF CreateChapterStubs, Guarded
    <3>2. chapter' = [chapter EXCEPT ![task[w]] =
                        [k \in Numbers |-> IF @[k] = "none" THEN "planned" ELSE @[k]]]
      BY <1>8 DEF CreateChapterStubs, Guarded
    <3>3. chapter' \in [Books -> [Numbers -> ChapterStatus \cup {"none"}]]
      BY <1>1, <1>2, <3>2 DEF ContentTypes
    <3> QED BY <1>2, <3>1, <3>3 DEF ContentTypes
  <2>2. LoopTypes'
    BY <1>1, <1>2, <1>8 DEF CreateChapterStubs, Guarded, Goto, ContentTypes, LoopTypes,
    LoopBounds, RepairSteps
  <2>3. LoopBounds'
    BY <1>1, <1>2, <1>8 DEF CreateChapterStubs, Guarded, Goto, LoopBounds, ContentTypes,
    LoopTypes, WorkerTypes, DraftSteps, StoredSteps, RepairSteps
  <2> QED BY <2>1, <2>2, <2>3
<1>9. CASE Owns(w) /\ BeginChapter(w)
  <2>1. ContentTypes'
    <3>1. UNCHANGED <<planned, chapter, draft, exports>>
      BY <1>9 DEF BeginChapter, Guarded
    <3>2. cont' = cont \/ cont' = [cont EXCEPT ![task[w]][0] = 0]
      BY <1>9 DEF BeginChapter, Guarded
    <3>3. 0 \in 0 .. Chapters /\ 0 \in {Missing} \cup 0 .. Chapters
      OBVIOUS
    <3>4. cont' \in [Books -> [0 .. Chapters -> {Missing} \cup 0 .. Chapters]]
      <4>1. CASE cont' = cont
        BY <1>2, <4>1 DEF ContentTypes
      <4>2. CASE cont' = [cont EXCEPT ![task[w]][0] = 0]
        <5>1. cont \in [Books -> [0 .. Chapters -> {Missing} \cup 0 .. Chapters]]
          BY <1>2 DEF ContentTypes
        <5> QED BY <1>1, <3>3, <4>2, <5>1, Cell
      <4> QED BY <3>2, <4>1, <4>2
    <3> QED BY <1>2, <3>1, <3>4 DEF ContentTypes
  <2>2. LoopTypes'
    <3>1. at[w] \in Numbers
      BY <1>2, <1>9 DEF BeginChapter, LoopBounds
    <3>2. /\ cont[task[w]][at[w] - 1] \in {Missing} \cup 0 .. Chapters
          /\ cont[task[w]][at[w] - 1] <= at[w] - 1
      <4>1. at[w] - 1 \in 0 .. Chapters
        BY <3>1
      <4> QED BY <1>1, <1>2, <4>1 DEF ContentTypes, LoopBounds
    <3>3. PreviousContinuity(task[w], at[w]) \in 0 .. at[w] - 1
      BY <3>1, <3>2 DEF PreviousContinuity
    <3>4. basis' = [basis EXCEPT ![w] = PreviousContinuity(task[w], at[w])] /\ UNCHANGED <<at, repairs>>
      BY <1>9 DEF BeginChapter, Guarded
    <3> QED BY <1>2, <3>1, <3>3, <3>4 DEF LoopTypes
  <2>3. LoopBounds'
    <3>1. at[w] \in Numbers
      BY <1>2, <1>9 DEF BeginChapter, LoopBounds
    <3>2. /\ cont[task[w]][at[w] - 1] \in {Missing} \cup 0 .. Chapters
          /\ cont[task[w]][at[w] - 1] <= at[w] - 1
      <4>1. at[w] - 1 \in 0 .. Chapters
        BY <3>1
      <4> QED BY <1>1, <1>2, <4>1 DEF ContentTypes, LoopBounds
    <3>3. PreviousContinuity(task[w], at[w]) \in 0 .. at[w] - 1
      BY <3>1, <3>2 DEF PreviousContinuity
    <3>4. basis' = [basis EXCEPT ![w] = PreviousContinuity(task[w], at[w])] /\ UNCHANGED <<at, repairs>>
      BY <1>9 DEF BeginChapter, Guarded
    <3>5. \A b \in Books, k \in 0 .. Chapters : cont'[b][k] <= k
      <4>1. cont' = cont \/ cont' = [cont EXCEPT ![task[w]][0] = 0]
        BY <1>9 DEF BeginChapter, Guarded
      <4>2. CASE cont' = [cont EXCEPT ![task[w]][0] = 0]
        <5> SUFFICES ASSUME NEW b \in Books, NEW k \in 0 .. Chapters PROVE cont'[b][k] <= k
          OBVIOUS
        <5>1. cont'[b][k] = IF b = task[w] /\ k = 0 THEN 0 ELSE cont[b][k]
          BY <1>2, <4>2 DEF ContentTypes
        <5> QED BY <1>2, <5>1 DEF LoopBounds
      <4> QED BY <1>2, <4>1, <4>2 DEF LoopBounds
    <3>6. pc' = [pc EXCEPT ![w] = "write_call"] \/ pc' = [pc EXCEPT ![w] = "review"]
      BY <1>9 DEF BeginChapter, Guarded, Goto
    <3> QED
      BY <1>2, <3>1, <3>3, <3>4, <3>5, <3>6
      DEF LoopBounds, LoopTypes, WorkerTypes, DraftSteps, StoredSteps, RepairSteps
  <2> QED BY <2>1, <2>2, <2>3
<1>10. CASE Owns(w) /\ UpdateChapterDraft(w)
  <2>1. ContentTypes'
    <3>1. UNCHANGED <<planned, cont, exports>>
      BY <1>10 DEF UpdateChapterDraft, Guarded, StoreDraft
    <3>2. /\ draft'   = [draft EXCEPT ![task[w]][at[w]] = basis[w]]
          /\ chapter' = [chapter EXCEPT ![task[w]][at[w]] = "reviewing"]
      BY <1>10 DEF UpdateChapterDraft, Guarded, StoreDraft
    <3>3. at[w] \in Numbers /\ basis[w] \in 0 .. Chapters
      BY <1>2, <1>10 DEF UpdateChapterDraft, LoopBounds, LoopTypes, DraftSteps
    <3>4. chapter' \in [Books -> [Numbers -> ChapterStatus \cup {"none"}]]
      BY <1>1, <1>2, <3>2, <3>3, Cell DEF ContentTypes
    <3>5. draft' \in [Books -> [Numbers -> {Missing} \cup 0 .. Chapters]]
      BY <1>1, <1>2, <3>2, <3>3, Cell DEF ContentTypes
    <3> QED BY <1>2, <3>1, <3>4, <3>5 DEF ContentTypes
  <2>2. LoopTypes'
    <3>1. UNCHANGED <<at, basis>>
      BY <1>10 DEF UpdateChapterDraft, Guarded, StoreDraft
    <3>2. \/ UNCHANGED repairs
          \/ pc[w] = "save_repair" /\ repairs' = [repairs EXCEPT ![w] = @ + 1]
      BY <1>10 DEF UpdateChapterDraft, Guarded
    <3> QED BY <1>2, <3>1, <3>2 DEF LoopTypes, LoopBounds, RepairSteps
  <2>3. LoopBounds'
    <3>1. UNCHANGED <<cont, at, basis>> /\ pc[w] \in DraftSteps
      BY <1>10 DEF UpdateChapterDraft, Guarded, StoreDraft, DraftSteps
    <3>2. \A v \in Workers \ {w} : pc'[v] = pc[v] /\ repairs'[v] = repairs[v]
      BY <1>2, <1>10 DEF UpdateChapterDraft, Guarded, Goto, LoopTypes, WorkerTypes
    <3>3. pc'[w] \in {"review", "review_call"}
      BY <1>2, <1>10 DEF UpdateChapterDraft, Guarded, Goto, WorkerTypes
    <3>4. pc'[w] \in DraftSteps /\ pc'[w] \notin RepairSteps /\ at[w] \in Numbers /\ basis[w] < at[w]
      BY <1>2, <3>1, <3>3 DEF LoopBounds, DraftSteps, RepairSteps
    <3>5. ASSUME NEW v \in Workers
          PROVE  /\ pc'[v] \in {"begin"} \cup DraftSteps \cup StoredSteps => at'[v] \in Numbers
                 /\ pc'[v] \in DraftSteps \cup StoredSteps => basis'[v] < at'[v]
                 /\ pc'[v] \in RepairSteps => repairs'[v] < MaxRepairs
      <4>1. CASE v = w
        BY <3>1, <3>4, <4>1
      <4>2. CASE v # w
        BY <1>2, <3>1, <3>2, <4>2 DEF LoopBounds
      <4> QED BY <4>1, <4>2
    <3>6. \A b \in Books, k \in 0 .. Chapters : cont'[b][k] <= k
      BY <1>2, <3>1 DEF LoopBounds
    <3> QED BY <3>5, <3>6 DEF LoopBounds
  <2> QED BY <2>1, <2>2, <2>3
<1>11. CASE Owns(w) /\ UpdateChapterReview(w)
  <2>1. ContentTypes'
    <3>1. UNCHANGED <<planned, draft, cont, exports>>
      BY <1>11 DEF UpdateChapterReview, Guarded
    <3>2. chapter' = [chapter EXCEPT ![task[w]][at[w]] = "reviewing"] /\ at[w] \in Numbers
      BY <1>2, <1>11 DEF UpdateChapterReview, Guarded, LoopBounds, DraftSteps
    <3>3. chapter' \in [Books -> [Numbers -> ChapterStatus \cup {"none"}]]
      BY <1>1, <1>2, <3>2, Cell DEF ContentTypes
    <3> QED BY <1>2, <3>1, <3>3 DEF ContentTypes
  <2>2. LoopTypes'
    BY <1>1, <1>2, <1>11 DEF UpdateChapterReview, Guarded, Goto, ContentTypes, LoopTypes,
    LoopBounds, RepairSteps
  <2>3. LoopBounds'
    BY <1>1, <1>2, <1>11 DEF UpdateChapterReview, Guarded, Goto, LoopBounds, ContentTypes,
    LoopTypes, WorkerTypes, DraftSteps, StoredSteps, RepairSteps
  <2> QED BY <2>1, <2>2, <2>3
<1>12. CASE Owns(w) /\ FailChapter(w)
  <2>1. ContentTypes'
    <3>1. UNCHANGED <<planned, draft, cont, exports>>
      BY <1>12 DEF FailChapter, Guarded
    <3>2. chapter' = [chapter EXCEPT ![task[w]][at[w]] = "failed"] /\ at[w] \in Numbers
      BY <1>2, <1>12 DEF FailChapter, Guarded, LoopBounds, DraftSteps
    <3>3. chapter' \in [Books -> [Numbers -> ChapterStatus \cup {"none"}]]
      BY <1>1, <1>2, <3>2, Cell DEF ContentTypes
    <3> QED BY <1>2, <3>1, <3>3 DEF ContentTypes
  <2>2. LoopTypes'
    BY <1>1, <1>2, <1>12 DEF FailChapter, Guarded, Goto, ContentTypes, LoopTypes, LoopBounds,
    RepairSteps
  <2>3. LoopBounds'
    BY <1>1, <1>2, <1>12 DEF FailChapter, Guarded, Goto, LoopBounds, ContentTypes, LoopTypes,
    WorkerTypes, DraftSteps, StoredSteps, RepairSteps
  <2> QED BY <2>1, <2>2, <2>3
<1>13. CASE Owns(w) /\ ApproveChapter(w)
  <2>1. ContentTypes'
    <3>1. UNCHANGED <<planned, draft, cont, exports>>
      BY <1>13 DEF ApproveChapter, Guarded
    <3>2. chapter' = [chapter EXCEPT ![task[w]][at[w]] = "approved"] /\ at[w] \in Numbers
      BY <1>2, <1>13 DEF ApproveChapter, Guarded, LoopBounds, DraftSteps
    <3>3. chapter' \in [Books -> [Numbers -> ChapterStatus \cup {"none"}]]
      BY <1>1, <1>2, <3>2, Cell DEF ContentTypes
    <3> QED BY <1>2, <3>1, <3>3 DEF ContentTypes
  <2>2. LoopTypes'
    BY <1>1, <1>2, <1>13 DEF ApproveChapter, Guarded, Goto, ContentTypes, LoopTypes,
    LoopBounds, RepairSteps
  <2>3. LoopBounds'
    BY <1>1, <1>2, <1>13 DEF ApproveChapter, Guarded, Goto, LoopBounds, ContentTypes,
    LoopTypes, WorkerTypes, DraftSteps, StoredSteps, RepairSteps
  <2> QED BY <2>1, <2>2, <2>3
<1>14. CASE Owns(w) /\ SaveContinuity(w)
  <2>1. ContentTypes'
    <3>1. at[w] \in Numbers /\ basis[w] \in 0 .. at[w] - 1
      BY <1>2, <1>14 DEF SaveContinuity, LoopBounds, LoopTypes, StoredSteps
    <3>2. cont' = [cont EXCEPT ![task[w]][at[w]] = basis[w] + 1]
      BY <1>14 DEF SaveContinuity, Guarded
    <3>3. UNCHANGED <<planned, chapter, draft, exports>>
      BY <1>14 DEF SaveContinuity, Guarded
    <3>4. at[w] \in 0 .. Chapters /\ basis[w] + 1 \in {Missing} \cup 0 .. Chapters
      BY <3>1
    <3>5. cont' \in [Books -> [0 .. Chapters -> {Missing} \cup 0 .. Chapters]]
      BY <1>1, <1>2, <3>2, <3>4, Cell DEF ContentTypes
    <3> QED BY <1>2, <3>3, <3>5 DEF ContentTypes
  <2>2. LoopTypes'
    BY <1>1, <1>2, <1>14 DEF SaveContinuity, Guarded, Goto, ContentTypes, LoopTypes,
    LoopBounds, RepairSteps
  <2>3. LoopBounds'
    <3>1. at[w] \in Numbers /\ basis[w] \in 0 .. at[w] - 1
      BY <1>2, <1>14 DEF SaveContinuity, LoopBounds, LoopTypes, StoredSteps
    <3>2. cont' = [cont EXCEPT ![task[w]][at[w]] = basis[w] + 1]
      BY <1>14 DEF SaveContinuity, Guarded
    <3>3. \A b \in Books, k \in 0 .. Chapters : cont'[b][k] <= k
      BY <1>1, <1>2, <3>1, <3>2 DEF ContentTypes, LoopBounds
    <3>4. pc' = [pc EXCEPT ![w] = "next"] /\ UNCHANGED loopVars
      BY <1>14 DEF SaveContinuity, Guarded, Goto
    <3> QED
      BY <1>2, <3>3, <3>4 DEF LoopBounds, WorkerTypes, DraftSteps, StoredSteps, RepairSteps
  <2> QED BY <2>1, <2>2, <2>3
<1>15. CASE Owns(w) /\ SaveFailedExport(w)
  <2>1. ContentTypes'
    <3>1. UNCHANGED <<planned, chapter, draft, cont>>
      BY <1>15 DEF SaveFailedExport, Guarded
    <3>2. exports' = [exports EXCEPT ![task[w]] = @ \ {"pdf"}]
      BY <1>15 DEF SaveFailedExport, Guarded
    <3>3. exports' \in [Books -> SUBSET Formats]
      BY <1>1, <1>2, <3>2 DEF ContentTypes
    <3> QED BY <1>2, <3>1, <3>3 DEF ContentTypes
  <2>2. LoopTypes'
    BY <1>1, <1>2, <1>15 DEF SaveFailedExport, Guarded, Goto, ContentTypes, LoopTypes,
    LoopBounds, RepairSteps
  <2>3. LoopBounds'
    BY <1>1, <1>2, <1>15 DEF SaveFailedExport, Guarded, Goto, LoopBounds, ContentTypes,
    LoopTypes, WorkerTypes, DraftSteps, StoredSteps, RepairSteps
  <2> QED BY <2>1, <2>2, <2>3
<1>16. CASE Owns(w) /\ ExportBook(w)
  <2>1. ContentTypes'
    <3>1. UNCHANGED <<planned, chapter, draft, cont>>
      BY <1>16 DEF ExportBook
    <3>2. exports' = exports \/ \E f \in Formats : exports' = [exports EXCEPT ![task[w]] = @ \cup {f}]
      BY <1>16 DEF ExportBook, Publish
    <3>3. exports \in [Books -> SUBSET Formats]
      BY <1>2 DEF ContentTypes
    <3>4. ASSUME NEW f \in Formats, exports' = [exports EXCEPT ![task[w]] = @ \cup {f}]
          PROVE  exports' \in [Books -> SUBSET Formats]
      BY <1>1, <3>3, <3>4
    <3> QED BY <1>2, <3>1, <3>2, <3>3, <3>4 DEF ContentTypes
  <2>2. LoopTypes'
    <3>1. UNCHANGED loopVars \/ ResetLoop(w)
      BY <1>16 DEF ExportBook, Publish, EndAttempt
    <3> QED BY <1>2, <3>1 DEF LoopTypes, ResetLoop
  <2>3. LoopBounds'
    BY <1>1, <1>2, <1>16, SMTT(30) DEF ExportBook, Publish, Goto, LoopBounds, ContentTypes, LoopTypes,
    WorkerTypes, DraftSteps, StoredSteps, RepairSteps, EndAttempt, ResetLoop
  <2> QED BY <2>1, <2>2, <2>3
<1> QED
  BY AttemptCases, <1>3, <1>4, <1>5, <1>6, <1>7, <1>8, <1>9, <1>10, <1>11, <1>12, <1>13, <1>14,
  <1>15, <1>16 DEF Writes

LEMMA AttemptTypes ==
    ASSUME TypeInv, NEW w \in Workers, AttemptStep(w)
    PROVE  TypeInv'
<1>1. WorkerFootprint(w) /\ JobFootprint(w) /\ BookFootprint(w) /\ task[w] \in Books
  BY AttemptFootprint DEF TypeInv, TaskKnown, Footprint, WorkerFootprint
<1>2. RowTypes /\ WorkerTypes
  BY TypeParts DEF TypeInv
<1> USE SymbolAssumption, SizeAssumption, Steps
<1>3. WorkerTypes'
  BY <1>1, <1>2 DEF WorkerFootprint, WorkerTypes
<1>4. RowTypes'
  <2>1. book' \in [Books -> BookStatus \cup {"none", "deleted"}]
    BY <1>1, <1>2 DEF BookFootprint, RowTypes
  <2>2. status' \in [Books -> BookJobStatus \cup {"absent"}]
    BY <1>1, <1>2 DEF JobFootprint, RowTypes
  <2>3. owner' \in [Books -> Workers \cup {NoWorker}]
    BY <1>1, <1>2 DEF JobFootprint, RowTypes
  <2>4. lease' \in [Books -> {NoLease} \cup 0 .. LeaseTicks]
    BY <1>1, <1>2 DEF JobFootprint, RowTypes
  <2>5. delay' \in [Books -> 0 .. RetryTicks]
    BY <1>1, <1>2 DEF JobFootprint, RowTypes
  <2> QED BY <1>1, <1>2, <2>1, <2>2, <2>3, <2>4, <2>5 DEF WorkerFootprint, RowTypes
<1>5. TaskKnown'
  <2>1. PICK s \in {"down", "idle"} \cup AttemptSteps : pc' = [pc EXCEPT ![w] = s]
    BY <1>1 DEF WorkerFootprint
  <2>2. ASSUME NEW v \in Workers, InAttempt(v)' \/ v \in heartbeat'
        PROVE  task'[v] \in Books
    <3>1. CASE v = w
      BY <1>1, <1>2, <2>2, <3>1 DEF WorkerFootprint, WorkerTypes
    <3>2. CASE v # w
      BY <1>1, <1>2, <2>1, <2>2, <3>2 DEF TypeInv, TaskKnown, WorkerFootprint, WorkerTypes
    <3> QED BY <3>1, <3>2
  <2> QED BY <2>2 DEF TaskKnown
<1> QED
  BY <1>3, <1>4, <1>5, TypeParts, AttemptContents DEF TypeInv

LEMMA TypeStep == TypeInv /\ [Next]_vars => TypeInv'
<1> SUFFICES ASSUME TypeInv, [Next]_vars PROVE TypeInv'
  OBVIOUS
<1>1. RowTypes /\ ContentTypes /\ WorkerTypes /\ LoopTypes /\ TaskKnown /\ LoopBounds
  BY TypeParts DEF TypeInv
<1>2. SUFFICES RowTypes' /\ ContentTypes' /\ WorkerTypes' /\ LoopTypes' /\ TaskKnown' /\ LoopBounds'
  BY TypeParts DEF TypeInv
<1> USE SymbolAssumption, SizeAssumption, Steps
<1>3. ASSUME NEW b \in Books, CreateQueuedBook(b)
      PROVE  RowTypes' /\ UNCHANGED <<contentVars, workerVars>>
  BY <1>1, <1>3 DEF CreateQueuedBook, RowTypes
<1>4. ASSUME NEW b \in Books, CancelRequest(b)
      PROVE  RowTypes' /\ UNCHANGED <<contentVars, workerVars>>
  BY <1>1, <1>4 DEF CancelRequest, ApiGoto, RowTypes
<1>5. ASSUME NEW b \in Books, CancelFlag(b)
      PROVE  RowTypes' /\ UNCHANGED <<contentVars, workerVars>>
  BY <1>1, <1>5 DEF CancelFlag, ApiGoto, RowTypes
<1>6. ASSUME NEW b \in Books, CancelPeek(b)
      PROVE  RowTypes' /\ UNCHANGED <<contentVars, workerVars>>
  BY <1>1, <1>6 DEF CancelPeek, ApiGoto, RowTypes
<1>7. ASSUME NEW b \in Books, CancelJob(b)
      PROVE  RowTypes' /\ UNCHANGED <<contentVars, workerVars>>
  BY <1>1, <1>7 DEF CancelJob, ApiGoto, ReleaseLease, RowTypes
<1>8. ASSUME NEW b \in Books, CancelBook(b)
      PROVE  RowTypes' /\ UNCHANGED <<contentVars, workerVars>>
  BY <1>1, <1>8 DEF CancelBook, ApiGoto, RowTypes
<1>9. ASSUME NEW b \in Books, CancelAborts(b)
      PROVE  RowTypes' /\ UNCHANGED <<contentVars, workerVars>>
  BY <1>1, <1>9 DEF CancelAborts, ApiGoto, Fault, RowTypes
<1>10. ASSUME UNCHANGED <<contentVars, workerVars>>
      PROVE  ContentTypes' /\ WorkerTypes' /\ LoopTypes' /\ TaskKnown' /\ LoopBounds'
  BY <1>1, <1>10 DEF ContentTypes, WorkerTypes, LoopTypes, TaskKnown, LoopBounds
<1>11. ASSUME NEW b \in Books, DeleteFamilyBook(b)
      PROVE  RowTypes' /\ ContentTypes' /\ WorkerTypes' /\ LoopTypes' /\ TaskKnown' /\ LoopBounds'
  <2>1. RowTypes'
    BY <1>1, <1>11 DEF DeleteFamilyBook, ReleaseLease, RowTypes
  <2>2. ContentTypes'
    BY <1>1, <1>11 DEF DeleteFamilyBook, ReleaseLease, ContentTypes
  <2>3. WorkerTypes'
    BY <1>1, <1>11 DEF DeleteFamilyBook, ReleaseLease, WorkerTypes, RowTypes
  <2>4. LoopTypes'
    BY <1>1, <1>11 DEF DeleteFamilyBook, ReleaseLease, LoopTypes
  <2>5. TaskKnown'
    BY <1>1, <1>11 DEF DeleteFamilyBook, ReleaseLease, TaskKnown, WorkerTypes
  <2>6. LoopBounds'
    BY <1>1, <1>11 DEF DeleteFamilyBook, ReleaseLease, LoopBounds, WorkerTypes, ContentTypes,
    LoopTypes, DraftSteps, StoredSteps, RepairSteps
  <2> QED BY <2>1, <2>2, <2>3, <2>4, <2>5, <2>6
<1>12. ASSUME NEW w \in Workers, StartWorker(w)
      PROVE  RowTypes' /\ ContentTypes' /\ WorkerTypes' /\ LoopTypes' /\ TaskKnown' /\ LoopBounds'
  <2>1. RowTypes'
    BY <1>1, <1>12 DEF StartWorker, RowTypes
  <2>2. ContentTypes'
    BY <1>1, <1>12 DEF StartWorker, ContentTypes
  <2>3. WorkerTypes'
    BY <1>1, <1>12 DEF StartWorker, WorkerTypes, RowTypes
  <2>4. LoopTypes'
    BY <1>1, <1>12 DEF StartWorker, LoopTypes
  <2>5. TaskKnown'
    BY <1>1, <1>12 DEF StartWorker, TaskKnown, WorkerTypes
  <2>6. LoopBounds'
    BY <1>1, <1>12 DEF StartWorker, LoopBounds, WorkerTypes, ContentTypes, LoopTypes,
    DraftSteps, StoredSteps, RepairSteps
  <2> QED BY <2>1, <2>2, <2>3, <2>4, <2>5, <2>6
<1>13. ASSUME NEW w \in Workers, CrashWorker(w)
      PROVE  RowTypes' /\ ContentTypes' /\ WorkerTypes' /\ LoopTypes' /\ TaskKnown' /\ LoopBounds'
  <2>1. RowTypes'
    BY <1>1, <1>13 DEF CrashWorker, Die, ResetLoop, Fault, RowTypes
  <2>2. ContentTypes'
    BY <1>1, <1>13 DEF CrashWorker, Die, ResetLoop, Fault, ContentTypes
  <2>3. WorkerTypes'
    BY <1>1, <1>13 DEF CrashWorker, Die, ResetLoop, Fault, WorkerTypes, RowTypes
  <2>4. LoopTypes'
    BY <1>1, <1>13 DEF CrashWorker, Die, ResetLoop, Fault, LoopTypes
  <2>5. TaskKnown'
    BY <1>1, <1>13 DEF CrashWorker, Die, ResetLoop, Fault, TaskKnown, WorkerTypes
  <2>6. LoopBounds'
    BY <1>1, <1>13 DEF CrashWorker, Die, ResetLoop, Fault, LoopBounds, WorkerTypes,
    ContentTypes, LoopTypes, DraftSteps, StoredSteps, RepairSteps
  <2> QED BY <2>1, <2>2, <2>3, <2>4, <2>5, <2>6
<1>14. ASSUME NEW w \in Workers, RenewLease(w)
      PROVE  RowTypes' /\ ContentTypes' /\ WorkerTypes' /\ LoopTypes' /\ TaskKnown' /\ LoopBounds'
  <2>1. RowTypes'
    BY <1>1, <1>14 DEF RenewLease, Renewable, RowTypes
  <2>2. ContentTypes'
    BY <1>1, <1>14 DEF RenewLease, Renewable, ContentTypes
  <2>3. WorkerTypes'
    BY <1>1, <1>14 DEF RenewLease, Renewable, WorkerTypes, RowTypes
  <2>4. LoopTypes'
    BY <1>1, <1>14 DEF RenewLease, Renewable, LoopTypes
  <2>5. TaskKnown'
    BY <1>1, <1>14 DEF RenewLease, Renewable, TaskKnown, WorkerTypes
  <2>6. LoopBounds'
    BY <1>1, <1>14 DEF RenewLease, Renewable, LoopBounds, WorkerTypes, ContentTypes, LoopTypes,
    DraftSteps, StoredSteps, RepairSteps
  <2> QED BY <2>1, <2>2, <2>3, <2>4, <2>5, <2>6
<1>15. ASSUME NEW w \in Workers, NEW b \in Books, ClaimNextJob(w, b)
      PROVE  RowTypes' /\ ContentTypes' /\ WorkerTypes' /\ LoopTypes' /\ TaskKnown' /\ LoopBounds'
  <2>1. RowTypes'
    BY <1>1, <1>15 DEF ClaimNextJob, Eligible, DueQueued, ExpiredLease, RowTypes
  <2>2. ContentTypes'
    BY <1>1, <1>15 DEF ClaimNextJob, Eligible, DueQueued, ExpiredLease, ContentTypes
  <2>3. WorkerTypes'
    BY <1>1, <1>15 DEF ClaimNextJob, Eligible, DueQueued, ExpiredLease, WorkerTypes, RowTypes
  <2>4. LoopTypes'
    BY <1>1, <1>15 DEF ClaimNextJob, Eligible, DueQueued, ExpiredLease, LoopTypes
  <2>5. TaskKnown'
    BY <1>1, <1>15 DEF ClaimNextJob, Eligible, DueQueued, ExpiredLease, TaskKnown, WorkerTypes
  <2>6. LoopBounds'
    BY <1>1, <1>15 DEF ClaimNextJob, Eligible, DueQueued, ExpiredLease, LoopBounds,
    WorkerTypes, ContentTypes, LoopTypes, DraftSteps, StoredSteps, RepairSteps
  <2> QED BY <2>1, <2>2, <2>3, <2>4, <2>5, <2>6
<1>16. CASE Tick
  BY <1>1, <1>10, <1>16 DEF Tick, Fault, RowTypes
<1>17. ASSUME NEW w \in Workers, AttemptStep(w)
      PROVE  RowTypes' /\ ContentTypes' /\ WorkerTypes' /\ LoopTypes' /\ TaskKnown' /\ LoopBounds'
  BY <1>17, AttemptTypes, TypeParts DEF TypeInv
<1>18. ASSUME UNCHANGED vars
      PROVE  RowTypes' /\ ContentTypes' /\ WorkerTypes' /\ LoopTypes' /\ TaskKnown' /\ LoopBounds'
  BY <1>1, <1>18 DEF vars, RowTypes, ContentTypes, WorkerTypes, LoopTypes, TaskKnown, LoopBounds
<1>19. ASSUME NEW w \in Workers, PollEmpty(w) PROVE UNCHANGED vars
  BY <1>19 DEF PollEmpty
<1> QED
  BY <1>3, <1>4, <1>5, <1>6, <1>7, <1>8, <1>9, <1>10, <1>11, <1>12, <1>13, <1>14, <1>15, <1>16,
  <1>17, <1>18, <1>19 DEF Next, ApiStep, WorkerStep

-----------------------------------------------------------------------------
(* Jobs, leases and cancellation                                           *)

\* The rows of a book agree: it has a job while it exists, and the job has an owner
\* exactly while it runs; the owner is the attempt that claimed it last.
Fence ==
    /\ \A b \in Books : status[b] = "absent" <=> book[b] \in {"none", "deleted"}
    /\ \A b \in Books : status[b] = "running" <=> owner[b] # NoWorker
    /\ OwnerIsLatestAttempt

\* What a cancel request knows at each of its transactions: whoever comes to the
\* unguarded cancel_job has flagged the book, so that no attempt that claimed it since
\* gets past its first look at the flag.
Request(b) ==
    /\ api[b] # "idle" => book[b] # "none"
    /\ api[b] = "peek" => b \in flagged \/ status[b] \in TERMINAL_BOOK_JOB_STATUSES \cup {"absent"}
    /\ api[b] = "cancel_job" =>
          /\ b \in flagged \/ status[b] = "absent"
          /\ status[b] # "completed"
          /\ \A w \in Workers :
                InAttempt(w) /\ task[w] = b /\ owner[b] = w => pc[w] \in {"claimed", "start", "cancel"}
    /\ api[b] = "cancel_book" => status[b] \in {"cancelled", "absent"}

\* What an attempt knows of its book, whoever owns it by now.
Known(w) ==
    /\ InAttempt(w) => book[task[w]] # "none"
    /\ pc[w] = "fail_book" => status[task[w]] \in {"failed", "cancelled", "absent"}

\* A book is settled only together with its job, or after it.
Settled(b) ==
    /\ book[b] \in TERMINAL_BOOK_STATUSES => status[b] \in TERMINAL_BOOK_JOB_STATUSES
    /\ book[b] = "completed" => status[b] = "completed"

JobInv ==
    /\ Fence
    /\ \A b \in Books : Request(b) /\ Settled(b)
    /\ \A w \in Workers : Known(w)

-----------------------------------------------------------------------------
(* Contents                                                                *)

\* The owner of a book is where the stored contents allow it to be.
Place(w) ==
    LET b == task[w]
    IN  InAttempt(w) /\ owner[b] = w =>
            /\ pc[w] \in PlannedSteps => b \in planned
            /\ pc[w] \in {"begin"} \cup DraftSteps => chapter[b][at[w]] \notin {"none", "approved"}
            /\ pc[w] \in ExportSteps => Unfinished(b) = {}
            /\ pc[w] \in WholeSteps => Approved(b) # {}
            /\ pc[w] = "complete" => exports[b] = Formats

\* The chapters of a book are created together.
AllOrNone(b) ==
    \/ \A k \in Numbers : chapter[b][k] = "none"
    \/ \A k \in Numbers : chapter[b][k] # "none"

Whole(b) == book[b] = "completed" => b \in planned /\ Approved(b) = Numbers /\ exports[b] = Formats

ContentInv ==
    /\ \A w \in Workers : Place(w)
    /\ \A b \in Books : AllOrNone(b) /\ Whole(b)

IInv == TypeInv /\ JobInv /\ ContentInv

-----------------------------------------------------------------------------
(* Jobs, leases and cancellation: the proof                                *)

LEMMA JobInit == Init => JobInv
BY SymbolAssumption, Steps
DEF Init, JobInv, Fence, OwnerIsLatestAttempt, Request, Settled, Known

\* The first steps of an attempt, and the way to fail_book.
LEMMA AttemptTurns ==
    ASSUME TypeInv, NEW w \in Workers, AttemptStep(w)
    PROVE  /\ pc[w] = "claimed" /\ InAttempt(w)' => pc'[w] = "start"
           /\ pc[w] = "start" /\ task[w] \in flagged /\ InAttempt(w)' => pc'[w] = "cancel"
           /\ pc[w] = "cancel" => ~InAttempt(w)'
           /\ pc'[w] = "fail_book" => status'[task[w]] = "failed"
<1>1. WorkerTypes /\ RowTypes /\ (Owns(w) => task[w] \in Books)
  BY TypeParts, AttemptFootprint DEF TypeInv, TaskKnown, Footprint, WorkerFootprint
<1> USE Steps
<1>2. CASE Leaves(w)
  BY <1>1, <1>2 DEF Leaves, EndAttempt, Die, WorkerTypes
<1>3. CASE Moves(w)
  BY <1>1, <1>3 DEF Moves, LeadsTo, Goto, WorkerTypes
<1>4. CASE NextChapter(w)
  BY <1>1, <1>4 DEF NextChapter, CheckCancellation, Goto, EndAttempt, WorkerTypes
<1>5. CASE FailJob(w)
  BY <1>1, <1>5 DEF FailJob, Goto, EndAttempt, WorkerTypes, RowTypes
<1>6. CASE Owns(w) /\ Writes(w)
  <2>1. pc[w] \notin {"claimed", "start", "cancel"}
    BY <1>6
    DEF Writes, SavePlan, CreateChapterStubs, BeginChapter, UpdateChapterDraft,
        UpdateChapterReview, FailChapter, ApproveChapter, SaveContinuity, SaveFailedExport,
        ExportBook
  <2>2. pc'[w] # "fail_book"
    BY <1>1, <1>6
    DEF Writes, SavePlan, CreateChapterStubs, BeginChapter, UpdateChapterDraft,
        UpdateChapterReview, FailChapter, ApproveChapter, SaveContinuity, SaveFailedExport,
        ExportBook, Publish, Guarded, Goto, EndAttempt, WorkerTypes
  <2> QED BY <2>1, <2>2
<1> QED BY <1>2, <1>3, <1>4, <1>5, <1>6, AttemptCases

\* What a step of an attempt does to the rows of its book, in terms of their state.
LEMMA AttemptRows ==
    ASSUME TypeInv, JobInv, NEW w \in Workers, AttemptStep(w)
    PROVE  LET b == task[w]
           IN  /\ b \in Books /\ book[b] # "none"
               /\ \A c \in Books \ {b} :
                     book'[c] = book[c] /\ status'[c] = status[c] /\ owner'[c] = owner[c]
               /\ \/ UNCHANGED <<book, status, owner>>
                  \/ /\ status[b] = "running" /\ owner[b] = w
                     /\ book[b] \in {"queued", "generating"}
                     /\ \/ UNCHANGED <<status, owner>> /\ book'[b] = "generating"
                        \/ /\ pc[w] = "complete" /\ owner'[b] = NoWorker
                           /\ status'[b] = "completed" /\ book'[b] \in {book[b], "completed"}
                        \/ /\ owner'[b] = NoWorker /\ status'[b] = "cancelled"
                           /\ book'[b] \in {book[b], "cancelled"}
                        \/ /\ owner'[b] = NoWorker /\ status'[b] \in {"queued", "failed"}
                           /\ book'[b] = book[b]
                  \/ /\ pc[w] = "fail_book" /\ UNCHANGED <<status, owner>>
                     /\ Exists(b) /\ book'[b] = "failed"
<1>1. WorkerFootprint(w) /\ JobFootprint(w) /\ BookFootprint(w) /\ task[w] \in Books
  BY AttemptFootprint DEF TypeInv, TaskKnown, Footprint, WorkerFootprint
<1>2. RowTypes
  BY TypeParts DEF TypeInv
<1>3. Owns(w) => /\ status[task[w]] = "running" /\ owner[task[w]] = w
                 /\ book[task[w]] \in {"queued", "generating"}
  BY <1>1, <1>2, SymbolAssumption DEF JobInv, Fence, Settled, Owns
<1>4. book[task[w]] # "none"
  BY <1>1 DEF WorkerFootprint, JobInv, Known
<1> QED
  BY <1>1, <1>2, <1>3, <1>4 DEF JobFootprint, BookFootprint, RowTypes

LEMMA AttemptJobs ==
    ASSUME TypeInv, JobInv, NEW w \in Workers, AttemptStep(w)
    PROVE  JobInv'
<1> DEFINE b == task[w]
<1>1. RowTypes /\ WorkerTypes /\ TaskKnown /\ InAttempt(w)
  BY TypeParts, AttemptFootprint DEF TypeInv, Footprint, WorkerFootprint
<1>2. /\ b \in Books /\ book[b] # "none"
      /\ \A c \in Books \ {b} :
            book'[c] = book[c] /\ status'[c] = status[c] /\ owner'[c] = owner[c]
      /\ \/ UNCHANGED <<book, status, owner>>
         \/ /\ status[b] = "running" /\ owner[b] = w
            /\ book[b] \in {"queued", "generating"}
            /\ \/ UNCHANGED <<status, owner>> /\ book'[b] = "generating"
               \/ /\ pc[w] = "complete" /\ owner'[b] = NoWorker
                  /\ status'[b] = "completed" /\ book'[b] \in {book[b], "completed"}
               \/ /\ owner'[b] = NoWorker /\ status'[b] = "cancelled"
                  /\ book'[b] \in {book[b], "cancelled"}
               \/ /\ owner'[b] = NoWorker /\ status'[b] \in {"queued", "failed"}
                  /\ book'[b] = book[b]
         \/ /\ pc[w] = "fail_book" /\ UNCHANGED <<status, owner>>
            /\ Exists(b) /\ book'[b] = "failed"
  BY AttemptRows
<1>3. PICK s \in {"down", "idle"} \cup AttemptSteps : pc' = [pc EXCEPT ![w] = s]
  BY AttemptFootprint DEF TypeInv, Footprint, WorkerFootprint
<1>4. /\ \A v \in Workers \ {w} :
            pc'[v] = pc[v] /\ task'[v] = task[v] /\ token'[v] = token[v]
      /\ InAttempt(w)' => task'[w] = b /\ token'[w] = token[w]
      /\ UNCHANGED <<flagged, attempts, api>>
  BY <1>1, <1>3, AttemptFootprint DEF TypeInv, Footprint, WorkerFootprint, WorkerTypes
<1>5. \A v \in Workers : InAttempt(v)' => InAttempt(v) /\ task'[v] = task[v] /\ token'[v] = token[v]
  BY <1>1, <1>4
<1> USE SymbolAssumption, Steps
<1>6. Fence'
  <2>1. \A c \in Books : status'[c] = "absent" <=> book'[c] \in {"none", "deleted"}
    BY <1>2 DEF JobInv, Fence
  <2>2. \A c \in Books : status'[c] = "running" <=> owner'[c] # NoWorker
    BY <1>2 DEF JobInv, Fence
  <2>3. OwnerIsLatestAttempt'
    <3> SUFFICES ASSUME NEW v \in Workers, InAttempt(v)'
                 PROVE  /\ token'[v] <= attempts'[task'[v]]
                        /\ owner'[task'[v]] = v => token'[v] = attempts'[task'[v]]
      BY DEF OwnerIsLatestAttempt
    <3>1. task[v] \in Books /\ InAttempt(v) /\ task'[v] = task[v] /\ token'[v] = token[v]
      BY <1>1, <1>5 DEF TaskKnown
    <3>2. owner'[task[v]] = v => owner[task[v]] = v
      BY <1>2, <3>1
    <3> QED BY <1>4, <3>1, <3>2 DEF JobInv, Fence, OwnerIsLatestAttempt
  <2> QED BY <2>1, <2>2, <2>3 DEF Fence
<1>7. \A c \in Books : Settled(c)'
  <2> SUFFICES ASSUME NEW c \in Books PROVE Settled(c)'
    OBVIOUS
  <2>1. CASE pc[w] = "fail_book" /\ c = b
    BY <1>1, <1>2, <2>1 DEF JobInv, Fence, Known, Settled
  <2>2. CASE ~(pc[w] = "fail_book" /\ c = b)
    BY <1>2, <2>2 DEF JobInv, Settled
  <2> QED BY <2>1, <2>2
<1>8. \A c \in Books : Request(c)'
  <2> SUFFICES ASSUME NEW c \in Books PROVE Request(c)'
    OBVIOUS
  <2>1. api'[c] # "idle" => book'[c] # "none"
    BY <1>2, <1>4 DEF JobInv, Request
  <2>2. api'[c] = "peek" => c \in flagged' \/ status'[c] \in TERMINAL_BOOK_JOB_STATUSES \cup {"absent"}
    BY <1>2, <1>4 DEF JobInv, Request
  <2>3. CASE api'[c] = "cancel_job"
    <3>1. /\ c \in flagged \/ status[c] = "absent"
          /\ status[c] # "completed"
          /\ \A v \in Workers :
                InAttempt(v) /\ task[v] = c /\ owner[c] = v => pc[v] \in {"claimed", "start", "cancel"}
      BY <1>4, <2>3 DEF JobInv, Request
    <3>2. c \in flagged' \/ status'[c] = "absent"
      BY <1>2, <1>4, <3>1
    <3>3. status'[c] # "completed"
      BY <1>1, <1>2, <3>1
    <3>4. ASSUME NEW v \in Workers, InAttempt(v)', task'[v] = c, owner'[c] = v
          PROVE  pc'[v] \in {"claimed", "start", "cancel"}
      <4>1. InAttempt(v) /\ task[v] = c /\ owner[c] = v
        BY <1>2, <1>5, <3>4
      <4>2. c \in flagged
        BY <1>1, <3>1, <4>1 DEF JobInv, Fence, RowTypes
      <4>3. CASE v = w
        BY <3>1, <3>4, <4>1, <4>2, <4>3, AttemptTurns
      <4>4. CASE v # w
        BY <1>4, <3>1, <4>1, <4>4
      <4> QED BY <4>3, <4>4
    <3> QED BY <2>1, <2>3, <3>2, <3>3, <3>4 DEF Request
  <2>4. api'[c] = "cancel_book" => status'[c] \in {"cancelled", "absent"}
    BY <1>2, <1>4 DEF JobInv, Request
  <2> QED BY <2>1, <2>2, <2>3, <2>4 DEF Request
<1>9. \A v \in Workers : Known(v)'
  <2> SUFFICES ASSUME NEW v \in Workers PROVE Known(v)'
    OBVIOUS
  <2>1. InAttempt(v)' => book'[task'[v]] # "none"
    BY <1>1, <1>2, <1>5 DEF JobInv, Known, TaskKnown
  <2>2. pc'[v] = "fail_book" => status'[task'[v]] \in {"failed", "cancelled", "absent"}
    <3> SUFFICES ASSUME pc'[v] = "fail_book" PROVE status'[task'[v]] \in {"failed", "cancelled", "absent"}
      OBVIOUS
    <3>1. InAttempt(v) /\ task[v] \in Books /\ task'[v] = task[v]
      BY <1>1, <1>5 DEF TaskKnown
    <3>2. CASE v = w
      BY <3>1, <3>2, AttemptTurns
    <3>3. CASE v # w
      BY <1>2, <1>4, <3>1, <3>3 DEF JobInv, Known
    <3> QED BY <3>2, <3>3
  <2> QED BY <2>1, <2>2 DEF Known
<1> QED BY <1>6, <1>7, <1>8, <1>9 DEF JobInv

LEMMA JobStep == TypeInv /\ JobInv /\ [Next]_vars => JobInv'
<1> SUFFICES ASSUME TypeInv, JobInv, [Next]_vars PROVE JobInv'
  OBVIOUS
<1>1. RowTypes /\ WorkerTypes /\ TaskKnown
  BY TypeParts DEF TypeInv
<1> USE SymbolAssumption, Steps
<1>2. ASSUME NEW b \in Books, CreateQueuedBook(b) PROVE JobInv'
  <2>1. Fence'
    BY <1>1, <1>2 DEF CreateQueuedBook, JobInv, Fence, OwnerIsLatestAttempt, TaskKnown,
    RowTypes, WorkerTypes
  <2>2. \A c \in Books : Request(c)'
    BY <1>1, <1>2 DEF CreateQueuedBook, JobInv, Fence, Request, Settled, RowTypes
  <2>3. \A c \in Books : Settled(c)'
    BY <1>1, <1>2 DEF CreateQueuedBook, JobInv, Fence, Request, Settled, RowTypes
  <2>4. \A w \in Workers : Known(w)'
    BY <1>1, <1>2 DEF CreateQueuedBook, JobInv, Known, TaskKnown, RowTypes
  <2> QED BY <2>1, <2>2, <2>3, <2>4 DEF JobInv
<1>3. ASSUME NEW b \in Books, DeleteFamilyBook(b) PROVE JobInv'
  <2>1. Fence'
    BY <1>1, <1>3 DEF DeleteFamilyBook, ReleaseLease, JobInv, Fence, OwnerIsLatestAttempt,
    TaskKnown, RowTypes, WorkerTypes
  <2>2. \A c \in Books : Request(c)'
    BY <1>1, <1>3 DEF DeleteFamilyBook, ReleaseLease, JobInv, Fence, Request, Settled, RowTypes
  <2>3. \A c \in Books : Settled(c)'
    BY <1>1, <1>3 DEF DeleteFamilyBook, ReleaseLease, JobInv, Fence, Request, Settled, RowTypes
  <2>4. \A w \in Workers : Known(w)'
    BY <1>1, <1>3 DEF DeleteFamilyBook, ReleaseLease, JobInv, Known, TaskKnown, RowTypes
  <2> QED BY <2>1, <2>2, <2>3, <2>4 DEF JobInv
<1>4. ASSUME NEW b \in Books, CancelRequest(b) PROVE JobInv'
  <2>1. Fence'
    BY <1>1, <1>4 DEF CancelRequest, ApiGoto, JobInv, Fence, OwnerIsLatestAttempt, TaskKnown,
    RowTypes, WorkerTypes
  <2>2. \A c \in Books : Request(c)'
    BY <1>1, <1>4 DEF CancelRequest, ApiGoto, JobInv, Fence, Request, Settled, RowTypes
  <2>3. \A c \in Books : Settled(c)'
    BY <1>1, <1>4 DEF CancelRequest, ApiGoto, JobInv, Fence, Request, Settled, RowTypes
  <2>4. \A w \in Workers : Known(w)'
    BY <1>1, <1>4 DEF CancelRequest, ApiGoto, JobInv, Known, TaskKnown, RowTypes
  <2> QED BY <2>1, <2>2, <2>3, <2>4 DEF JobInv
<1>5. ASSUME NEW b \in Books, CancelFlag(b) PROVE JobInv'
  <2>1. Fence'
    BY <1>1, <1>5 DEF CancelFlag, ApiGoto, JobInv, Fence, OwnerIsLatestAttempt, TaskKnown,
    RowTypes, WorkerTypes
  <2>2. \A c \in Books : Request(c)'
    BY <1>1, <1>5 DEF CancelFlag, ApiGoto, JobInv, Fence, Request, Settled, RowTypes
  <2>3. \A c \in Books : Settled(c)'
    BY <1>1, <1>5 DEF CancelFlag, ApiGoto, JobInv, Fence, Request, Settled, RowTypes
  <2>4. \A w \in Workers : Known(w)'
    BY <1>1, <1>5 DEF CancelFlag, ApiGoto, JobInv, Known, TaskKnown, RowTypes
  <2> QED BY <2>1, <2>2, <2>3, <2>4 DEF JobInv
<1>6. ASSUME NEW b \in Books, CancelPeek(b) PROVE JobInv'
  <2>1. Fence'
    BY <1>1, <1>6 DEF CancelPeek, ApiGoto, JobInv, Fence, OwnerIsLatestAttempt, TaskKnown,
    RowTypes, WorkerTypes
  <2>2. \A c \in Books : Request(c)'
    BY <1>1, <1>6 DEF CancelPeek, ApiGoto, JobInv, Fence, Request, Settled, RowTypes
  <2>3. \A c \in Books : Settled(c)'
    BY <1>1, <1>6 DEF CancelPeek, ApiGoto, JobInv, Fence, Request, Settled, RowTypes
  <2>4. \A w \in Workers : Known(w)'
    BY <1>1, <1>6 DEF CancelPeek, ApiGoto, JobInv, Known, TaskKnown, RowTypes
  <2> QED BY <2>1, <2>2, <2>3, <2>4 DEF JobInv
<1>7. ASSUME NEW b \in Books, CancelJob(b) PROVE JobInv'
  <2>1. Fence'
    BY <1>1, <1>7 DEF CancelJob, ApiGoto, ReleaseLease, JobInv, Fence, OwnerIsLatestAttempt,
    TaskKnown, RowTypes, WorkerTypes
  <2>2. \A c \in Books : Request(c)'
    BY <1>1, <1>7 DEF CancelJob, ApiGoto, ReleaseLease, JobInv, Fence, Request, Settled,
    RowTypes
  <2>3. \A c \in Books : Settled(c)'
    BY <1>1, <1>7 DEF CancelJob, ApiGoto, ReleaseLease, JobInv, Fence, Request, Settled,
    RowTypes
  <2>4. \A w \in Workers : Known(w)'
    BY <1>1, <1>7 DEF CancelJob, ApiGoto, ReleaseLease, JobInv, Known, TaskKnown, RowTypes
  <2> QED BY <2>1, <2>2, <2>3, <2>4 DEF JobInv
<1>8. ASSUME NEW b \in Books, CancelBook(b) PROVE JobInv'
  <2>1. Fence'
    BY <1>1, <1>8 DEF CancelBook, ApiGoto, JobInv, Fence, OwnerIsLatestAttempt, TaskKnown,
    RowTypes, WorkerTypes
  <2>2. \A c \in Books : Request(c)'
    BY <1>1, <1>8 DEF CancelBook, ApiGoto, JobInv, Fence, Request, Settled, RowTypes
  <2>3. \A c \in Books : Settled(c)'
    BY <1>1, <1>8 DEF CancelBook, ApiGoto, JobInv, Fence, Request, Settled, RowTypes
  <2>4. \A w \in Workers : Known(w)'
    BY <1>1, <1>8 DEF CancelBook, ApiGoto, JobInv, Known, TaskKnown, RowTypes
  <2> QED BY <2>1, <2>2, <2>3, <2>4 DEF JobInv
<1>9. ASSUME NEW b \in Books, CancelAborts(b) PROVE JobInv'
  <2>1. Fence'
    BY <1>1, <1>9 DEF CancelAborts, ApiGoto, Fault, JobInv, Fence, OwnerIsLatestAttempt,
    TaskKnown, RowTypes, WorkerTypes
  <2>2. \A c \in Books : Request(c)'
    BY <1>1, <1>9 DEF CancelAborts, ApiGoto, Fault, JobInv, Fence, Request, Settled, RowTypes
  <2>3. \A c \in Books : Settled(c)'
    BY <1>1, <1>9 DEF CancelAborts, ApiGoto, Fault, JobInv, Fence, Request, Settled, RowTypes
  <2>4. \A w \in Workers : Known(w)'
    BY <1>1, <1>9 DEF CancelAborts, ApiGoto, Fault, JobInv, Known, TaskKnown, RowTypes
  <2> QED BY <2>1, <2>2, <2>3, <2>4 DEF JobInv
<1>10. ASSUME NEW w \in Workers, StartWorker(w) PROVE JobInv'
  <2>1. Fence'
    BY <1>1, <1>10 DEF StartWorker, JobInv, Fence, OwnerIsLatestAttempt, TaskKnown, RowTypes,
    WorkerTypes
  <2>2. \A c \in Books : Request(c)'
    BY <1>1, <1>10 DEF StartWorker, JobInv, Fence, Request, Settled, RowTypes, WorkerTypes,
    TaskKnown
  <2>3. \A c \in Books : Settled(c)'
    BY <1>1, <1>10 DEF StartWorker, JobInv, Fence, Request, Settled, RowTypes
  <2>4. \A v \in Workers : Known(v)'
    BY <1>1, <1>10 DEF StartWorker, JobInv, Fence, Known, TaskKnown, RowTypes, WorkerTypes
  <2> QED BY <2>1, <2>2, <2>3, <2>4 DEF JobInv
<1>11. ASSUME NEW w \in Workers, CrashWorker(w) PROVE JobInv'
  <2>1. Fence'
    BY <1>1, <1>11 DEF CrashWorker, Die, JobInv, Fence, OwnerIsLatestAttempt, TaskKnown,
    RowTypes, WorkerTypes
  <2>2. \A c \in Books : Request(c)'
    BY <1>1, <1>11 DEF CrashWorker, Die, JobInv, Fence, Request, Settled, RowTypes,
    WorkerTypes, TaskKnown
  <2>3. \A c \in Books : Settled(c)'
    BY <1>1, <1>11 DEF CrashWorker, Die, JobInv, Fence, Request, Settled, RowTypes
  <2>4. \A v \in Workers : Known(v)'
    BY <1>1, <1>11 DEF CrashWorker, Die, JobInv, Fence, Known, TaskKnown, RowTypes, WorkerTypes
  <2> QED BY <2>1, <2>2, <2>3, <2>4 DEF JobInv
<1>12. ASSUME NEW w \in Workers, RenewLease(w) PROVE JobInv'
  <2>1. Fence'
    BY <1>1, <1>12 DEF RenewLease, JobInv, Fence, OwnerIsLatestAttempt, TaskKnown, RowTypes,
    WorkerTypes
  <2>2. \A c \in Books : Request(c)'
    BY <1>1, <1>12 DEF RenewLease, JobInv, Fence, Request, Settled, RowTypes, WorkerTypes,
    TaskKnown
  <2>3. \A c \in Books : Settled(c)'
    BY <1>1, <1>12 DEF RenewLease, JobInv, Fence, Request, Settled, RowTypes
  <2>4. \A v \in Workers : Known(v)'
    BY <1>1, <1>12 DEF RenewLease, JobInv, Fence, Known, TaskKnown, RowTypes, WorkerTypes
  <2> QED BY <2>1, <2>2, <2>3, <2>4 DEF JobInv
<1>13. ASSUME NEW w \in Workers, NEW b \in Books, ClaimNextJob(w, b) PROVE JobInv'
  <2>1. Fence'
    BY <1>1, <1>13 DEF ClaimNextJob, Eligible, DueQueued, ExpiredLease, JobInv, Fence,
    OwnerIsLatestAttempt, TaskKnown, RowTypes, WorkerTypes
  <2>2. \A c \in Books : Request(c)'
    BY <1>1, <1>13 DEF ClaimNextJob, Eligible, DueQueued, ExpiredLease, JobInv, Fence, Request,
    Settled, RowTypes, WorkerTypes, TaskKnown
  <2>3. \A c \in Books : Settled(c)'
    BY <1>1, <1>13 DEF ClaimNextJob, Eligible, DueQueued, ExpiredLease, JobInv, Fence, Request,
    Settled, RowTypes
  <2>4. \A v \in Workers : Known(v)'
    BY <1>1, <1>13 DEF ClaimNextJob, Eligible, DueQueued, ExpiredLease, JobInv, Fence, Known,
    TaskKnown, RowTypes, WorkerTypes
  <2> QED BY <2>1, <2>2, <2>3, <2>4 DEF JobInv
<1>14. ASSUME NEW w \in Workers, AttemptStep(w) PROVE JobInv'
  BY <1>14, AttemptJobs
<1>15. ASSUME UNCHANGED <<book, flagged, status, owner, attempts, pc, task, token, api>>
      PROVE  JobInv'
  BY <1>15 DEF JobInv, Fence, OwnerIsLatestAttempt, Request, Settled, Known
<1>16. CASE Tick
  BY <1>15, <1>16 DEF Tick
<1>17. CASE UNCHANGED vars
  BY <1>15, <1>17 DEF vars
<1>18. ASSUME NEW w \in Workers, PollEmpty(w) PROVE JobInv'
  BY <1>15, <1>18 DEF PollEmpty, vars
<1> QED
  BY <1>2, <1>3, <1>4, <1>5, <1>6, <1>7, <1>8, <1>9, <1>10, <1>11, <1>12, <1>13, <1>14, <1>16,
  <1>17, <1>18 DEF Next, ApiStep, WorkerStep

-----------------------------------------------------------------------------
(* Contents: the proof                                                     *)

LEMMA ContentInit == Init => ContentInv
BY Steps DEF Init, ContentInv, Place, AllOrNone, Whole

\* The owner writes chapters all at once, or the one where its loop stands.
LEMMA ChapterWrites ==
    ASSUME NEW w \in Workers, AttemptStep(w)
    PROVE  LET b == task[w]
               k == at[w]
           IN  /\ \/ UNCHANGED chapter
                  \/ /\ pc[w] = "stubs"
                     /\ chapter' = [chapter EXCEPT ![b] =
                            [i \in Numbers |-> IF @[i] = "none" THEN "planned" ELSE @[i]]]
                  \/ /\ pc[w] \in DraftSteps
                     /\ \E c \in {"reviewing", "failed", "approved"} :
                           chapter' = [chapter EXCEPT ![b][k] = c]
               /\ \/ UNCHANGED draft
                  \/ pc[w] \in DraftSteps /\ draft' = [draft EXCEPT ![b][k] = basis[w]]
               /\ pc[w] = "complete" => UNCHANGED contentVars
<1>1. CASE Leaves(w) \/ Moves(w) \/ NextChapter(w) \/ FailJob(w)
  BY <1>1 DEF Leaves, Moves, NextChapter, FailJob
<1>2. CASE Owns(w) /\ SavePlan(w)
  BY <1>2 DEF SavePlan, Guarded, Goto
<1>3. CASE Owns(w) /\ CreateChapterStubs(w)
  BY <1>3 DEF CreateChapterStubs, Guarded, Goto, DraftSteps
<1>4. CASE Owns(w) /\ BeginChapter(w)
  BY <1>4 DEF BeginChapter, Guarded, Goto, PreviousContinuity, DraftSteps
<1>5. CASE Owns(w) /\ UpdateChapterDraft(w)
  BY <1>5 DEF UpdateChapterDraft, Guarded, Goto, StoreDraft, DraftSteps
<1>6. CASE Owns(w) /\ UpdateChapterReview(w)
  BY <1>6 DEF UpdateChapterReview, Guarded, Goto, DraftSteps
<1>7. CASE Owns(w) /\ FailChapter(w)
  BY <1>7 DEF FailChapter, Guarded, Goto, DraftSteps
<1>8. CASE Owns(w) /\ ApproveChapter(w)
  BY <1>8 DEF ApproveChapter, Guarded, Goto, DraftSteps
<1>9. CASE Owns(w) /\ SaveContinuity(w)
  BY <1>9 DEF SaveContinuity, Guarded, Goto
<1>10. CASE Owns(w) /\ SaveFailedExport(w)
  BY <1>10 DEF SaveFailedExport, Guarded, Goto
<1>11. CASE Owns(w) /\ ExportBook(w)
  BY <1>11 DEF ExportBook, Publish, Goto
<1> QED
  BY AttemptCases, <1>1, <1>2, <1>3, <1>4, <1>5, <1>6, <1>7, <1>8, <1>9, <1>10, <1>11 DEF
  Writes

\* An attempt that still owns its book stands where the contents allow.
LEMMA AttemptPlace ==
    ASSUME TypeInv, JobInv, ContentInv, NEW w \in Workers, AttemptStep(w)
    PROVE  Place(w)'
<1> DEFINE b == task[w]
<1>1. /\ RowTypes /\ ContentTypes /\ WorkerTypes /\ LoopTypes /\ TaskKnown /\ LoopBounds
      /\ InAttempt(w) /\ b \in Books
  BY TypeParts, AttemptFootprint DEF TypeInv, TaskKnown, Footprint, WorkerFootprint
<1>2. SUFFICES ASSUME InAttempt(w)', owner'[b] = w PROVE Place(w)'
  BY AttemptFootprint DEF Place, TypeInv, Footprint, WorkerFootprint
<1>3. task'[w] = b /\ owner[b] = w
  BY <1>1, <1>2, AttemptFootprint, AttemptRows DEF TypeInv, Footprint, WorkerFootprint
<1>4. /\ pc[w] \in PlannedSteps => b \in planned
      /\ pc[w] \in {"begin"} \cup DraftSteps => chapter[b][at[w]] \notin {"none", "approved"}
      /\ pc[w] \in ExportSteps => Unfinished(b) = {}
      /\ pc[w] \in WholeSteps => Approved(b) # {}
      /\ pc[w] = "complete" => exports[b] = Formats
  BY <1>1, <1>3 DEF ContentInv, Place
<1> USE SymbolAssumption, Steps
<1>5. CASE Leaves(w)
  BY <1>1, <1>2, <1>5 DEF Leaves, EndAttempt, Die, WorkerTypes
<1>6. CASE Moves(w)
  <2>1. PICK s \in AttemptSteps :
            Goto(w, s) /\ LeadsTo(w, s) /\ UNCHANGED loopVars /\ UNCHANGED contentVars
    BY <1>6 DEF Moves
  <2>2. pc'[w] = s
    BY <1>1, <2>1 DEF Goto, WorkerTypes
  <2> QED
    BY <1>3, <1>4, <2>1, <2>2, Steps DEF LeadsTo, Place, Unfinished, Approved
<1>7. CASE NextChapter(w)
  BY <1>1, <1>2, <1>3, <1>4, <1>7
  DEF NextChapter, CheckCancellation, Goto, EndAttempt, ResetLoop, WorkerTypes, LoopTypes, Place,
      Unfinished, Approved, PlannedSteps, DraftSteps, StoredSteps, ExportSteps, WholeSteps
<1>8. CASE FailJob(w)
  BY <1>1, <1>2, <1>8 DEF FailJob, EndAttempt, ReleaseLease, WorkerTypes, RowTypes
<1>9. CASE Owns(w) /\ SavePlan(w)
  BY <1>1, <1>2, <1>3, <1>4, <1>9 DEF SavePlan, Guarded, Goto, Place, WorkerTypes,
  ContentTypes, LoopTypes, LoopBounds, Unfinished, Approved, PlannedSteps, DraftSteps,
  StoredSteps, ExportSteps, WholeSteps
<1>10. CASE Owns(w) /\ CreateChapterStubs(w)
  BY <1>1, <1>2, <1>3, <1>4, <1>10 DEF CreateChapterStubs, Guarded, Goto, Place, WorkerTypes,
  ContentTypes, LoopTypes, LoopBounds, Unfinished, Approved, PlannedSteps, DraftSteps,
  StoredSteps, ExportSteps, WholeSteps
<1>11. CASE Owns(w) /\ BeginChapter(w)
  BY <1>1, <1>2, <1>3, <1>4, <1>11 DEF BeginChapter, Guarded, Goto, PreviousContinuity, Place,
  WorkerTypes, ContentTypes, LoopTypes, LoopBounds, Unfinished, Approved, PlannedSteps,
  DraftSteps, StoredSteps, ExportSteps, WholeSteps
<1>12. CASE Owns(w) /\ UpdateChapterDraft(w)
  <2>1. /\ chapter' = [chapter EXCEPT ![b][at[w]] = "reviewing"] /\ at' = at /\ planned' = planned
        /\ pc[w] \in {"save_draft", "save_repair"} /\ pc'[w] \in {"review", "review_call"}
    BY <1>1, <1>12 DEF UpdateChapterDraft, Guarded, Goto, StoreDraft, WorkerTypes
  <2>2. at[w] \in Numbers /\ b \in planned
    BY <1>1, <1>4, <2>1 DEF LoopBounds, PlannedSteps, DraftSteps
  <2>3. chapter'[b][at'[w]] = "reviewing"
    BY <1>1, <2>1, <2>2 DEF ContentTypes
  <2> QED
    BY <1>3, <2>1, <2>2, <2>3 DEF Place, DraftSteps, ExportSteps, WholeSteps
<1>13. CASE Owns(w) /\ UpdateChapterReview(w)
  BY <1>1, <1>2, <1>3, <1>4, <1>13 DEF UpdateChapterReview, Guarded, Goto, Place, WorkerTypes,
  ContentTypes, LoopTypes, LoopBounds, Unfinished, Approved, PlannedSteps, DraftSteps,
  StoredSteps, ExportSteps, WholeSteps
<1>14. CASE Owns(w) /\ FailChapter(w)
  BY <1>1, <1>2, <1>3, <1>4, <1>14 DEF FailChapter, Guarded, Goto, Place, WorkerTypes,
  ContentTypes, LoopTypes, LoopBounds, Unfinished, Approved, PlannedSteps, DraftSteps,
  StoredSteps, ExportSteps, WholeSteps
<1>15. CASE Owns(w) /\ ApproveChapter(w)
  BY <1>1, <1>2, <1>3, <1>4, <1>15 DEF ApproveChapter, Guarded, Goto, Place, WorkerTypes,
  ContentTypes, LoopTypes, LoopBounds, Unfinished, Approved, PlannedSteps, DraftSteps,
  StoredSteps, ExportSteps, WholeSteps
<1>16. CASE Owns(w) /\ SaveContinuity(w)
  BY <1>1, <1>2, <1>3, <1>4, <1>16 DEF SaveContinuity, Guarded, Goto, Place, WorkerTypes,
  ContentTypes, LoopTypes, LoopBounds, Unfinished, Approved, PlannedSteps, DraftSteps,
  StoredSteps, ExportSteps, WholeSteps
<1>17. CASE Owns(w) /\ SaveFailedExport(w)
  BY <1>1, <1>2, <1>3, <1>4, <1>17 DEF SaveFailedExport, Guarded, Goto, Place, WorkerTypes,
  ContentTypes, LoopTypes, LoopBounds, Unfinished, Approved, PlannedSteps, DraftSteps,
  StoredSteps, ExportSteps, WholeSteps
<1>18. CASE Owns(w) /\ ExportBook(w)
  BY <1>1, <1>2, <1>3, <1>4, <1>18 DEF ExportBook, Publish, Goto, Place, WorkerTypes,
  ContentTypes, LoopTypes, LoopBounds, Unfinished, Approved, PlannedSteps, DraftSteps,
  StoredSteps, ExportSteps, WholeSteps, EndAttempt
<1> QED
  BY AttemptCases, <1>5, <1>6, <1>7, <1>8, <1>9, <1>10, <1>11, <1>12, <1>13, <1>14, <1>15,
  <1>16, <1>17, <1>18 DEF Writes

\* An attempt keeps the chapters of a book together, completes whole books, and touches
\* no other owner's.
LEMMA AttemptContentInv ==
    ASSUME TypeInv, JobInv, ContentInv, NEW w \in Workers, AttemptStep(w)
    PROVE  ContentInv'
<1> DEFINE b == task[w]
<1>1. /\ RowTypes /\ ContentTypes /\ WorkerTypes /\ TaskKnown /\ LoopBounds
      /\ InAttempt(w) /\ b \in Books /\ WorkerFootprint(w) /\ ContentFootprint(w)
  BY TypeParts, AttemptFootprint DEF TypeInv, TaskKnown, Footprint, WorkerFootprint
<1>2. PICK s \in {"down", "idle"} \cup AttemptSteps : pc' = [pc EXCEPT ![w] = s]
  BY <1>1 DEF WorkerFootprint
<1> USE SymbolAssumption, Steps
<1>3. ASSUME NEW v \in Workers, v # w PROVE Place(v)'
  <2> DEFINE c == task[v]
  <2>1. pc'[v] = pc[v] /\ task'[v] = c /\ at'[v] = at[v]
    BY <1>1, <1>2, <1>3 DEF WorkerFootprint, WorkerTypes
  <2>2. SUFFICES ASSUME InAttempt(v), owner'[c] = v PROVE Place(v)'
    BY <2>1 DEF Place
  <2>3. c \in Books /\ owner[c] = v
    BY <1>1, <2>2, AttemptRows DEF TaskKnown
  <2>4. SameContent(c)
    BY <1>1, <1>3, <2>3 DEF ContentFootprint, Owns
  <2> QED
    BY <2>1, <2>2, <2>3, <2>4 DEF ContentInv, Place, SameContent, Unfinished, Approved
<1>4. ASSUME NEW c \in Books PROVE AllOrNone(c)'
  <2>1. CASE UNCHANGED chapter
    BY <2>1 DEF ContentInv, AllOrNone
  <2>2. CASE chapter' = [chapter EXCEPT ![b] =
                            [i \in Numbers |-> IF @[i] = "none" THEN "planned" ELSE @[i]]]
    BY <1>1, <2>2 DEF ContentInv, AllOrNone, ContentTypes
  <2>3. CASE /\ pc[w] \in DraftSteps
             /\ \E r \in {"reviewing", "failed", "approved"} :
                   chapter' = [chapter EXCEPT ![b][at[w]] = r]
    <3>1. PICK r \in {"reviewing", "failed", "approved"} :
              chapter' = [chapter EXCEPT ![b][at[w]] = r]
      BY <2>3
    <3>2. at[w] \in Numbers
      BY <1>1, <2>3 DEF LoopBounds
    <3>3. CASE Owns(w)
      <4>1. chapter[b][at[w]] # "none"
        BY <1>1, <2>3, <3>3 DEF Owns, ContentInv, Place
      <4> QED BY <1>1, <3>1, <3>2, <4>1 DEF ContentInv, AllOrNone, ContentTypes
    <3>4. CASE ~Owns(w)
      BY <1>1, <3>4 DEF ContentFootprint, SameContent, ContentInv, AllOrNone
    <3> QED BY <3>3, <3>4
  <2> QED BY <2>1, <2>2, <2>3, ChapterWrites
<1>5. ASSUME NEW c \in Books PROVE Whole(c)'
  <2> SUFFICES ASSUME book'[c] = "completed"
               PROVE  c \in planned' /\ Approved(c)' = Numbers /\ exports'[c] = Formats
    BY DEF Whole
  <2>1. CASE book[c] = "completed"
    <3>1. owner[c] = NoWorker
      BY <2>1 DEF JobInv, Settled, Fence
    <3>2. SameContent(c)
      BY <1>1, <3>1 DEF ContentFootprint, Owns
    <3> QED BY <2>1, <3>2 DEF ContentInv, Whole, SameContent, Approved
  <2>2. CASE book[c] # "completed"
    <3>1. c = b /\ pc[w] = "complete" /\ owner[b] = w
      BY <2>2, AttemptRows
    <3>2. b \in planned /\ Unfinished(b) = {} /\ Approved(b) # {} /\ exports[b] = Formats
      BY <1>1, <3>1 DEF ContentInv, Place, PlannedSteps, ExportSteps, WholeSteps
    <3>3. Approved(b) = Numbers
      BY <1>1, <3>2 DEF ContentInv, AllOrNone, Approved, Unfinished, ContentTypes
    <3>4. UNCHANGED contentVars
      BY <3>1, ChapterWrites
    <3> QED BY <3>1, <3>2, <3>3, <3>4 DEF Approved
  <2> QED BY <2>1, <2>2
<1> QED BY <1>3, <1>4, <1>5, AttemptPlace DEF ContentInv

LEMMA ContentStep == TypeInv /\ JobInv /\ ContentInv /\ [Next]_vars => ContentInv'
<1> SUFFICES ASSUME TypeInv, JobInv, ContentInv, [Next]_vars PROVE ContentInv'
  OBVIOUS
<1>1. RowTypes /\ ContentTypes /\ WorkerTypes /\ TaskKnown
  BY TypeParts DEF TypeInv
<1> USE SymbolAssumption, Steps
\* A step that leaves contents and workers alone and completes no book ...
<1>2. ASSUME UNCHANGED <<contentVars, pc, task, at>>,
             \A b \in Books : book'[b] = "completed" => book[b] = "completed",
             \A b \in Books : owner'[b] # NoWorker => owner'[b] = owner[b]
      PROVE  ContentInv'
  <2>1. ASSUME NEW w \in Workers PROVE Place(w)'
    BY <1>1, <1>2, <2>1 DEF ContentInv, Place, Unfinished, Approved, TaskKnown
  <2>2. ASSUME NEW b \in Books PROVE AllOrNone(b)' /\ Whole(b)'
    BY <1>2, <2>2 DEF ContentInv, AllOrNone, Whole, Approved
  <2> QED BY <2>1, <2>2 DEF ContentInv
<1>3. ASSUME NEW b \in Books, CreateQueuedBook(b) PROVE ContentInv'
  BY <1>1, <1>2, <1>3 DEF CreateQueuedBook, RowTypes
<1>4. ASSUME NEW b \in Books, CancelRequest(b) PROVE ContentInv'
  BY <1>1, <1>2, <1>4 DEF CancelRequest, ApiGoto, RowTypes
<1>5. ASSUME NEW b \in Books, CancelFlag(b) PROVE ContentInv'
  BY <1>1, <1>2, <1>5 DEF CancelFlag, ApiGoto, RowTypes
<1>6. ASSUME NEW b \in Books, CancelPeek(b) PROVE ContentInv'
  BY <1>1, <1>2, <1>6 DEF CancelPeek, ApiGoto, RowTypes
<1>7. ASSUME NEW b \in Books, CancelJob(b) PROVE ContentInv'
  BY <1>1, <1>2, <1>7 DEF CancelJob, ApiGoto, ReleaseLease, RowTypes
<1>8. ASSUME NEW b \in Books, CancelBook(b) PROVE ContentInv'
  BY <1>1, <1>2, <1>8 DEF CancelBook, ApiGoto, RowTypes
<1>9. ASSUME NEW b \in Books, CancelAborts(b) PROVE ContentInv'
  BY <1>1, <1>2, <1>9 DEF CancelAborts, ApiGoto, Fault, RowTypes
<1>10. ASSUME NEW b \in Books, DeleteFamilyBook(b) PROVE ContentInv'
  <2>1. ASSUME NEW w \in Workers PROVE Place(w)'
    <3>1. CASE task[w] = b
      BY <1>1, <1>10, <2>1, <3>1 DEF DeleteFamilyBook, ReleaseLease, Place, RowTypes
    <3>2. CASE InAttempt(w) /\ task[w] # b
      BY <1>1, <1>10, <2>1, <3>2
      DEF DeleteFamilyBook, ReleaseLease, ContentInv, Place, RowTypes, ContentTypes, TaskKnown,
          Unfinished, Approved
    <3>3. CASE ~InAttempt(w)
      BY <1>10, <3>3 DEF DeleteFamilyBook, Place
    <3> QED BY <3>1, <3>2, <3>3
  <2>2. ASSUME NEW c \in Books PROVE AllOrNone(c)' /\ Whole(c)'
    BY <1>1, <1>10, <2>2
    DEF DeleteFamilyBook, ContentInv, AllOrNone, Whole, Approved, RowTypes, ContentTypes
  <2> QED BY <2>1, <2>2 DEF ContentInv
<1>11. ASSUME NEW w \in Workers, StartWorker(w) PROVE ContentInv'
  <2>1. ASSUME NEW v \in Workers PROVE Place(v)'
    BY <1>1, <1>11, <2>1 DEF StartWorker, ContentInv, Place, RowTypes, WorkerTypes, TaskKnown,
    Unfinished, Approved, PlannedSteps, DraftSteps, StoredSteps, ExportSteps, WholeSteps
  <2>2. ASSUME NEW c \in Books PROVE AllOrNone(c)' /\ Whole(c)'
    BY <1>11, <2>2 DEF StartWorker, ContentInv, AllOrNone, Whole, Approved
  <2> QED BY <2>1, <2>2 DEF ContentInv
<1>12. ASSUME NEW w \in Workers, CrashWorker(w) PROVE ContentInv'
  <2>1. ASSUME NEW v \in Workers PROVE Place(v)'
    BY <1>1, <1>12, <2>1 DEF CrashWorker, Die, ResetLoop, ContentInv, Place, RowTypes,
    WorkerTypes, TaskKnown, Unfinished, Approved, PlannedSteps, DraftSteps, StoredSteps,
    ExportSteps, WholeSteps
  <2>2. ASSUME NEW c \in Books PROVE AllOrNone(c)' /\ Whole(c)'
    BY <1>12, <2>2 DEF CrashWorker, ContentInv, AllOrNone, Whole, Approved
  <2> QED BY <2>1, <2>2 DEF ContentInv
<1>13. ASSUME NEW w \in Workers, RenewLease(w) PROVE ContentInv'
  <2>1. ASSUME NEW v \in Workers PROVE Place(v)'
    BY <1>1, <1>13, <2>1 DEF RenewLease, ContentInv, Place, RowTypes, WorkerTypes, TaskKnown,
    Unfinished, Approved, PlannedSteps, DraftSteps, StoredSteps, ExportSteps, WholeSteps
  <2>2. ASSUME NEW c \in Books PROVE AllOrNone(c)' /\ Whole(c)'
    BY <1>13, <2>2 DEF RenewLease, ContentInv, AllOrNone, Whole, Approved
  <2> QED BY <2>1, <2>2 DEF ContentInv
<1>14. ASSUME NEW w \in Workers, NEW b \in Books, ClaimNextJob(w, b) PROVE ContentInv'
  <2>1. ASSUME NEW v \in Workers PROVE Place(v)'
    BY <1>1, <1>14, <2>1 DEF ClaimNextJob, ContentInv, Place, RowTypes, WorkerTypes, TaskKnown,
    Unfinished, Approved, PlannedSteps, DraftSteps, StoredSteps, ExportSteps, WholeSteps
  <2>2. ASSUME NEW c \in Books PROVE AllOrNone(c)' /\ Whole(c)'
    BY <1>14, <2>2 DEF ClaimNextJob, ContentInv, AllOrNone, Whole, Approved
  <2> QED BY <2>1, <2>2 DEF ContentInv
<1>15. ASSUME NEW w \in Workers, AttemptStep(w) PROVE ContentInv'
  BY <1>15, AttemptContentInv
<1>16. CASE Tick
  BY <1>2, <1>16 DEF Tick
<1>17. CASE UNCHANGED vars
  BY <1>2, <1>17 DEF vars
<1>18. ASSUME NEW w \in Workers, PollEmpty(w) PROVE ContentInv'
  BY <1>2, <1>18 DEF PollEmpty, vars
<1> QED
  BY <1>3, <1>4, <1>5, <1>6, <1>7, <1>8, <1>9, <1>10, <1>11, <1>12, <1>13, <1>14, <1>15, <1>16,
  <1>17, <1>18 DEF Next, ApiStep, WorkerStep

-----------------------------------------------------------------------------
(* What every run checks                                                   *)

LEMMA IInvInit == Init => IInv
BY TypeInit, JobInit, ContentInit DEF IInv

LEMMA IInvStep == IInv /\ [Next]_vars => IInv'
BY TypeStep, JobStep, ContentStep DEF IInv

\* The invariant the provers need, in every reachable state.
THEOREM Inductive == Spec => []IInv
BY IInvInit, IInvStep, PTL DEF Spec

\* The owner of a book's job is the attempt that claimed it last, and a completed book is
\* planned, approved and published in full, for any workers, books and faults
\* (claim_next_job, _guard_worker_write, complete_book_and_job).
THEOREM BookInvCorrect == Spec => []BookInv
<1>1. IInv => BookInv
  BY DEF IInv, TypeInv, JobInv, Fence, ContentInv, Whole, BookInv, CompletedIsWhole
<1> QED BY <1>1, Inductive, PTL

-----------------------------------------------------------------------------
(* What no step undoes                                                     *)

\* Only a deletion writes a completed book or job.
LEMMA CompletedStep ==
    ASSUME IInv, [Next]_vars, NEW b \in Books
    PROVE  /\ book[b] = "completed" => book'[b] \in {"completed", "deleted"}
           /\ status[b] = "completed" => status'[b] \in {"completed", "absent"}
<1>1. RowTypes /\ TypeInv /\ JobInv
  BY TypeParts DEF IInv, TypeInv
<1>2. ASSUME NEW c \in Books, ApiStep(c)
      PROVE  /\ book[b] = "completed" => book'[b] \in {"completed", "deleted"}
             /\ status[b] = "completed" => status'[b] \in {"completed", "absent"}
  BY <1>1, <1>2
  DEF ApiStep, CreateQueuedBook, DeleteFamilyBook, CancelRequest, CancelFlag, CancelPeek, CancelJob,
      CancelBook, CancelAborts, RowTypes, JobInv, Fence, Request, Settled
<1>3. ASSUME NEW w \in Workers, AttemptStep(w)
      PROVE  /\ book[b] = "completed" => book'[b] \in {"completed", "deleted"}
             /\ status[b] = "completed" => status'[b] \in {"completed", "absent"}
  BY <1>1, <1>3, AttemptRows DEF JobInv, Settled, Known
<1>4. ASSUME NEW w \in Workers, NEW c \in Books, ClaimNextJob(w, c)
      PROVE  UNCHANGED book /\ (status[b] = "completed" => status'[b] = "completed")
  BY <1>1, <1>4 DEF ClaimNextJob, Eligible, DueQueued, ExpiredLease, RowTypes
<1>5. ASSUME NEW w \in Workers, StartWorker(w) \/ CrashWorker(w) \/ PollEmpty(w) \/ RenewLease(w)
      PROVE  UNCHANGED <<book, status>>
  BY <1>5 DEF StartWorker, CrashWorker, PollEmpty, RenewLease, vars
<1>6. CASE Tick \/ UNCHANGED vars
  BY <1>6 DEF Tick, vars
<1> QED BY <1>2, <1>3, <1>4, <1>5, <1>6 DEF Next, WorkerStep

\* Nobody writes the contents of a book that has no owner, and its owner leaves the
\* approved chapters alone.
LEMMA ContentsStep ==
    ASSUME IInv, [Next]_vars, NEW b \in Books, book'[b] # "deleted"
    PROVE  /\ owner[b] = NoWorker => SameContent(b)
           /\ \A k \in Numbers :
                 chapter[b][k] = "approved" =>
                     chapter'[b][k] = "approved" /\ draft'[b][k] = draft[b][k]
<1>1. /\ RowTypes /\ ContentTypes /\ TypeInv /\ JobInv /\ ContentInv /\ LoopBounds
  BY TypeParts DEF IInv, TypeInv
<1>2. CASE SameContent(b)
  BY <1>2 DEF SameContent
<1>3. ASSUME NEW c \in Books, ApiStep(c) PROVE SameContent(b)
  <2>1. CASE DeleteFamilyBook(c)
    BY <1>1, <2>1 DEF DeleteFamilyBook, RowTypes, ContentTypes, SameContent
  <2>2. CASE ~DeleteFamilyBook(c)
    BY <1>3, <2>2
    DEF ApiStep, CreateQueuedBook, CancelRequest, CancelFlag, CancelPeek, CancelJob,
        CancelBook, CancelAborts, SameContent
  <2> QED BY <2>1, <2>2
<1>4. ASSUME NEW w \in Workers, AttemptStep(w), ~SameContent(b)
      PROVE  /\ owner[b] = w
             /\ \A k \in Numbers :
                   chapter[b][k] = "approved" =>
                       chapter'[b][k] = "approved" /\ draft'[b][k] = draft[b][k]
  <2>1. Owns(w) /\ b = task[w] /\ InAttempt(w)
    BY <1>1, <1>4, AttemptFootprint DEF TypeInv, Footprint, ContentFootprint, WorkerFootprint
  <2>2. pc[w] \in DraftSteps => at[w] \in Numbers /\ chapter[b][at[w]] # "approved"
    BY <1>1, <2>1 DEF LoopBounds, ContentInv, Place, Owns
  <2>3. ASSUME NEW k \in Numbers, chapter[b][k] = "approved"
        PROVE  chapter'[b][k] = "approved"
    <3>1. CASE UNCHANGED chapter
      BY <2>3, <3>1
    <3>2. CASE chapter' = [chapter EXCEPT ![b] =
                            [i \in Numbers |-> IF @[i] = "none" THEN "planned" ELSE @[i]]]
      BY <1>1, <2>3, <3>2 DEF ContentTypes
    <3>3. ASSUME pc[w] \in DraftSteps,
                 NEW c \in {"reviewing", "failed", "approved"},
                 chapter' = [chapter EXCEPT ![b][at[w]] = c]
          PROVE  chapter'[b][k] = "approved"
      BY <1>1, <2>2, <2>3, <3>3 DEF ContentTypes
    <3>4. \/ UNCHANGED chapter
          \/ chapter' = [chapter EXCEPT ![task[w]] =
                             [i \in Numbers |-> IF @[i] = "none" THEN "planned" ELSE @[i]]]
          \/ /\ pc[w] \in DraftSteps
             /\ \E c \in {"reviewing", "failed", "approved"} : chapter' = [chapter EXCEPT ![task[w]][at[w]] = c]
      BY <1>4, ChapterWrites
    <3> QED BY <2>1, <3>1, <3>2, <3>3, <3>4
  <2>4. ASSUME NEW k \in Numbers, chapter[b][k] = "approved"
        PROVE  draft'[b][k] = draft[b][k]
    <3>1. \/ UNCHANGED draft
          \/ pc[w] \in DraftSteps /\ draft' = [draft EXCEPT ![b][at[w]] = basis[w]]
      BY <1>4, <2>1, ChapterWrites
    <3>2. CASE UNCHANGED draft
      BY <3>2
    <3>3. CASE pc[w] \in DraftSteps /\ draft' = [draft EXCEPT ![b][at[w]] = basis[w]]
      <4>1. k # at[w] /\ draft \in [Books -> [Numbers -> {Missing} \cup 0 .. Chapters]]
        BY <1>1, <2>2, <2>4, <3>3 DEF ContentTypes
      <4> QED BY <3>3, <4>1
    <3> QED BY <3>1, <3>2, <3>3
  <2> QED BY <2>1, <2>3, <2>4 DEF Owns
<1>5. ASSUME NEW w \in Workers,
             \/ StartWorker(w) \/ CrashWorker(w) \/ PollEmpty(w) \/ RenewLease(w)
             \/ \E c \in Books : ClaimNextJob(w, c)
      PROVE  SameContent(b)
  BY <1>5
  DEF StartWorker, CrashWorker, PollEmpty, RenewLease, ClaimNextJob, vars, SameContent
<1>6. CASE Tick \/ UNCHANGED vars
  BY <1>2, <1>6 DEF Tick, vars, SameContent
<1> QED
  BY <1>2, <1>3, <1>4, <1>5, <1>6, SymbolAssumption DEF Next, WorkerStep

LEMMA SettledHasNoOwner ==
    ASSUME IInv, NEW b \in Books, status[b] \in TERMINAL_BOOK_JOB_STATUSES
    PROVE  owner[b] = NoWorker
BY DEF IInv, JobInv, Fence

\* A completed book stays completed until it is deleted, an approved chapter is never
\* rewritten, and nothing of a settled book changes: no stale worker and no cancel
\* request gets past the guards (update_chapter_draft, cancel_job, cancel_book, fail_book).
THEOREM FinishedIsKeptCorrect == Spec => FinishedIsKept
<1>1. IInv /\ [Next]_vars =>
        \A b \in Books :
            /\ book[b] = "completed" => book'[b] \in {"completed", "deleted"}
            /\ status[b] = "completed" => status'[b] \in {"completed", "absent"}
  BY CompletedStep
<1>2. IInv /\ [Next]_vars =>
        \A b \in Books, k \in Numbers :
            chapter[b][k] = "approved" /\ book'[b] # "deleted" =>
                chapter'[b][k] = "approved" /\ draft'[b][k] = draft[b][k]
  BY ContentsStep
<1>3. IInv /\ [Next]_vars =>
        \A b \in Books :
            status[b] \in TERMINAL_BOOK_JOB_STATUSES /\ book'[b] # "deleted" =>
                /\ (b \in planned') = (b \in planned)
                /\ chapter'[b] = chapter[b] /\ draft'[b] = draft[b]
                /\ cont'[b] = cont[b] /\ exports'[b] = exports[b]
  BY ContentsStep, SettledHasNoOwner DEF SameContent
<1> QED
  BY <1>1, <1>2, <1>3, Inductive, PTL
  DEF Spec, FinishedIsKept, CompletedStaysCompleted, ApprovedNeverRewritten, SettledIsFrozen

-----------------------------------------------------------------------------
(* The abstract queue                                                      *)

\* A step that changes no status and creates no book is none of the abstract queue's.
LEMMA QueueStutter ==
    ASSUME UNCHANGED <<status, attempts>>,
           \A b \in Books : book'[b] = "none" <=> book[b] = "none"
    PROVE  UNCHANGED Queue!vars
BY DEF Phase, Output, Queue!vars

\* A change of one status is one step of the abstract queue.
LEMMA QueueMove ==
    ASSUME IInv, NEW b \in Books, UNCHANGED attempts, book[b] # "none", book'[b] # "none",
           \A c \in Books \ {b} : book'[c] = book[c] /\ status'[c] = status[c],
           \/ status[b] = "running" /\ status'[b] \in {"queued", "completed", "failed"}
           \/ status'[b] = "cancelled"
           \/ status'[b] = "absent"
    PROVE  [Queue!Next]_Queue!vars
<1>1. RowTypes
  BY TypeParts DEF IInv, TypeInv
<1>2. CASE status[b] = "running" /\ status'[b] = "queued"
  <2>1. Phase[b] = "running" /\ Phase' = [Phase EXCEPT ![b] = "waiting"]
    BY <1>1, <1>2 DEF Phase
  <2>2. Output' = Output
    BY <1>1, <1>2 DEF Output
  <2>3. Queue!PutBack(b)
    BY <2>1, <2>2 DEF Queue!PutBack
  <2> QED BY <2>3 DEF Queue!Next
<1>3. CASE status[b] = "running" /\ status'[b] = "completed"
  <2>1. Phase[b] = "running" /\ Phase' = [Phase EXCEPT ![b] = "done"]
    BY <1>1, <1>3 DEF Phase
  <2>2. Output' = [Output EXCEPT ![b] = attempts[b]]
    BY <1>1, <1>3 DEF Output
  <2>3. Queue!Deliver(b)
    BY <2>1, <2>2 DEF Queue!Deliver
  <2> QED BY <2>3 DEF Queue!Next
<1>4. CASE status[b] = "running" /\ status'[b] = "failed"
  <2>1. Phase[b] = "running" /\ Phase' = [Phase EXCEPT ![b] = "failed"]
    BY <1>1, <1>4 DEF Phase
  <2>2. Output' = Output
    BY <1>1, <1>4 DEF Output
  <2>3. Queue!GiveUp(b)
    BY <2>1, <2>2 DEF Queue!GiveUp
  <2> QED BY <2>3 DEF Queue!Next
<1>5. CASE status'[b] \in {"cancelled", "absent"}
  <2>1. Phase' = [Phase EXCEPT ![b] = "gone"]
    BY <1>1, <1>5 DEF Phase
  <2>2. Output' = [Output EXCEPT ![b] = 0]
    BY <1>1, <1>5 DEF Output
  <2>3. CASE Phase[b] = "gone"
    <3>1. Phase' = Phase
      BY <2>1, <2>3 DEF Phase
    <3>2. Output[b] = 0
      BY <2>3 DEF Phase, Output
    <3> QED BY <2>2, <3>1, <3>2 DEF Output, Queue!vars
  <2>4. CASE Phase[b] # "gone"
    <3>1. Phase[b] # "none"
      BY DEF Phase
    <3>2. Queue!Withdraw(b)
      BY <2>1, <2>2, <2>4, <3>1 DEF Queue!Withdraw
    <3> QED BY <3>2 DEF Queue!Next
  <2> QED BY <2>3, <2>4
<1> QED BY <1>2, <1>3, <1>4, <1>5

LEMMA QueueStep == IInv /\ [Next]_vars => [Queue!Next]_Queue!vars
<1> SUFFICES ASSUME IInv, [Next]_vars PROVE [Queue!Next]_Queue!vars
  OBVIOUS
<1>1. RowTypes /\ TypeInv /\ JobInv
  BY TypeParts DEF IInv, TypeInv
<1>2. ASSUME NEW b \in Books, CreateQueuedBook(b) PROVE [Queue!Next]_Queue!vars
  <2>1. status[b] = "absent"
    BY <1>1, <1>2 DEF CreateQueuedBook, JobInv, Fence
  <2>2. Phase[b] = "none" /\ Phase' = [Phase EXCEPT ![b] = "waiting"]
    BY <1>1, <1>2, <2>1 DEF CreateQueuedBook, RowTypes, Phase
  <2>3. Output' = Output
    BY <1>1, <1>2, <2>1 DEF CreateQueuedBook, RowTypes, Output
  <2>4. Queue!Enqueue(b)
    BY <1>2, <2>2, <2>3 DEF CreateQueuedBook, Queue!Enqueue
  <2> QED BY <2>4 DEF Queue!Next
<1>3. ASSUME NEW b \in Books, DeleteFamilyBook(b) PROVE [Queue!Next]_Queue!vars
  BY <1>1, <1>3, QueueMove DEF DeleteFamilyBook, RowTypes
<1>4. ASSUME NEW b \in Books, CancelJob(b) PROVE [Queue!Next]_Queue!vars
  <2>1. book[b] # "none"
    BY <1>1, <1>4 DEF CancelJob, JobInv, Request
  <2>2. CASE status[b] # "absent"
    BY <1>1, <1>4, <2>1, <2>2, QueueMove DEF CancelJob, RowTypes
  <2>3. CASE status[b] = "absent"
    BY <1>4, <2>3, QueueStutter DEF CancelJob
  <2> QED BY <2>2, <2>3
<1>5. ASSUME NEW b \in Books,
             \/ CancelRequest(b) \/ CancelFlag(b) \/ CancelPeek(b) \/ CancelBook(b)
             \/ CancelAborts(b)
      PROVE  [Queue!Next]_Queue!vars
  BY <1>1, <1>5, QueueStutter
  DEF CancelRequest, CancelFlag, CancelPeek, CancelBook, CancelAborts, RowTypes
<1>6. ASSUME NEW w \in Workers, NEW b \in Books, ClaimNextJob(w, b)
      PROVE  [Queue!Next]_Queue!vars
  <2>1. Phase[b] \in {"waiting", "running"} /\ Phase' = [Phase EXCEPT ![b] = "running"]
    BY <1>1, <1>6 DEF ClaimNextJob, Eligible, DueQueued, ExpiredLease, RowTypes, Phase
  <2>2. Output' = Output
    BY <1>1, <1>6 DEF ClaimNextJob, Eligible, DueQueued, ExpiredLease, RowTypes, Output
  <2>3. Queue!Begin(b)
    BY <1>6, <2>1, <2>2 DEF ClaimNextJob, Queue!Begin
  <2> QED BY <2>3 DEF Queue!Next
<1>7. ASSUME NEW w \in Workers, AttemptStep(w) PROVE [Queue!Next]_Queue!vars
  <2>1. attempts' = attempts
    BY <1>1, <1>7, AttemptFootprint DEF TypeInv, Footprint, WorkerFootprint
  <2>2. \/ UNCHANGED status
        \/ status[task[w]] = "running" /\ status'[task[w]] \in {"queued", "completed", "failed", "cancelled"}
    BY <1>1, <1>7, AttemptRows
  <2>3. CASE UNCHANGED status
    BY <1>1, <1>7, <2>1, <2>3, AttemptRows, QueueStutter
  <2>4. CASE /\ status[task[w]] = "running"
             /\ status'[task[w]] \in {"queued", "completed", "failed", "cancelled"}
    BY <1>1, <1>7, <2>1, <2>4, AttemptRows, QueueMove
  <2> QED BY <2>2, <2>3, <2>4
<1>8. ASSUME NEW w \in Workers, StartWorker(w) \/ CrashWorker(w) \/ PollEmpty(w) \/ RenewLease(w)
      PROVE  [Queue!Next]_Queue!vars
  BY <1>8, QueueStutter DEF StartWorker, CrashWorker, PollEmpty, RenewLease, vars
<1>9. CASE Tick \/ UNCHANGED vars
  BY <1>9, QueueStutter DEF Tick, vars
<1> QED
  BY <1>2, <1>3, <1>4, <1>5, <1>6, <1>7, <1>8, <1>9 DEF Next, ApiStep, WorkerStep

\* The book queue, with its unguarded cancel endpoint, implements the abstract durable
\* queue: only the latest attempt delivers, and what is settled is only ever withdrawn.
THEOREM QueueCorrect == Spec => ImplementsDurableQueue
<1>1. Init => Queue!Init
  BY DEF Init, Queue!Init, Phase, Output
<1> QED
  BY <1>1, Inductive, QueueStep, PTL DEF Spec, ImplementsDurableQueue, Queue!Spec

=============================================================================
