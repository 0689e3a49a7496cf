----------------------------- MODULE QueueHealth -----------------------------
(***************************************************************************)
(* What the monitoring summary says of a queue (monitoring.py), while jobs *)
(* are claimed, renewed, retried and lost.                                 *)
(*                                                                         *)
(* One of the three queues, with as much of it as the summary reads: the   *)
(* rows, and whether a live worker renews the lease of a running job.      *)
(***************************************************************************)
EXTENDS Integers, FiniteSets

CONSTANTS JobIds,             \* integers, in the order the jobs are created
          LeaseTime,
          PendingThreshold,   \* stuck_pending_threshold_seconds and its like
          LeaseGrace,         \* lease_grace_seconds: one heartbeat
          MaxRetries,         \* max_attempts
          ReportLimit,        \* the LIMIT of each query
          MaxNow              \* bound: time

\* Jobs are numbered as they are created; a lease lasts, and a query returns at least a row.
ASSUME HealthAssumption ==
    /\ JobIds \subseteq Nat /\ IsFiniteSet(JobIds)
    /\ {LeaseTime, ReportLimit} \subseteq Nat \ {0}
    /\ {PendingThreshold, LeaseGrace, MaxRetries} \subseteq Nat

VARIABLES queue,   \* "recording", "book" or "cleanup"
          now,
          jobs,    \* the rows
          alive    \* jobs a live worker works on

healthVars == <<queue, now, jobs, alive>>

NoJob == [status |-> "none", created |-> 0, lease |-> -1, attempts |-> 0, due |-> 0]

HealthInit ==
    /\ queue = "none" /\ now = 0
    /\ jobs = [i \in JobIds |-> NoJob]
    /\ alive = {}

Watch(q) ==
    /\ queue = "none" /\ queue' = q
    /\ UNCHANGED <<now, jobs, alive>>

EnqueueJob(i) ==
    /\ queue # "none" /\ jobs[i].status = "none"
    /\ \A j \in JobIds : j < i => jobs[j].status # "none"
    /\ jobs' = [jobs EXCEPT ![i] = [NoJob EXCEPT !.status = "queued", !.created = now, !.due = now]]
    /\ UNCHANGED <<queue, now, alive>>

\* A queued job that is due, or a running one whose lease is over; recordings are claimed any
\* number of times.
Claimable(i) ==
    /\ \/ jobs[i].status = "queued" /\ jobs[i].due <= now
       \/ jobs[i].status = "running" /\ jobs[i].lease <= now
    /\ queue # "recording" => jobs[i].attempts < MaxRetries

ClaimJob(i) ==
    /\ Claimable(i) /\ jobs[i].attempts <= MaxRetries
    /\ jobs' = [jobs EXCEPT ![i].status = "running", ![i].lease = now + LeaseTime,
                            ![i].attempts = @ + 1]
    /\ alive' = alive \cup {i}
    /\ UNCHANGED <<queue, now>>

EndJob(i, status, due) ==
    /\ i \in alive
    /\ status = "queued" => queue = "recording" \/ jobs[i].attempts < MaxRetries
    /\ jobs' = [jobs EXCEPT ![i].status = status, ![i].lease = -1, ![i].due = due]
    /\ alive' = alive \ {i}
    /\ UNCHANGED <<queue, now>>

CancelJob(i) ==
    /\ queue = "book" /\ jobs[i].status = "queued"
    /\ jobs' = [jobs EXCEPT ![i].status = "cancelled"]
    /\ UNCHANGED <<queue, now, alive>>

WorkerDies(i) ==
    /\ i \in alive /\ alive' = alive \ {i}
    /\ UNCHANGED <<queue, now, jobs>>

\* Time passes; a live worker renews its lease early enough that it never runs out.
TimePasses ==
    /\ queue # "none" /\ now < MaxNow /\ now' = now + 1
    /\ \E renewed \in SUBSET alive :
          /\ \A i \in alive \ renewed : jobs[i].lease > now + 1
          /\ jobs' = [i \in JobIds |-> IF i \in renewed
                                       THEN [jobs[i] EXCEPT !.lease = now + 1 + LeaseTime]
                                       ELSE jobs[i]]
    /\ UNCHANGED <<queue, alive>>

HealthNext ==
    \/ \E q \in {"recording", "book", "cleanup"} : Watch(q)
    \/ \E i \in JobIds :
          \/ EnqueueJob(i) \/ ClaimJob(i) \/ CancelJob(i) \/ WorkerDies(i)
          \/ \E s \in {"queued", "completed", "failed"} :
                EndJob(i, s, IF s = "queued" THEN now + 1 ELSE 0)
    \/ TimePasses

-----------------------------------------------------------------------------
(* The summary.                                                            *)

Rows == {i \in JobIds : jobs[i].status # "none"}

Ended == {"completed", "failed", "cancelled"}

\* The first rows of a query, oldest first.
Limited(S) == {i \in S : Cardinality({j \in S : j < i}) < ReportLimit}

PendingTooLong ==
    {i \in Rows : jobs[i].status = "queued" /\ jobs[i].created <= now - PendingThreshold}

LeaseExpired_NoGrace == {i \in Rows : jobs[i].status = "running" /\ jobs[i].lease <= now + LeaseGrace}

LeaseExpired == {i \in Rows : jobs[i].status = "running" /\ jobs[i].lease <= now - LeaseGrace}

RetriesExceeded == {i \in Rows : jobs[i].status # "completed" /\ jobs[i].attempts >= MaxRetries}

\* get_stuck_jobs, get_book_stuck_jobs: three queries; the third adds only new jobs.
StuckJobs ==
    LET first == {<<i, "pending_too_long">> : i \in Limited(PendingTooLong)}
                 \cup {<<i, "lease_expired">> : i \in Limited(LeaseExpired)}
    IN  first \cup {<<i, "max_retries_exceeded">> :
                      i \in Limited(RetriesExceeded) \ {x[1] : x \in first}}

\* get_storage_cleanup_stuck_jobs: the last reason that applies to a job that has not ended.
StuckCleanups ==
    LET old == {i \in Rows : jobs[i].status \notin Ended /\ jobs[i].created <= now - PendingThreshold}
        spent == {i \in RetriesExceeded : jobs[i].status \notin Ended}
        reason(i) == CASE i \in spent -> "max_retries_exceeded"
                       [] i \in LeaseExpired -> "lease_expired"
                       [] OTHER -> "pending_too_long"
    IN  {<<i, reason(i)>> : i \in Limited(old \cup LeaseExpired \cup spent)}

Stuck == IF queue = "cleanup" THEN StuckCleanups ELSE StuckJobs

Count(s) == Cardinality({i \in Rows : jobs[i].status = s})

\* get_queue_metrics, get_book_queue_metrics, get_storage_cleanup_metrics.
Waiting(later) ==
    Cardinality({i \in Rows : jobs[i].status = "queued"
                    /\ (queue = "cleanup" => IF later THEN jobs[i].due > now ELSE jobs[i].due <= now)})

QueueMetrics ==
    [queued |-> Waiting(FALSE), retryWaiting |-> IF queue = "cleanup" THEN Waiting(TRUE) ELSE 0,
     running |-> Count("running"), failed |-> Count("failed"),
     expired |-> Cardinality({i \in Rows : jobs[i].status = "running" /\ jobs[i].lease <= now})]

-----------------------------------------------------------------------------
(* Properties.                                                             *)

\* A job without a future is in the report, or an older one is for the same reason: one nobody
\* has claimed for too long, and one whose worker died and whose lease ran out, also on its
\* last attempt, when nothing will claim it again (get_stuck_jobs and its variants).
StalledIsReported ==
    \A i \in Rows :
       (\/ jobs[i].status = "queued" /\ now - jobs[i].created >= PendingThreshold
        \/ jobs[i].status = "running" /\ i \notin alive /\ now - jobs[i].lease >= LeaseGrace)
       => \E x \in Stuck : x[1] <= i /\ jobs[x[1]].status \notin {"completed", "cancelled"}

\* A job that a live worker renews is never reported for its lease, nor counted as expired.
NoFalseAlarm ==
    /\ \A i \in alive : <<i, "lease_expired">> \notin Stuck
    /\ (\A i \in Rows : jobs[i].status = "running" => i \in alive) => QueueMetrics.expired = 0

\* Every job is counted once, and reported at most once.
CountsAddUp ==
    /\ QueueMetrics.queued + QueueMetrics.retryWaiting + QueueMetrics.running + QueueMetrics.failed
          + Count("completed") + Count("cancelled") = Cardinality(Rows)
    /\ \A x, y \in Stuck : x[1] = y[1] => x = y

\* Monitoring tells a stalled queue from a busy one: a job nobody will move is reported, one
\* that moves is not, and the counts are of all jobs (get_stuck_jobs, get_queue_metrics).
HealthInv == StalledIsReported /\ NoFalseAlarm /\ CountsAddUp

=============================================================================
