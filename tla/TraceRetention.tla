--------------------------- MODULE TraceRetention ---------------------------
(***************************************************************************)
(* The traces of jobs (observability.py), replays of a family (replay.py)  *)
(* and the retention of both (retention.py).  Days pass in steps.          *)
(***************************************************************************)
EXTENDS Integers

CONSTANTS TracedJobs,    \* recordings with their jobs
          TraceDays,     \* trace_retention_days
          ReplayDays,    \* replay_retention_days
          MaxDay,        \* bound: days that pass
          MaxAttempt     \* bound: attempts of a job

ASSUME RetentionAssumption == {TraceDays, ReplayDays, MaxDay, MaxAttempt} \subseteq Nat

VARIABLES
    day,
    tracedJob,    \* processing_jobs
    traces,       \* processing_trace_events, one element per attempt
    replays,      \* pipeline_replay_runs
    replay,       \* a replay in progress: the recordings it has read
    cutoff        \* a retention in progress: the day it started, with what it previewed

retentionVars == <<day, tracedJob, traces, replays, replay, cutoff>>

Terminal == {"completed", "failed"}

RetentionInit ==
    /\ day = 0
    /\ tracedJob = [j \in TracedJobs |-> [status |-> "none", attempts |-> 0, ended |-> -1]]
    /\ traces = {}
    /\ replays = {}
    /\ replay = {}
    /\ cutoff = [day |-> -1, traces |-> {}, replays |-> {}]

-----------------------------------------------------------------------------

\* The jobs of RecordingJobs as far as traces are concerned: a new or retried attempt ...
StartAttempt(j) ==
    /\ tracedJob[j].status \in {"none", "queued"}
    /\ tracedJob[j].attempts < MaxAttempt
    /\ tracedJob' = [tracedJob EXCEPT ![j].status = "running", ![j].attempts = @ + 1]
    /\ UNCHANGED <<day, traces, replays, replay, cutoff>>

\* ... ends: the events the attempt collected in memory are stored with the job's new state
\* (persist_trace_events in the transaction of completion.py); a retry puts it back.
EndAttempt(j, status) ==
    /\ tracedJob[j].status = "running"
    /\ tracedJob' = [tracedJob EXCEPT ![j].status = status,
                                      ![j].ended = IF status \in Terminal THEN day ELSE -1]
    /\ traces' = traces \cup {[job |-> j, attempt |-> tracedJob[j].attempts, created |-> day]}
    /\ UNCHANGED <<day, replays, replay, cutoff>>

\* A worker dies: its events die with it, the job is claimed again.
LoseAttempt(j) ==
    /\ tracedJob[j].status = "running"
    /\ tracedJob' = [tracedJob EXCEPT ![j].status = "queued"]
    /\ UNCHANGED <<day, traces, replays, replay, cutoff>>

\* delete_recording
DeleteTraced(j) ==
    /\ tracedJob[j].status \notin {"none", "deleted"}
    /\ tracedJob' = [tracedJob EXCEPT ![j].status = "deleted", ![j].ended = -1]
    /\ traces' = {e \in traces : e.job # j}
    /\ UNCHANGED <<day, replays, replay, cutoff>>

NextDay ==
    /\ day < MaxDay /\ day' = day + 1
    /\ UNCHANGED <<tracedJob, traces, replays, replay, cutoff>>

\* FamilyReplayService.run reads the completed recordings, replays them into a database of its
\* own, and stores the report later, in another transaction.
BeginReplay ==
    LET done == {j \in TracedJobs : tracedJob[j].status = "completed"}
    IN  /\ replay = {} /\ done # {}
        /\ replay' = done
        /\ UNCHANGED <<day, tracedJob, traces, replays, cutoff>>

StoreReplay ==
    /\ replay # {}
    /\ replays' = replays \cup {[sources |-> replay, created |-> day]}
    /\ replay' = {}
    /\ UNCHANGED <<day, tracedJob, traces, cutoff>>

\* preview: what is expired on the given day.
ExpiredTraces(d) ==
    {e \in traces : /\ tracedJob[e.job].status \in Terminal
                    /\ tracedJob[e.job].ended < d - TraceDays
                    /\ e.created < d - TraceDays}

ExpiredReplays(d) == {r \in replays : r.created < d - ReplayDays}

BeginRetention ==
    /\ cutoff.day = -1
    /\ cutoff' = [day |-> day, traces |-> ExpiredTraces(day), replays |-> ExpiredReplays(day)]
    /\ UNCHANGED <<day, tracedJob, traces, replays, replay>>

ApplyRetention_AsksTheClock ==
    /\ cutoff.day # -1
    /\ traces' = traces \ ExpiredTraces(day)
    /\ replays' = replays \ ExpiredReplays(day)
    /\ cutoff' = [day |-> -1, traces |-> {}, replays |-> {}]
    /\ UNCHANGED <<day, tracedJob, replay>>

\* apply: the deletion uses the preview's cutoff but asks again which rows it covers.
ApplyRetention ==
    /\ cutoff.day # -1
    /\ traces' = traces \ ExpiredTraces(cutoff.day)
    /\ replays' = replays \ ExpiredReplays(cutoff.day)
    /\ cutoff' = [day |-> -1, traces |-> {}, replays |-> {}]
    /\ UNCHANGED <<day, tracedJob, replay>>

RetentionNext ==
    \/ \E j \in TracedJobs :
          \/ StartAttempt(j) \/ LoseAttempt(j) \/ DeleteTraced(j)
          \/ \E s \in {"queued"} \cup Terminal : EndAttempt(j, s)
    \/ NextDay \/ BeginReplay \/ StoreReplay \/ BeginRetention \/ ApplyRetention

-----------------------------------------------------------------------------
(* Properties.                                                             *)

\* Retention never leaves a part of a job's trace behind: a job that spent days on several
\* attempts keeps all of them or none (apply).
TracesGoTogether ==
    [][\A j \in TracedJobs :
         LET of(T) == {e \in T : e.job = j}
         IN  of(traces') \subseteq of(traces) => of(traces') \in {of(traces), {}}]_retentionVars

\* What apply deletes is what the operator was shown, less what was deleted in between: no
\* row enters the set after the preview.
DeletesWhatWasShown ==
    [][cutoff.day # -1 /\ cutoff'.day = -1 =>
         /\ traces \ traces' \subseteq cutoff.traces
         /\ replays \ replays' \subseteq cutoff.replays]_retentionVars

\* What no step of retention does: delete part of a job's trace, or a row the operator was not
\* shown (preview, apply).
RetentionSteps == TracesGoTogether /\ DeletesWhatWasShown

=============================================================================
