---------------------------- MODULE ExtractionRun ---------------------------
(***************************************************************************)
(* One run of the extraction pipeline over a transcript (src/mura/         *)
(* pipeline.py, deepseek/service.py): cleaning with its repair and its     *)
(* fallback, then the focused passes, the single pass, or the windows of a *)
(* long recording under a call budget, each with at most one repair.       *)
(*                                                                         *)
(* A unit is a pass or a window.  Every model call is ok, bad (its answer  *)
(* breaks the contract), empty (nothing accepted and the schema broken) or *)
(* an error of the provider.  Reporting a stage renews the worker's lease: *)
(* it raises once the job has been lost.                                   *)
(***************************************************************************)
EXTENDS Integers, FiniteSets

CONSTANTS PlannedWindows,   \* windows of the plan
          BudgetWindows,    \* maximum_windows of the call budget
          MaxTotalCalls,    \* maximum_total_model_calls
          MaxRepairs        \* bound: maximum_repairs_per_window is at most this

ASSUME RunAssumption == {PlannedWindows, BudgetWindows, MaxTotalCalls, MaxRepairs} \subseteq Nat

VARIABLES
    repairs,    \* maximum_repairs_per_window of this deployment
    mode,       \* "focused", "single" or "windowed"; "none" before the run
    stepAt,     \* where the run is
    unit,       \* the pass or window in work
    reports,    \* per unit: "todo", "completed", "failed" or "skipped"
    content,    \* units whose objects the current result holds
    calls,      \* model calls for units: [sent, here, counted, late]: all of them, those of this
                \* window, those in the budget's count, those sent after the job was lost
    spent,      \* budget_exhausted: out of tokens or time
    jobLost,    \* another worker has the job
    runStatus   \* "running", "raised", or the status of the result

runVars == <<repairs, mode, stepAt, unit, reports, content, calls, spent, jobLost, runStatus>>

Answers == {"ok", "bad", "empty", "error"}
Units(m) == CASE m = "focused" -> 1..3 [] m = "single" -> 1..1 [] OTHER -> 1..PlannedWindows
AllUnits == 1..(IF PlannedWindows > 3 THEN PlannedWindows ELSE 3)

RunInit ==
    /\ repairs = 0
    /\ mode = "none" /\ stepAt = "idle" /\ unit = 1
    /\ reports = [u \in AllUnits |-> "todo"] /\ content = {}
    /\ calls = [sent |-> 0, here |-> 0, counted |-> 0, late |-> 0]
    /\ spent = FALSE /\ jobLost = FALSE /\ runStatus = "running"

\* The steps that report a stage where nothing catches what the report raises.
ReportingSteps == {"clean", "extract", "resolve", "window", "extract_window", "window_failed",
                   "window_completed", "merge"}

Exhausted == spent \/ calls.counted >= MaxTotalCalls

\* A window that is skipped is not reported.
Reporting ==
    /\ stepAt \in ReportingSteps
    /\ stepAt = "window" => unit <= PlannedWindows /\ ~ Exhausted

StageReported == Reporting => ~ jobLost

\* The report finds the job lost.
ReportRaises ==
    /\ Reporting /\ jobLost
    /\ runStatus' = "raised" /\ stepAt' = "over"
    /\ UNCHANGED <<mode, unit, reports, content, calls, spent, jobLost>>

LoseJob ==
    /\ stepAt \notin {"idle", "over"} /\ ~ jobLost
    /\ jobLost' = TRUE
    /\ UNCHANGED <<mode, stepAt, unit, reports, content, calls, spent, runStatus>>

RunOut ==
    /\ mode = "windowed" /\ stepAt # "over" /\ ~ spent
    /\ spent' = TRUE
    /\ UNCHANGED <<mode, stepAt, unit, reports, content, calls, jobLost, runStatus>>

\* MuraPipeline.process, and the check of the number of windows in _process_long.
BeginRun(m) ==
    /\ stepAt = "idle"
    /\ mode' = m
    /\ stepAt' = IF m = "windowed" THEN "window" ELSE "clean"
    /\ spent' = (m = "windowed" /\ PlannedWindows > BudgetWindows)
    /\ UNCHANGED <<unit, reports, content, calls, jobLost, runStatus>>

Raise == runStatus' = "raised" /\ stepAt' = "over" /\ UNCHANGED <<unit, reports, content>>

\* clean: a provider error of the first call is not caught.
Clean(a) ==
    /\ stepAt = "clean" /\ StageReported /\ a # "empty"
    /\ \/ a = "error" /\ Raise
       \/ a # "error" /\ stepAt' = (IF a = "ok" THEN "extract" ELSE "repair_clean")
                      /\ UNCHANGED <<unit, reports, content, runStatus>>
    /\ UNCHANGED <<mode, calls, spent, jobLost>>

\* _repair_cleaner: whatever becomes of it, the raw transcript serves as well.
RepairClean ==
    /\ stepAt = "repair_clean"
    /\ stepAt' = "extract"
    /\ UNCHANGED <<mode, unit, reports, content, calls, spent, jobLost, runStatus>>

EnterExtract ==
    /\ stepAt = "extract" /\ StageReported
    /\ stepAt' = IF mode = "focused" THEN "pass" ELSE "single"
    /\ UNCHANGED <<mode, unit, reports, content, calls, spent, jobLost, runStatus>>

Send == calls' = [calls EXCEPT !.sent = @ + 1, !.here = @ + 1,
                               !.late = @ + (IF jobLost THEN 1 ELSE 0)]

AfterPass == IF unit = 3 THEN "resolve" ELSE "pass"
NextUnit  == unit' = IF unit = 3 /\ mode = "focused" THEN unit ELSE unit + 1

CompletePass ==
    /\ reports' = [reports EXCEPT ![unit] = "completed"]
    /\ content' = content \cup {unit}
    /\ stepAt' = AfterPass /\ NextUnit

\* A failed pass returns the outcome it was given.
FailPass ==
    /\ reports' = [reports EXCEPT ![unit] = "failed"]
    /\ UNCHANGED content
    /\ stepAt' = AfterPass /\ NextUnit

\* _run_focused_pass, the primary call: only an answer can be repaired.
FocusedPrimary(a) ==
    /\ stepAt = "pass" /\ a # "empty" /\ Send
    /\ \/ a = "ok" /\ CompletePass
       \/ a = "error" /\ FailPass
       \/ a = "bad" /\ stepAt' = "repair_pass" /\ UNCHANGED <<unit, reports, content>>
    /\ UNCHANGED <<mode, spent, jobLost, runStatus>>

FocusedRepair(a) ==
    /\ stepAt = "repair_pass" /\ a # "empty" /\ Send
    /\ \/ a = "ok" /\ CompletePass
       \/ a # "ok" /\ FailPass
    /\ UNCHANGED <<mode, spent, jobLost, runStatus>>

Repairs == IF mode = "windowed" THEN repairs ELSE 1

\* The single pass is through; of a window, the report that it is validated comes first.
SingleDone == stepAt' = (IF mode = "windowed" THEN "validated" ELSE "resolve")

SingleRaises ==
    \/ /\ mode = "windowed"
       /\ reports' = [reports EXCEPT ![unit] = "failed"] /\ stepAt' = "window_failed"
       /\ UNCHANGED <<unit, content, runStatus>>
    \/ mode # "windowed" /\ Raise

\* _extract_single, the primary call.
Single(a) ==
    /\ stepAt = "single" /\ Send
    /\ \/ a = "error" /\ SingleRaises
       \/ a = "bad" /\ Repairs = 0 /\ SingleRaises
       \/ /\ a \in {"bad", "empty"} /\ Repairs > 0
          /\ stepAt' = "repair_single" /\ UNCHANGED <<unit, reports, content, runStatus>>
       \/ /\ a = "ok" \/ (a = "empty" /\ Repairs = 0)
          /\ SingleDone /\ UNCHANGED <<unit, reports, runStatus>>
          /\ content' = IF mode = "single" THEN content \cup {unit} ELSE content
    /\ UNCHANGED <<mode, spent, jobLost>>

\* _repair_extraction: an empty but valid first result is lost when its repair fails.
RepairSingle(a) ==
    /\ stepAt = "repair_single" /\ Send
    /\ \/ a \in {"error", "bad"} /\ SingleRaises
       \/ /\ a \in {"ok", "empty"} /\ SingleDone /\ UNCHANGED <<unit, reports, runStatus>>
          /\ content' = IF mode = "single" THEN content \cup {unit} ELSE content
    /\ UNCHANGED <<mode, spent, jobLost>>

\* The loop of _process_long: a window is skipped once the budget is exhausted, for good.
SkipWindow ==
    /\ stepAt = "window" /\ unit <= PlannedWindows /\ Exhausted
    /\ spent' = TRUE
    /\ reports' = [reports EXCEPT ![unit] = "skipped"]
    /\ unit' = unit + 1
    /\ UNCHANGED <<mode, stepAt, content, calls, jobLost, runStatus>>

BeginWindow ==
    /\ stepAt = "window" /\ unit <= PlannedWindows /\ ~ Exhausted /\ StageReported
    /\ stepAt' = "extract_window"
    /\ calls' = [calls EXCEPT !.here = 0]
    /\ UNCHANGED <<mode, unit, reports, content, spent, jobLost, runStatus>>

ExtractWindow ==
    /\ stepAt = "extract_window" /\ StageReported
    /\ stepAt' = "single"
    /\ UNCHANGED <<mode, unit, reports, content, calls, spent, jobLost, runStatus>>

\* _usage_totals: a repair is a call as well.
WindowCalls(sent) == sent

\* The report that the window is validated, inside the try: lost jobs look like a failure.
WindowValidated ==
    /\ stepAt = "validated"
    /\ \/ /\ jobLost
          /\ reports' = [reports EXCEPT ![unit] = "failed"] /\ stepAt' = "window_failed"
          /\ UNCHANGED <<content, calls>>
       \/ /\ ~ jobLost
          /\ reports' = [reports EXCEPT ![unit] = "completed"] /\ stepAt' = "window_completed"
          /\ content' = content \cup {unit}
          /\ calls' = [calls EXCEPT !.counted = @ + WindowCalls(calls.here)]
    /\ UNCHANGED <<mode, unit, spent, jobLost, runStatus>>

\* The window has been reported, completed or failed.
WindowOver ==
    /\ stepAt \in {"window_completed", "window_failed"} /\ StageReported
    /\ stepAt' = "window" /\ unit' = unit + 1
    /\ UNCHANGED <<mode, reports, content, calls, spent, jobLost, runStatus>>

\* No window is left: nothing to merge is an error.
EndOfWindows ==
    /\ stepAt = "window" /\ unit > PlannedWindows
    /\ \/ content = {} /\ Raise
       \/ content # {} /\ stepAt' = "merge" /\ UNCHANGED <<unit, reports, content, runStatus>>
    /\ UNCHANGED <<mode, calls, spent, jobLost>>

MergedStatus_IgnoresSkipped(issues, review) ==
    CASE ~ issues /\ ~ review /\ (\A u \in Units(mode) : reports[u] # "failed") -> "completed"
      [] \E u \in Units(mode) : reports[u] = "failed" -> "partially_completed"
      [] OTHER -> "completed_with_review"

\* The status of the result: every failed or skipped window has left an issue.
MergedStatus(issues, review) ==
    LET open == \E u \in Units(mode) : reports[u] \in {"failed", "skipped"}
    IN  CASE ~ open /\ ~ issues /\ ~ review -> "completed"
          [] open -> "partially_completed"
          [] OTHER -> "completed_with_review"

\* The merge and the validation of what was merged are outside every try.
Merge(valid, issues, review) ==
    /\ stepAt = "merge" /\ StageReported
    /\ \/ ~ valid /\ Raise
       \/ /\ valid /\ runStatus' = MergedStatus(issues, review) /\ stepAt' = "over"
          /\ UNCHANGED <<unit, reports, content>>
    /\ UNCHANGED <<mode, calls, spent, jobLost>>

\* The end of _process_short.
Resolve ==
    /\ stepAt = "resolve" /\ StageReported
    /\ stepAt' = "over" /\ runStatus' = "completed"
    /\ UNCHANGED <<mode, unit, reports, content, calls, spent, jobLost>>

RunStep ==
    \/ \E m \in {"focused", "single", "windowed"} : BeginRun(m)
    \/ \E a \in Answers : Clean(a) \/ FocusedPrimary(a) \/ FocusedRepair(a) \/ Single(a) \/ RepairSingle(a)
    \/ RepairClean \/ EnterExtract \/ SkipWindow \/ BeginWindow \/ ExtractWindow
    \/ WindowValidated \/ WindowOver \/ EndOfWindows \/ Resolve
    \/ \E valid, issues, review \in BOOLEAN : Merge(valid, issues, review)
    \/ ReportRaises \/ LoseJob \/ RunOut

\* The deployment's number of repairs is read when the run starts.
RunNext == RunStep /\ IF mode = "none" THEN repairs' \in 0..MaxRepairs ELSE UNCHANGED repairs

-----------------------------------------------------------------------------
(* Properties.                                                             *)

RunTypeOK ==
    /\ mode \in {"none", "focused", "single", "windowed"}
    /\ unit \in 1..(Cardinality(AllUnits) + 1) /\ content \subseteq AllUnits
    /\ reports \in [AllUnits -> {"todo", "completed", "failed", "skipped"}]
    /\ \A k \in DOMAIN calls : calls[k] \in 0..(2 * Cardinality(AllUnits))
    /\ runStatus \in {"running", "raised", "completed", "completed_with_review", "partially_completed"}

FailedUnits == {u \in AllUnits : reports[u] = "failed"}

\* A long recording ends as completed only with the content of every window, and as partially
\* completed whenever a window failed or was skipped; a result without content is an error,
\* never a result (_process_long).
CompletedIsWholeRun ==
    mode = "windowed" /\ runStatus \notin {"running", "raised"} =>
       /\ content # {}
       /\ runStatus = "partially_completed" <=> content # Units(mode)

\* A pass or a window that fails, even in its repair, takes nothing away from what was
\* accepted before it: the result always holds exactly the units reported as completed.
FailureKeepsTheRest ==
    /\ mode \in {"focused", "windowed"} => content = {u \in AllUnits : reports[u] = "completed"}
    /\ mode = "focused" /\ runStatus = "completed" => \A u \in 1..3 : reports[u] # "todo"

\* The call budget holds but for the repair of its last window, and for the calls of windows
\* that failed, which are not counted; a focused run never makes more than six calls.
CallsWithinBudget ==
    /\ mode # "windowed" => calls.sent <= 6
    /\ mode = "windowed" =>
         calls.sent <= MaxTotalCalls + repairs + (1 + repairs) * Cardinality(FailedUnits)

\* A worker whose job was given to another stops: the report inside the window's try takes
\* the loss for a failed window, but no further window is begun, and no result is returned
\* once a report has seen the loss.
LostJobStops == calls.late <= (IF mode = "focused" THEN 6 ELSE 2)

\* A run of the pipeline: it counts as completed only if all of it was, a failed part keeps
\* the others, calls stay within the budget, and a lost job ends the run (process).
RunInv ==
    RunTypeOK /\ CompletedIsWholeRun /\ FailureKeepsTheRest /\ CallsWithinBudget /\ LostJobStops

=============================================================================
