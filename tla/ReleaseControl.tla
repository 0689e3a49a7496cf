--------------------------- MODULE ReleaseControl ---------------------------
(***************************************************************************)
(* The desired release (release_control.py): one row, and a log of the     *)
(* decisions that changed it.                                              *)
(*                                                                         *)
(* A request is a transaction of two or three statements.  The row of      *)
(* release_control is there from the migration, or is created by the first *)
(* request on a schema without it.                                         *)
(***************************************************************************)
EXTENDS Integers, Sequences

CONSTANTS Operators,     \* requests that run at once
          Releases,      \* the catalog
          CurrentRelease, PreviousRelease,
          MaxGeneration  \* bound: changes of the release

ASSUME ReleaseAssumption ==
    /\ {CurrentRelease, PreviousRelease} \subseteq Releases
    /\ MaxGeneration \in Nat

VARIABLES
    control,      \* the row of release_control, <<>> before there is one
    releaseLog,   \* release_decisions
    caller        \* what each operator's request is doing

releaseVars == <<control, releaseLog, caller>>

Idle == [op |-> "none", to |-> CurrentRelease, at |-> "idle", seen |-> <<>>]

ReleaseTypeOK ==
    /\ control = <<>> \/ /\ {control.active, control.previous} \subseteq Releases
                         /\ control.generation \in 1..(MaxGeneration + 1)
    /\ \A t \in Operators : /\ caller[t].op \in {"none", "get", "activate", "rollback"}
                            /\ caller[t].at \in {"idle", "read", "insert", "change"}
                            /\ caller[t].at = "idle" <=> caller[t] = Idle

ReleaseInit ==
    /\ control = <<>>
    /\ releaseLog = <<>>
    /\ caller = [t \in Operators |-> Idle]

-----------------------------------------------------------------------------
(* Requests.                                                               *)

FirstRow == [active |-> CurrentRelease, previous |-> PreviousRelease, generation |-> 1]

\* The migration that creates the table inserts the row, before any request.
Migrate ==
    /\ control = <<>> /\ \A t \in Operators : caller[t] = Idle
    /\ control' = FirstRow
    /\ UNCHANGED <<releaseLog, caller>>

\* A release that is not in the catalog is refused before the transaction.
RequestRelease(t, op, to) ==
    /\ caller[t] = Idle
    /\ op = "activate" => to \in Releases
    /\ op # "activate" => to = CurrentRelease
    /\ caller' = [caller EXCEPT ![t] = [op |-> op, to |-> to, at |-> "read", seen |-> <<>>]]
    /\ UNCHANGED <<control, releaseLog>>

\* Transactions that hold the row: read with FOR UPDATE, or inserted.
HoldsControl(t) == caller[t].at = "change" /\ (caller[t].op # "get" \/ control = <<>>)

GetOrCreate_NoLock(t) ==
    /\ caller[t].at = "read"
    /\ caller' = [caller EXCEPT ![t].seen = control,
                                ![t].at = IF control = <<>> THEN "insert" ELSE "change"]
    /\ UNCHANGED <<control, releaseLog>>

\* _get_or_create: a read that does not lock for get_state, one that does for a change.
GetOrCreate(t) ==
    /\ caller[t].at = "read"
    /\ control # <<>> /\ caller[t].op # "get" => \A u \in Operators : ~ HoldsControl(u)
    /\ caller' = [caller EXCEPT ![t].seen = control,
                                ![t].at = IF control = <<>> THEN "insert" ELSE "change"]
    /\ UNCHANGED <<control, releaseLog>>

\* The insert waits for another one of the same key; the key is taken once that one commits,
\* and the request fails.
InsertControl(t) ==
    /\ caller[t].at = "insert" /\ control = <<>>
    /\ \A u \in Operators : ~ HoldsControl(u)
    /\ caller' = [caller EXCEPT ![t].seen = FirstRow, ![t].at = "change"]
    /\ UNCHANGED <<control, releaseLog>>

InsertConflict(t) ==
    /\ caller[t].at = "insert" /\ control # <<>>
    /\ caller' = [caller EXCEPT ![t] = Idle]
    /\ UNCHANGED <<control, releaseLog>>

\* Changes the row to the release and appends the decision, then commits.
Commit(t, action, to) ==
    LET row == caller[t].seen
        next == [active |-> to, previous |-> row.active, generation |-> row.generation + 1]
    IN  /\ control' = next
        /\ releaseLog' = Append(releaseLog, [action |-> action, from |-> row.active, to |-> to,
                                             generation |-> next.generation])
        /\ caller' = [caller EXCEPT ![t] = Idle]

Activate(t) ==
    /\ caller[t].op = "activate" /\ caller[t].at = "change"
    /\ IF caller[t].seen.active # caller[t].to
       THEN caller[t].seen.generation <= MaxGeneration /\ Commit(t, "activate", caller[t].to)
       ELSE /\ control' = caller[t].seen
            /\ caller' = [caller EXCEPT ![t] = Idle]
            /\ UNCHANGED releaseLog

RollbackRelease(t) ==
    /\ caller[t].op = "rollback" /\ caller[t].at = "change"
    /\ caller[t].seen.generation <= MaxGeneration
    /\ Commit(t, "rollback", caller[t].seen.previous)

GetState(t) ==
    /\ caller[t].op = "get" /\ caller[t].at = "change"
    /\ control' = IF control = <<>> THEN caller[t].seen ELSE control
    /\ caller' = [caller EXCEPT ![t] = Idle]
    /\ UNCHANGED <<releaseLog>>

ReleaseNext ==
    \/ Migrate
    \/ \E t \in Operators :
          \/ \E op \in {"get", "activate", "rollback"}, to \in Releases : RequestRelease(t, op, to)
          \/ GetOrCreate(t) \/ InsertControl(t) \/ InsertConflict(t)
          \/ Activate(t) \/ RollbackRelease(t) \/ GetState(t)

-----------------------------------------------------------------------------
(* Properties.                                                             *)

\* The decisions tell the whole history of the desired release: they lead from the first
\* release to the one in the row, without a gap and one per generation, whichever requests
\* overlap (activate, rollback, _get_or_create).
ReleaseHistory ==
    control # <<>> =>
       LET n == Len(releaseLog)
           released(k) == IF k = 0 THEN CurrentRelease ELSE releaseLog[k].to
       IN  /\ control.generation = n + 1
           /\ control.active = released(n)
           /\ control.previous = IF n = 0 THEN PreviousRelease ELSE releaseLog[n].from
           /\ \A k \in 1..n : /\ releaseLog[k].from = released(k - 1)
                              /\ releaseLog[k].generation = k + 1

\* The desired release in every state.
ReleaseInv == ReleaseTypeOK /\ ReleaseHistory

=============================================================================
