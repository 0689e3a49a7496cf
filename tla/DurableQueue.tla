---------------------------- MODULE DurableQueue ----------------------------
(***************************************************************************)
(* What a durable queue of MURA promises to whoever submits work to it,    *)
(* with no leases, workers or clocks in sight: an item is started some     *)
(* number of times, each start is a new epoch, and at most one epoch ever  *)
(* delivers the item's output -- the latest one.  A settled item is never  *)
(* touched again, except that its owner may withdraw it, which takes the   *)
(* output along.                                                           *)
(***************************************************************************)
EXTENDS Naturals

CONSTANT Items

VARIABLES
    phase,   \* [Items -> Phases]
    epoch,   \* [Items -> Nat]: how many times the item has been started
    output   \* [Items -> Nat]: the epoch that delivered the output, 0 if none

vars == <<phase, epoch, output>>

Phases == {"none", "waiting", "running", "done", "failed", "gone"}

Init ==
    /\ phase  = [i \in Items |-> "none"]
    /\ epoch  = [i \in Items |-> 0]
    /\ output = [i \in Items |-> 0]

Enqueue(i) ==
    /\ phase[i] = "none"
    /\ phase' = [phase EXCEPT ![i] = "waiting"]
    /\ UNCHANGED <<epoch, output>>

\* A start may find the item running: its previous starter is presumed dead.
Begin(i) ==
    /\ phase[i] \in {"waiting", "running"}
    /\ phase' = [phase EXCEPT ![i] = "running"]
    /\ epoch' = [epoch EXCEPT ![i] = @ + 1]
    /\ UNCHANGED output

PutBack(i) ==
    /\ phase[i] = "running"
    /\ phase' = [phase EXCEPT ![i] = "waiting"]
    /\ UNCHANGED <<epoch, output>>

Deliver(i) ==
    /\ phase[i] = "running"
    /\ phase'  = [phase EXCEPT ![i] = "done"]
    /\ output' = [output EXCEPT ![i] = epoch[i]]
    /\ UNCHANGED epoch

GiveUp(i) ==
    /\ phase[i] = "running"
    /\ phase' = [phase EXCEPT ![i] = "failed"]
    /\ UNCHANGED <<epoch, output>>

Withdraw(i) ==
    /\ phase[i] \notin {"none", "gone"}
    /\ phase'  = [phase EXCEPT ![i] = "gone"]
    /\ output' = [output EXCEPT ![i] = 0]
    /\ UNCHANGED epoch

Next ==
    \E i \in Items :
        Enqueue(i) \/ Begin(i) \/ PutBack(i) \/ Deliver(i) \/ GiveUp(i) \/ Withdraw(i)

Spec == Init /\ [][Next]_vars

=============================================================================
