--------------------------- MODULE MCRecordingJobs --------------------------
(***************************************************************************)
(* Instances of the recording queue for TLC.                               *)
(***************************************************************************)
EXTENDS RecordingJobs

=============================================================================
