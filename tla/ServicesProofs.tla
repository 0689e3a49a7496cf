--------------------------- MODULE ServicesProofs ---------------------------
(***************************************************************************)
(* Proofs about the services around the queues, each a specification of    *)
(* its own: the retention of traces, the object stores and the             *)
(* reconciliation of the storage; then what is decided about one text or   *)
(* one selection: evidence, what is kept of an answer, the sources, plan   *)
(* and chapters of a book, the mentions of people, dates and pronouns;     *)
(* and the budget guard. The constants are any that satisfy the            *)
(* assumption of their module.                                             *)
(*                                                                         *)
(* A part below has the service's specification, its inductive invariant   *)
(* where the property is not one itself, the start, the step with one case *)
(* per action, and the theorem.                                            *)
(***************************************************************************)
EXTENDS TraceRetention, ObjectStores, StorageReconciliation, EvidenceRecovery, BookSnapshot,
        BlueprintPlan, EntityResolution, ChapterGates, ClaimSemantics, Coreference, CostGuard,
        Sums, SequenceTheorems

-----------------------------------------------------------------------------
(* Traces, replays and their retention (TraceRetention).                   *)

RetentionSpec == RetentionInit /\ [][RetentionNext]_retentionVars

TracedRows == [status : {"none", "queued", "running", "deleted"} \cup Terminal, attempts : Nat, ended : Int]

RetentionTypes ==
    /\ day \in Nat
    /\ tracedJob \in [TracedJobs -> TracedRows]
    /\ traces \in SUBSET [job : TracedJobs, attempt : Nat, created : Nat]
    /\ replays \in SUBSET [sources : SUBSET TracedJobs, created : Nat]
    /\ replay \in SUBSET TracedJobs
    /\ cutoff.day \in Nat \cup {-1}

\* An ended job has no event younger than its end.
TracesPrecedeEnd ==
    \A e \in traces : /\ e.created <= day
                      /\ tracedJob[e.job].status \in Terminal => e.created <= tracedJob[e.job].ended

\* What the preview's cutoff covers can only become less.
PreviewCovers ==
    cutoff.day # -1 => /\ cutoff.day <= day
                       /\ ExpiredTraces(cutoff.day) \subseteq cutoff.traces
                       /\ ExpiredReplays(cutoff.day) \subseteq cutoff.replays

RetentionIInv == RetentionTypes /\ TracesPrecedeEnd /\ PreviewCovers

LEMMA RetentionStart == RetentionInit => RetentionIInv
  BY DEF RetentionInit, RetentionIInv, RetentionTypes, TracedRows, TracesPrecedeEnd, PreviewCovers, Terminal

TracesOf(T, j) == {e \in T : e.job = j}

KeepsTogether ==
    \A j \in TracedJobs : TracesOf(traces', j) \subseteq TracesOf(traces, j) =>
                             TracesOf(traces', j) \in {TracesOf(traces, j), {}}

KeepsUnshown ==
    cutoff.day # -1 /\ cutoff'.day = -1 => /\ traces \ traces' \subseteq cutoff.traces
                                           /\ replays \ replays' \subseteq cutoff.replays

\* A step of an attempt changes the status and the end of a job, to one that is not terminal or
\* has ended today, and its events may grow by one of today or all go.
LEMMA AttemptStep ==
    ASSUME RetentionIInv, RetentionAssumption, NEW j \in TracedJobs, RetentionTypes',
           UNCHANGED <<day, replays, replay, cutoff>>,
           \A i \in TracedJobs \ {j} : tracedJob'[i] = tracedJob[i],
           tracedJob'[j].status \in Terminal => tracedJob'[j].ended = day,
           \/ \E e : e.job = j /\ e.created = day /\ traces' = traces \cup {e}
           \/ traces' = traces
           \/ traces' = {e \in traces : e.job # j}
    PROVE  RetentionIInv' /\ KeepsTogether /\ KeepsUnshown
<1> USE DEF RetentionIInv
<1>1. TracesPrecedeEnd'
  <2> SUFFICES ASSUME NEW e \in traces'
               PROVE  /\ e.created <= day
                      /\ tracedJob'[e.job].status \in Terminal => e.created <= tracedJob'[e.job].ended
    BY DEF TracesPrecedeEnd
  <2>1. e \in traces \/ (e.job = j /\ e.created = day)
    OBVIOUS
  <2>2. e.created <= day /\ e.job \in TracedJobs /\ e.created \in Nat /\ day \in Nat
    BY <2>1 DEF TracesPrecedeEnd, RetentionTypes
  <2>3. CASE e.job = j
    BY <2>2, <2>3
  <2>4. CASE e.job # j
    BY <2>1, <2>2, <2>4 DEF TracesPrecedeEnd
  <2> QED BY <2>3, <2>4
<1>2. PreviewCovers'
  <2> SUFFICES ASSUME cutoff.day # -1
               PROVE  ExpiredTraces(cutoff.day)' \subseteq cutoff.traces
    BY DEF PreviewCovers, ExpiredReplays
  <2>1. cutoff.day \in Nat /\ cutoff.day <= day /\ day \in Nat /\ TraceDays \in Nat
    BY DEF PreviewCovers, RetentionTypes, RetentionAssumption
  <2>2. ASSUME NEW e \in traces', tracedJob'[e.job].status \in Terminal,
               tracedJob'[e.job].ended < cutoff.day - TraceDays, e.created < cutoff.day - TraceDays
        PROVE  e \in cutoff.traces
    <3>1. e.job # j
      BY <2>1, <2>2
    <3>2. e \in traces /\ e.job \in TracedJobs /\ tracedJob'[e.job] = tracedJob[e.job]
      BY <3>1 DEF RetentionTypes
    <3> QED BY <2>2, <3>2 DEF PreviewCovers, ExpiredTraces
  <2> QED BY <2>2 DEF ExpiredTraces
<1>3. KeepsTogether
  BY DEF KeepsTogether, TracesOf
<1>4. KeepsUnshown
  BY DEF KeepsUnshown
<1> QED BY <1>1, <1>2, <1>3, <1>4

LEMMA TracedRowStep ==
    \A row \in TracedRows, s \in {"queued", "deleted"} \cup Terminal, n \in Int :
       [row EXCEPT !.status = s, !.ended = n] \in TracedRows
  BY DEF TracedRows

LEMMA RetentionStep ==
    RetentionIInv /\ [RetentionNext]_retentionVars => RetentionIInv' /\ KeepsTogether /\ KeepsUnshown
<1> SUFFICES ASSUME RetentionIInv, [RetentionNext]_retentionVars
             PROVE  RetentionIInv' /\ KeepsTogether /\ KeepsUnshown
  OBVIOUS
<1> USE RetentionAssumption
<1> USE DEF TracedRows
<1>1. ASSUME NEW j \in TracedJobs, StartAttempt(j)
      PROVE  RetentionIInv' /\ KeepsTogether /\ KeepsUnshown
  <2>1. RetentionTypes'
    BY <1>1 DEF StartAttempt, RetentionIInv, RetentionTypes
  <2>2. tracedJob'[j].status = "running" /\ \A i \in TracedJobs \ {j} : tracedJob'[i] = tracedJob[i]
    BY <1>1 DEF StartAttempt, RetentionIInv, RetentionTypes
  <2> QED BY <1>1, <2>1, <2>2, AttemptStep DEF StartAttempt, Terminal
<1>2. ASSUME NEW j \in TracedJobs, NEW s \in {"queued"} \cup Terminal, EndAttempt(j, s)
      PROVE  RetentionIInv' /\ KeepsTogether /\ KeepsUnshown
  <2> DEFINE e == [job |-> j, attempt |-> tracedJob[j].attempts, created |-> day]
  <2>0. e \in [job : TracedJobs, attempt : Nat, created : Nat] /\ traces' = traces \cup {e}
    BY <1>2 DEF EndAttempt, RetentionIInv, RetentionTypes
  <2>t. tracedJob' \in [TracedJobs -> TracedRows]
    <3>1. tracedJob[j] \in TracedRows /\ day \in Int
      BY DEF RetentionIInv, RetentionTypes
    <3> HIDE DEF TracedRows
    <3> DEFINE n == IF s \in Terminal THEN day ELSE -1
    <3>n. n \in Int
      BY <3>1
    <3>2. [tracedJob[j] EXCEPT !.status = s, !.ended = n] \in TracedRows
      <4> HIDE DEF n
      <4> QED BY <3>1, <3>n, TracedRowStep
    <3> QED BY <1>2, <3>2 DEF EndAttempt, RetentionIInv, RetentionTypes
  <2>1. RetentionTypes' /\ e.job = j /\ e.created = day /\ traces' = traces \cup {e}
    <3>1. traces' \in SUBSET [job : TracedJobs, attempt : Nat, created : Nat]
      BY <2>0 DEF RetentionIInv, RetentionTypes
    <3> HIDE DEF TracedRows
    <3> QED BY <1>2, <2>0, <2>t, <3>1 DEF EndAttempt, RetentionIInv, RetentionTypes
  <2>2. /\ tracedJob'[j].status = s /\ (s \in Terminal => tracedJob'[j].ended = day)
        /\ \A i \in TracedJobs \ {j} : tracedJob'[i] = tracedJob[i]
    BY <1>2 DEF EndAttempt, RetentionIInv, RetentionTypes
  <2>3. \E x : x.job = j /\ x.created = day /\ traces' = traces \cup {x}
    BY <2>1
  <2> QED BY <1>2, <2>1, <2>2, <2>3, AttemptStep DEF EndAttempt
<1>3. ASSUME NEW j \in TracedJobs, LoseAttempt(j)
      PROVE  RetentionIInv' /\ KeepsTogether /\ KeepsUnshown
  <2>1. RetentionTypes'
    BY <1>3 DEF LoseAttempt, RetentionIInv, RetentionTypes
  <2>2. tracedJob'[j].status = "queued" /\ \A i \in TracedJobs \ {j} : tracedJob'[i] = tracedJob[i]
    BY <1>3 DEF LoseAttempt, RetentionIInv, RetentionTypes
  <2> QED BY <1>3, <2>1, <2>2, AttemptStep DEF LoseAttempt, Terminal
<1>4. ASSUME NEW j \in TracedJobs, DeleteTraced(j)
      PROVE  RetentionIInv' /\ KeepsTogether /\ KeepsUnshown
  <2>0. tracedJob' \in [TracedJobs -> TracedRows]
    <3>1. tracedJob[j] \in TracedRows
      BY DEF RetentionIInv, RetentionTypes
    <3> HIDE DEF TracedRows
    <3> DEFINE n == -1
    <3>n. n \in Int
      OBVIOUS
    <3>2. [tracedJob[j] EXCEPT !.status = "deleted", !.ended = n] \in TracedRows
      <4> HIDE DEF n
      <4> QED BY <3>1, <3>n, TracedRowStep
    <3> QED BY <1>4, <3>2 DEF DeleteTraced, RetentionIInv, RetentionTypes
  <2>1. RetentionTypes'
    BY <1>4, <2>0 DEF DeleteTraced, RetentionIInv, RetentionTypes
  <2>2. tracedJob'[j].status = "deleted" /\ \A i \in TracedJobs \ {j} : tracedJob'[i] = tracedJob[i]
    BY <1>4 DEF DeleteTraced, RetentionIInv, RetentionTypes
  <2> QED BY <1>4, <2>1, <2>2, AttemptStep DEF DeleteTraced, Terminal
<1>5. CASE NextDay
  BY <1>5 DEF NextDay, RetentionIInv, RetentionTypes, TracesPrecedeEnd, PreviewCovers, ExpiredTraces,
              ExpiredReplays, KeepsTogether, KeepsUnshown, TracesOf
<1>6. CASE BeginReplay
  BY <1>6 DEF BeginReplay, RetentionIInv, RetentionTypes, TracesPrecedeEnd, PreviewCovers, ExpiredTraces,
              ExpiredReplays, KeepsTogether, KeepsUnshown, TracesOf
<1>7. CASE StoreReplay
  <2>1. RetentionTypes'
    BY <1>7 DEF StoreReplay, RetentionIInv, RetentionTypes
  <2>2. TracesPrecedeEnd' /\ KeepsTogether /\ KeepsUnshown
    BY <1>7 DEF StoreReplay, RetentionIInv, TracesPrecedeEnd, KeepsTogether, KeepsUnshown, TracesOf
  <2>3. PreviewCovers'
    <3> SUFFICES ASSUME cutoff.day # -1
                 PROVE  ExpiredReplays(cutoff.day)' \subseteq cutoff.replays
      BY <1>7 DEF StoreReplay, RetentionIInv, PreviewCovers, ExpiredTraces
    <3>1. cutoff.day \in Nat /\ cutoff.day <= day /\ day \in Nat /\ ReplayDays \in Nat
      BY DEF RetentionIInv, PreviewCovers, RetentionTypes
    <3>2. ASSUME NEW r \in replays', r.created < cutoff.day - ReplayDays
          PROVE  r \in cutoff.replays
      <4>1. r \in replays \/ r.created = day
        BY <1>7 DEF StoreReplay
      <4>2. r \in replays
        BY <3>1, <3>2, <4>1
      <4> QED BY <3>2, <4>2 DEF RetentionIInv, PreviewCovers, ExpiredReplays
    <3> QED BY <1>7, <3>2 DEF StoreReplay, ExpiredReplays
  <2> QED BY <2>1, <2>2, <2>3 DEF RetentionIInv
<1>8. CASE BeginRetention
  BY <1>8 DEF BeginRetention, RetentionIInv, RetentionTypes, TracesPrecedeEnd, PreviewCovers, ExpiredTraces,
              ExpiredReplays, KeepsTogether, KeepsUnshown, TracesOf
<1>9. CASE ApplyRetention
  <2> DEFINE gone == ExpiredTraces(cutoff.day)
  <2>1. RetentionIInv' /\ KeepsUnshown
    BY <1>9 DEF ApplyRetention, RetentionIInv, RetentionTypes, TracesPrecedeEnd, PreviewCovers, KeepsUnshown
  <2>2. ASSUME NEW j \in TracedJobs, NEW e \in gone, e.job = j, NEW f \in TracesOf(traces, j)
        PROVE  f \in gone
    <3>1. /\ tracedJob[j].status \in Terminal /\ tracedJob[j].ended < cutoff.day - TraceDays
          /\ f \in traces /\ f.job = j
      BY <2>2 DEF ExpiredTraces, TracesOf
    <3>2. f.created <= tracedJob[j].ended /\ f.created \in Nat /\ tracedJob[j].ended \in Int
      BY <3>1 DEF RetentionIInv, TracesPrecedeEnd, RetentionTypes
    <3>3. cutoff.day \in Int /\ TraceDays \in Nat
      BY DEF RetentionIInv, RetentionTypes
    <3>4. f.created < cutoff.day - TraceDays
      BY <3>1, <3>2, <3>3
    <3> QED BY <3>1, <3>4 DEF ExpiredTraces
  <2>3. KeepsTogether
    <3> SUFFICES ASSUME NEW j \in TracedJobs
                 PROVE  TracesOf(traces', j) \in {TracesOf(traces, j), {}}
      BY DEF KeepsTogether
    <3>1. traces' = traces \ gone
      BY <1>9 DEF ApplyRetention
    <3> HIDE DEF gone
    <3>2. CASE \E e \in gone : e.job = j
      BY <2>2, <3>1, <3>2 DEF TracesOf
    <3>3. CASE ~ \E e \in gone : e.job = j
      BY <3>1, <3>3 DEF TracesOf
    <3> QED BY <3>2, <3>3
  <2> QED BY <2>1, <2>3
<1>10. CASE UNCHANGED retentionVars
  BY <1>10 DEF retentionVars, RetentionIInv, RetentionTypes, TracesPrecedeEnd, PreviewCovers, ExpiredTraces,
               ExpiredReplays, KeepsTogether, KeepsUnshown, TracesOf
<1> QED BY <1>1, <1>2, <1>3, <1>4, <1>5, <1>6, <1>7, <1>8, <1>9, <1>10 DEF RetentionNext

\* Retention deletes the whole trace of a job or nothing of it, and only rows the operator was
\* shown, however many days pass and attempts end between preview and apply.
THEOREM RetentionCorrect == RetentionSpec => RetentionSteps
<1>1. RetentionIInv /\ [RetentionNext]_retentionVars =>
         /\ [\A j \in TracedJobs :
               LET of(T) == {e \in T : e.job = j}
               IN  of(traces') \subseteq of(traces) => of(traces') \in {of(traces), {}}]_retentionVars
         /\ [cutoff.day # -1 /\ cutoff'.day = -1 =>
               /\ traces \ traces' \subseteq cutoff.traces
               /\ replays \ replays' \subseteq cutoff.replays]_retentionVars
  BY RetentionStep DEF KeepsTogether, KeepsUnshown, TracesOf
<1> QED BY <1>1, RetentionStart, RetentionStep, PTL
        DEF RetentionSpec, RetentionSteps, TracesGoTogether, DeletesWhatWasShown

-----------------------------------------------------------------------------
(* The stores of audio and book artifacts (ObjectStores).                  *)

StoreSpec == StoreInit /\ [][StoreNext]_storeVars

Saves == [at : {"none", "stream", "replace", "post", "write", "saved", "rejected", "crashed"},
          bad : {"no", "name", "type", "container"}, size : 0..(UploadLimit + 1), done : 0..UploadLimit]

StoreTypes ==
    /\ backend \in {"none", "local", "supabase"}
    /\ stored \in [ObjectKeys -> -1..UploadLimit]
    /\ temp \in [ObjectKeys -> -1..UploadLimit]
    /\ save \in [ObjectKeys -> Saves]
    /\ erase \in [ObjectKeys -> {"none", "calling", "true", "false", "retryable", "permanent"}]
    /\ fetch.at \in {"none", "open", "copying", "ready", "failed"}

\* A call of save, at each of its points: what it has read is in the file next to the object, and
\* only a whole upload without a fault gets past the stream.
SaveGoesOn(k) ==
    /\ save[k].at \in {"stream", "replace"} => k \in AudioObjects /\ backend # "none"
    /\ save[k].at = "stream" => /\ save[k].done <= save[k].size
                                /\ save[k].bad \in {"no", "container"}
                                /\ save[k].done > 0 => save[k].bad = "no"
                                /\ temp[k] = IF backend = "local" THEN save[k].done ELSE -1
    /\ save[k].at = "replace" => backend = "local" /\ temp[k] = save[k].done
    /\ save[k].at = "post" => backend = "supabase"
    /\ save[k].at = "write" => k \in BookObjects
    /\ save[k].at \in {"replace", "post", "write", "saved"} =>
          /\ save[k].done = save[k].size /\ save[k].size \in 1..UploadLimit /\ save[k].bad = "no"

\* What is stored, and what is left over, by where the call of save is.
StoredFits(k) ==
    /\ backend = "none" => save[k].at = "none"
    /\ save[k].at = "none" => temp[k] = -1 /\ stored[k] = -1
    /\ temp[k] # -1 => /\ k \in AudioObjects /\ backend = "local"
                       /\ save[k].at \in {"stream", "replace", "crashed"}
    /\ k \in AudioObjects /\ stored[k] # -1 =>
          /\ save[k].at \in {"saved", "rejected"} /\ (backend = "local" => save[k].at = "saved")
          /\ stored[k] <= save[k].size /\ save[k].bad = "no"
    /\ k \in AudioObjects /\ save[k].at = "saved" => stored[k] # -1 \/ erase[k] # "none"

\* Deletion is asked for after the call of save, and nothing is stored again after it.
EraseFits(k) ==
    /\ erase[k] # "none" => save[k].at \in {"saved", "rejected"}
    /\ erase[k] \in {"true", "false"} => stored[k] = -1

KeyFits(k) == SaveGoesOn(k) /\ StoredFits(k) /\ EraseFits(k)

StoreIInv == StoreTypes /\ \A k \in ObjectKeys : KeyFits(k)

LEMMA StoreStart == StoreInit => StoreIInv
<1> SUFFICES ASSUME StoreInit PROVE StoreIInv
  OBVIOUS
<1>1. -1 \in -1..UploadLimit /\ NoSave \in Saves
  BY StoreAssumption DEF NoSave, Saves
<1>2. StoreTypes
  BY <1>1 DEF StoreInit, StoreTypes, NoFetch
<1>3. \A k \in ObjectKeys : KeyFits(k)
  BY DEF StoreInit, KeyFits, SaveGoesOn, StoredFits, EraseFits, NoSave
<1> QED BY <1>2, <1>3 DEF StoreIInv

\* A step of one key leaves the others alone.
OnlyKey(k) ==
    /\ UNCHANGED backend
    /\ \A j \in ObjectKeys \ {k} : /\ stored'[j] = stored[j] /\ temp'[j] = temp[j]
                                   /\ save'[j] = save[j] /\ erase'[j] = erase[j]

LEMMA KeyStep ==
    ASSUME StoreIInv, NEW k \in ObjectKeys, StoreTypes', OnlyKey(k), KeyFits(k)'
    PROVE  StoreIInv'
<1> SUFFICES ASSUME NEW j \in ObjectKeys, j # k PROVE KeyFits(j)'
  BY DEF StoreIInv
<1>1. KeyFits(j)
  BY DEF StoreIInv
<1> QED BY <1>1 DEF OnlyKey, KeyFits, SaveGoesOn, StoredFits, EraseFits

LEMMA StoreStep == StoreIInv /\ [StoreNext]_storeVars => StoreIInv'
<1> SUFFICES ASSUME StoreIInv, [StoreNext]_storeVars PROVE StoreIInv'
  OBVIOUS
<1> USE StoreAssumption
<1>1. ASSUME NEW k \in ObjectKeys, NEW bad \in {"no", "name", "type", "container"}, NEW n \in 0..(UploadLimit + 1), BeginSave(k, bad, n)
      PROVE  StoreIInv'
  <2>0. StoreTypes /\ KeyFits(k)
    BY DEF StoreIInv
  <2>1. StoreTypes'
    BY <1>1, <2>0 DEF BeginSave, StoreTypes, Saves
  <2>2. OnlyKey(k)
    BY <1>1, <2>0 DEF BeginSave, StoreTypes, OnlyKey
  <2>3. KeyFits(k)'
    BY <1>1, <2>0 DEF BeginSave, StoreTypes, Saves, KeyFits, SaveGoesOn, StoredFits, EraseFits, ObjectKeys
  <2> QED BY <2>1, <2>2, <2>3, KeyStep
<1>2. ASSUME NEW k \in ObjectKeys, ReadChunk(k)
      PROVE  StoreIInv'
  <2>0. StoreTypes /\ KeyFits(k)
    BY DEF StoreIInv
  <2>1. StoreTypes'
    BY <1>2, <2>0 DEF ReadChunk, Reject, StoreTypes, Saves, KeyFits, SaveGoesOn
  <2>2. OnlyKey(k)
    BY <1>2, <2>0 DEF ReadChunk, Reject, StoreTypes, OnlyKey
  <2>3. KeyFits(k)'
    BY <1>2, <2>0 DEF ReadChunk, Reject, StoreTypes, Saves, KeyFits, SaveGoesOn, StoredFits, EraseFits, ObjectKeys
  <2> QED BY <2>1, <2>2, <2>3, KeyStep
<1>3. ASSUME NEW k \in ObjectKeys, EndOfSource(k)
      PROVE  StoreIInv'
  <2>0. StoreTypes /\ KeyFits(k)
    BY DEF StoreIInv
  <2>1. StoreTypes'
    BY <1>3, <2>0 DEF EndOfSource, Reject, StoreTypes, Saves
  <2>2. OnlyKey(k)
    BY <1>3, <2>0 DEF EndOfSource, Reject, StoreTypes, OnlyKey
  <2>3. KeyFits(k)'
    BY <1>3, <2>0 DEF EndOfSource, Reject, StoreTypes, Saves, KeyFits, SaveGoesOn, StoredFits, EraseFits, ObjectKeys
  <2> QED BY <2>1, <2>2, <2>3, KeyStep
<1>4. ASSUME NEW k \in ObjectKeys, NEW ok \in BOOLEAN, ReplaceLocal(k, ok)
      PROVE  StoreIInv'
  <2>0. StoreTypes /\ KeyFits(k)
    BY DEF StoreIInv
  <2>1. StoreTypes'
    <3>1. save' \in [ObjectKeys -> Saves]
      <4>1. save' = [save EXCEPT ![k].at = "saved"] \/ save' = [save EXCEPT ![k].at = "rejected"]
        BY <1>4 DEF ReplaceLocal, Reject
      <4>2. save[k] \in Saves /\ save \in [ObjectKeys -> Saves]
        BY <2>0 DEF StoreTypes
      <4>3. ASSUME NEW a \in {"saved", "rejected"} PROVE [save EXCEPT ![k].at = a] \in [ObjectKeys -> Saves]
        <5>1. [save[k] EXCEPT !.at = a] \in Saves
          BY <4>2 DEF Saves
        <5> QED BY <4>2, <5>1
      <4> QED BY <4>1, <4>3
    <3>2. stored' \in [ObjectKeys -> -1..UploadLimit] /\ temp' \in [ObjectKeys -> -1..UploadLimit]
      <4>1. UploadLimit \in Nat
        BY StoreAssumption
      <4>2. temp' = [temp EXCEPT ![k] = -1] /\ (stored' = stored \/ stored' = [stored EXCEPT ![k] = temp[k]])
        BY <1>4 DEF ReplaceLocal, Reject
      <4> QED BY <2>0, <4>1, <4>2 DEF StoreTypes
    <3>3. UNCHANGED <<backend, erase, fetch>>
      BY <1>4 DEF ReplaceLocal
    <3> QED BY <2>0, <3>1, <3>2, <3>3 DEF StoreTypes
  <2>2. OnlyKey(k)
    BY <1>4, <2>0 DEF ReplaceLocal, Reject, StoreTypes, OnlyKey
  <2>3. KeyFits(k)'
    BY <1>4, <2>0 DEF ReplaceLocal, Reject, StoreTypes, Saves, KeyFits, SaveGoesOn, StoredFits, EraseFits, ObjectKeys
  <2> QED BY <2>1, <2>2, <2>3, KeyStep
<1>5. ASSUME NEW k \in ObjectKeys, NEW answered \in BOOLEAN, NEW done \in BOOLEAN, PostSupabase(k, answered, done)
      PROVE  StoreIInv'
  <2>0. StoreTypes /\ KeyFits(k)
    BY DEF StoreIInv
  <2>1. StoreTypes'
    BY <1>5, <2>0 DEF PostSupabase, StoreTypes, Saves
  <2>2. OnlyKey(k)
    BY <1>5, <2>0 DEF PostSupabase, StoreTypes, OnlyKey
  <2>3. KeyFits(k)'
    BY <1>5, <2>0 DEF PostSupabase, StoreTypes, Saves, KeyFits, SaveGoesOn, StoredFits, EraseFits, ObjectKeys
  <2> QED BY <2>1, <2>2, <2>3, KeyStep
<1>6. ASSUME NEW k \in ObjectKeys, CrashSave(k)
      PROVE  StoreIInv'
  <2>0. StoreTypes /\ KeyFits(k)
    BY DEF StoreIInv
  <2>1. StoreTypes'
    BY <1>6, <2>0 DEF CrashSave, StoreTypes, Saves
  <2>2. OnlyKey(k)
    BY <1>6, <2>0 DEF CrashSave, StoreTypes, OnlyKey
  <2>3. KeyFits(k)'
    BY <1>6, <2>0 DEF CrashSave, StoreTypes, Saves, KeyFits, SaveGoesOn, StoredFits, EraseFits, ObjectKeys
  <2> QED BY <2>1, <2>2, <2>3, KeyStep
<1>7. ASSUME NEW k \in ObjectKeys, NEW n \in 1..UploadLimit, BeginStore(k, n)
      PROVE  StoreIInv'
  <2>0. StoreTypes /\ KeyFits(k)
    BY DEF StoreIInv
  <2>1. StoreTypes'
    BY <1>7, <2>0 DEF BeginStore, StoreTypes, Saves
  <2>2. OnlyKey(k)
    BY <1>7, <2>0 DEF BeginStore, StoreTypes, OnlyKey
  <2>3. KeyFits(k)'
    BY <1>7, <2>0 DEF BeginStore, StoreTypes, Saves, KeyFits, SaveGoesOn, StoredFits, EraseFits, ObjectKeys
  <2> QED BY <2>1, <2>2, <2>3, KeyStep
<1>8. ASSUME NEW k \in ObjectKeys, WriteBytes(k)
      PROVE  StoreIInv'
  <2>0. StoreTypes /\ KeyFits(k)
    BY DEF StoreIInv
  <2>1. StoreTypes'
    BY <1>8, <2>0 DEF WriteBytes, StoreTypes, Saves, KeyFits, SaveGoesOn
  <2>2. OnlyKey(k)
    BY <1>8, <2>0 DEF WriteBytes, StoreTypes, OnlyKey
  <2>3. KeyFits(k)'
    BY <1>8, <2>0 DEF WriteBytes, StoreTypes, Saves, KeyFits, SaveGoesOn, StoredFits, EraseFits, ObjectKeys
  <2> QED BY <2>1, <2>2, <2>3, KeyStep
<1>9. ASSUME NEW k \in ObjectKeys, Truncate(k)
      PROVE  StoreIInv'
  <2>0. StoreTypes /\ KeyFits(k)
    BY DEF StoreIInv
  <2>1. StoreTypes'
    BY <1>9, <2>0 DEF Truncate, StoreTypes, Saves
  <2>2. OnlyKey(k)
    BY <1>9, <2>0 DEF Truncate, StoreTypes, OnlyKey
  <2>3. KeyFits(k)'
    BY <1>9, <2>0 DEF Truncate, StoreTypes, Saves, KeyFits, SaveGoesOn, StoredFits, EraseFits, ObjectKeys
  <2> QED BY <2>1, <2>2, <2>3, KeyStep
<1>10. ASSUME NEW k \in ObjectKeys, BeginDelete(k)
      PROVE  StoreIInv'
  <2>0. StoreTypes /\ KeyFits(k)
    BY DEF StoreIInv
  <2>1. StoreTypes'
    BY <1>10, <2>0 DEF BeginDelete, StoreTypes, Saves
  <2>2. OnlyKey(k)
    BY <1>10, <2>0 DEF BeginDelete, StoreTypes, OnlyKey
  <2>3. KeyFits(k)'
    BY <1>10, <2>0 DEF BeginDelete, StoreTypes, Saves, KeyFits, SaveGoesOn, StoredFits, EraseFits, ObjectKeys
  <2> QED BY <2>1, <2>2, <2>3, KeyStep
<1>11. ASSUME NEW k \in ObjectKeys, NEW o \in {"true", "false", "retryable", "permanent"}, DeleteLocal(k, o)
      PROVE  StoreIInv'
  <2>0. StoreTypes /\ KeyFits(k)
    BY DEF StoreIInv
  <2>1. StoreTypes'
    BY <1>11, <2>0 DEF DeleteLocal, StoreTypes, Saves
  <2>2. OnlyKey(k)
    BY <1>11, <2>0 DEF DeleteLocal, StoreTypes, OnlyKey
  <2>3. KeyFits(k)'
    BY <1>11, <2>0 DEF DeleteLocal, StoreTypes, Saves, KeyFits, SaveGoesOn, StoredFits, EraseFits, ObjectKeys
  <2> QED BY <2>1, <2>2, <2>3, KeyStep
<1>12. ASSUME NEW k \in ObjectKeys, NEW s \in {0, 200, 401, 404, 429, 503}, NEW done \in BOOLEAN, DeleteSupabase(k, s, done)
      PROVE  StoreIInv'
  <2>0. StoreTypes /\ KeyFits(k)
    BY DEF StoreIInv
  <2>1. StoreTypes'
    BY <1>12, <2>0 DEF DeleteSupabase, StoreTypes, Saves
  <2>2. OnlyKey(k)
    BY <1>12, <2>0 DEF DeleteSupabase, StoreTypes, OnlyKey
  <2>3. KeyFits(k)'
    BY <1>12, <2>0 DEF DeleteSupabase, StoreTypes, Saves, KeyFits, SaveGoesOn, StoredFits, EraseFits, ObjectKeys
  <2> QED BY <2>1, <2>2, <2>3, KeyStep
<1>13. ASSUME NEW b \in {"local", "supabase"}, Configure(b)
      PROVE  StoreIInv'
  <2>1. \A k \in ObjectKeys : KeyFits(k) /\ save[k].at = "none"
    BY <1>13 DEF Configure, StoreIInv, KeyFits, StoredFits
  <2>2. StoreTypes'
    BY <1>13 DEF Configure, StoreIInv, StoreTypes
  <2> QED BY <1>13, <2>1, <2>2 DEF Configure, StoreIInv, KeyFits, SaveGoesOn, StoredFits, EraseFits
\* Readers change nothing but their own state.
<1>14. ASSUME UNCHANGED <<backend, stored, temp, save, erase>>,
              fetch'.at \in {"none", "open", "copying", "ready", "failed"}
       PROVE  StoreIInv'
  BY <1>14 DEF StoreIInv, StoreTypes, KeyFits, SaveGoesOn, StoredFits, EraseFits
<1>15. ASSUME NEW k \in ObjectKeys, OpenRange(k) \/ Materialize(k)
       PROVE  StoreIInv'
  <2>1. fetch'.at \in {"open", "copying", "ready", "failed"}
    BY <1>15 DEF OpenRange, Materialize, NoFetch
  <2> QED BY <1>14, <1>15, <2>1 DEF OpenRange, Materialize
<1>16. ASSUME NEW ok \in BOOLEAN, CopyToTemp(ok)
       PROVE  StoreIInv'
  <2>1. fetch'.at \in {"ready", "failed"}
    BY <1>16 DEF CopyToTemp
  <2> QED BY <1>14, <1>16, <2>1 DEF CopyToTemp
<1>17. CASE EndFetch
  BY <1>14, <1>17 DEF EndFetch, NoFetch
<1>18. CASE UNCHANGED storeVars
  BY <1>14, <1>18 DEF storeVars, StoreIInv, StoreTypes
<1> QED BY <1>1, <1>2, <1>3, <1>4, <1>5, <1>6, <1>7, <1>8, <1>9, <1>10, <1>11, <1>12, <1>13, <1>15, <1>16, <1>17, <1>18 DEF StoreNext

\* The stores keep what save reports whole, show no part of an upload under its key, keep no
\* temporary file of a call that ended, and what delete reports gone is gone, for any keys and
\* limits, on both backends (save, store, delete).
THEOREM StoresCorrect == StoreSpec => []StoreInv
<1>1. StoreIInv => StoreInv
  <2> SUFFICES ASSUME StoreIInv PROVE StoreInv
    OBVIOUS
  <2>1. StoreTypeOK
    BY DEF StoreIInv, StoreTypes, StoreTypeOK, Saves
  <2>2. SavedIsWhole
    BY DEF StoreIInv, StoreTypes, KeyFits, SaveGoesOn, StoredFits, SavedIsWhole, ObjectKeys
  <2>3. NothingHalfWritten
    BY DEF StoreIInv, StoreTypes, KeyFits, StoredFits, NothingHalfWritten, ObjectKeys
  <2>4. DeletedIsGone
    BY DEF StoreIInv, KeyFits, EraseFits, DeletedIsGone
  <2> QED BY <2>1, <2>2, <2>3, <2>4 DEF StoreInv
<1> QED BY <1>1, StoreStart, StoreStep, PTL DEF StoreSpec

-----------------------------------------------------------------------------
(* The reconciliation of rows and objects (StorageReconciliation).         *)

ReconcileSpec == ReconcileInit /\ [][ReconcileNext]_reconcileVars

StoredObjects == [there : BOOLEAN, old : BOOLEAN, damage : {"none", "size", "content"}]

\* Uploads in progress and queued erasures have no row, and no object is old while it is uploaded.
ServiceFits ==
    /\ rowOf \in [StoredKeys -> SUBSET {"row", "size", "sha256"}]
    /\ object \in [StoredKeys -> StoredObjects]
    /\ uploading \in SUBSET StoredKeys /\ erasing \in SUBSET StoredKeys
    /\ uploading \cap erasing = {}
    /\ \A k \in uploading \cup erasing : rowOf[k] = {}
    /\ \A k \in StoredKeys : /\ rowOf[k] = {} \/ "row" \in rowOf[k]
                             /\ object[k].there \/ object[k] = NoObject
                             /\ k \in uploading => ~ object[k].old

\* The listing tells of an object what it is.
ListedRight(k) ==
    /\ k \in DOMAIN run.listed <=> object[k].there
    /\ k \in DOMAIN run.listed => run.listed[k] = object[k]

\* The issues tell of a key what its row and its object are.
IssuesRight(k) ==
    LET row == rowOf[k] # {}
        here == object[k]
    IN  /\ k \notin UnsafeKeys =>
              /\ <<k, "missing">> \in report.issues <=> row /\ ~ here.there
              /\ <<k, "orphan">> \in report.issues <=> ~ row /\ here.there /\ k \in run.aged
              /\ <<k, "size_mismatch">> \in report.issues
                    <=> row /\ here.there /\ here.damage = "size" /\ "size" \in rowOf[k]
              /\ row /\ here.there /\ here.damage # "none" /\ LocalStore /\ "sha256" \in rowOf[k]
                    => <<k, "hash_mismatch">> \in report.issues
        /\ row /\ k \in UnsafeKeys => <<k, "invalid_key">> \in report.issues
        /\ ~ row /\ here.there /\ k \in run.aged => <<k, "orphan">> \in report.issues

\* What the run knows of a key that did not change since it began.
KeyKnown(k) ==
    /\ k \in run.aged <=> object[k].there /\ object[k].old
    /\ report.status # "INCOMPLETE" =>
          /\ run.at \in {"audio_list", "audio_rows"} /\ k \in AudioKeys \ run.todo => ListedRight(k)
          /\ run.at \in {"book_list", "book_rows"} /\ k \in BookKeys \ run.todo => ListedRight(k)
          /\ run.at \in {"book_list", "book_rows", "done"} /\ k \in AudioKeys => IssuesRight(k)
          /\ run.at = "done" /\ k \in BookKeys => IssuesRight(k)

ReportFits ==
    /\ run = [at |-> run.at, listed |-> run.listed, aged |-> run.aged, todo |-> run.todo]
    /\ report = [status |-> report.status, issues |-> report.issues]
    /\ run.at \in {"idle", "audio_list", "audio_rows", "book_list", "book_rows", "done"}
    /\ report.status \in {"none", "PASS", "FAIL", "INCOMPLETE"}
    /\ run.at \in {"audio_rows", "book_rows"} => run.todo = {}
    /\ run.at \in {"audio_list", "book_list"} => DOMAIN run.listed \cap run.todo = {}
    /\ run.at \notin {"idle", "done"} => report.status \in {"PASS", "INCOMPLETE"}
    /\ run.at \in {"audio_list", "audio_rows"} /\ report.status # "INCOMPLETE" => report.issues = {}
    /\ run.at \in {"book_list", "book_rows"} /\ report.status # "INCOMPLETE" =>
          \A k \in BookKeys : \A i : <<k, i>> \notin report.issues
    /\ run.at = "done" /\ report.status = "PASS" => report.issues = {}

ReconcileIInv ==
    /\ ServiceFits /\ ReportFits
    /\ run.at # "idle" => \A k \in StoredKeys \ touched : KeyKnown(k)

LEMMA ReconcileStart == ReconcileInit => ReconcileIInv
<1> SUFFICES ASSUME ReconcileInit PROVE ReconcileIInv
  OBVIOUS
<1>1. run.at = "idle" /\ ReportFits
  BY DEF ReconcileInit, ReportFits, NoRun, NoReport
<1>2. NoObject \in StoredObjects
  BY DEF NoObject, StoredObjects
<1>3. ServiceFits
  BY <1>2 DEF ReconcileInit, ServiceFits, StoredObjects
<1> QED BY <1>1, <1>3 DEF ReconcileIInv

\* A step of the service touches one key, and leaves run, report and the other keys alone.
LEMMA ServiceStep ==
    ASSUME ReconcileIInv, ServiceFits', UNCHANGED <<run, report>>, NEW k \in StoredKeys, Touch(k),
           \A j \in StoredKeys \ {k} : rowOf'[j] = rowOf[j] /\ object'[j] = object[j]
    PROVE  ReconcileIInv'
<1>1. ReportFits'
  BY DEF ReconcileIInv, ReportFits
<1>2. ASSUME run.at # "idle", NEW j \in StoredKeys \ touched' PROVE KeyKnown(j)'
  <2>1. j # k /\ j \in StoredKeys \ touched
    BY <1>2 DEF Touch
  <2>2. KeyKnown(j) /\ rowOf'[j] = rowOf[j] /\ object'[j] = object[j]
    BY <1>2, <2>1 DEF ReconcileIInv
  <2> QED BY <2>2 DEF KeyKnown, ListedRight, IssuesRight
<1> QED BY <1>1, <1>2 DEF ReconcileIInv

LEMMA ReconcileStep == ReconcileIInv /\ [ReconcileNext]_reconcileVars => ReconcileIInv'
<1> SUFFICES ASSUME ReconcileIInv, [ReconcileNext]_reconcileVars PROVE ReconcileIInv'
  OBVIOUS
<1> USE ReconcileAssumption
<1>f. ServiceFits /\ ReportFits /\ (run.at # "idle" => \A k \in StoredKeys \ touched : KeyKnown(k))
  BY DEF ReconcileIInv
<1>1. ASSUME NEW k \in StoredKeys, Save(k) PROVE ReconcileIInv'
  <2> DEFINE saved == [object[k] EXCEPT !.there = TRUE]
  <2>0. /\ object' = [object EXCEPT ![k] = saved] /\ ~ object[k].there /\ rowOf[k] = {} /\ k \notin erasing
        /\ uploading' = uploading \cup {k} /\ UNCHANGED <<rowOf, erasing>>
    BY <1>1 DEF Save
  <2>3. saved \in StoredObjects /\ saved.there /\ ~ saved.old
    <3>1. object[k] = NoObject
      BY <1>f, <2>0 DEF ServiceFits
    <3>2. object[k] \in StoredObjects
      BY <1>f DEF ServiceFits
    <3>3. ~ object[k].old
      BY <3>1 DEF NoObject
    <3>4. saved \in StoredObjects /\ saved.there
      BY <3>2 DEF StoredObjects
    <3>5. saved.old = object[k].old
      BY <3>2 DEF StoredObjects
    <3> QED BY <3>3, <3>4, <3>5
  <2> HIDE DEF saved
  <2>2. \A j \in StoredKeys \ {k} : rowOf'[j] = rowOf[j] /\ object'[j] = object[j]
    BY <1>f, <2>0 DEF ServiceFits
  <2>1. ServiceFits'
    BY <1>f, <2>0, <2>2, <2>3 DEF ServiceFits
  <2> QED BY <1>1, <2>1, <2>2, ServiceStep DEF Save
<1>2. ASSUME NEW k \in StoredKeys, NEW recorded \in {{}, {"size"}, {"size", "sha256"}}, Publish(k, recorded)
      PROVE  ReconcileIInv'
  <2>0. {"row"} \cup recorded \in SUBSET {"row", "size", "sha256"}
    OBVIOUS
  <2>1. ServiceFits'
    BY <1>2, <1>f, <2>0 DEF Publish, ServiceFits
  <2>2. \A j \in StoredKeys \ {k} : rowOf'[j] = rowOf[j] /\ object'[j] = object[j]
    BY <1>2, <1>f DEF Publish, ServiceFits
  <2> QED BY <1>2, <2>1, <2>2, ServiceStep DEF Publish
<1>3. ASSUME NEW k \in StoredKeys, DeleteRow(k) PROVE ReconcileIInv'
  <2>1. ServiceFits'
    BY <1>3, <1>f DEF DeleteRow, ServiceFits
  <2>2. \A j \in StoredKeys \ {k} : rowOf'[j] = rowOf[j] /\ object'[j] = object[j]
    BY <1>3, <1>f DEF DeleteRow, ServiceFits
  <2> QED BY <1>3, <2>1, <2>2, ServiceStep DEF DeleteRow
<1>4. ASSUME NEW k \in StoredKeys, Erase(k) PROVE ReconcileIInv'
  <2>1. ServiceFits'
    BY <1>4, <1>f DEF Erase, ServiceFits, StoredObjects, NoObject
  <2>2. \A j \in StoredKeys \ {k} : rowOf'[j] = rowOf[j] /\ object'[j] = object[j]
    BY <1>4, <1>f DEF Erase, ServiceFits
  <2> QED BY <1>4, <2>1, <2>2, ServiceStep DEF Erase
<1>5. ASSUME NEW k \in StoredKeys, Abandon(k) PROVE ReconcileIInv'
  <2>1. ServiceFits'
    BY <1>5, <1>f DEF Abandon, ServiceFits
  <2>2. ReportFits'
    BY <1>5, <1>f DEF Abandon, ReportFits
  <2> QED BY <1>5, <1>f, <2>1, <2>2 DEF Abandon, ReconcileIInv, KeyKnown, ListedRight, IssuesRight
<1>6. ASSUME NEW k \in StoredKeys, NEW d \in {"lost", "size", "content"}, Damage(k, d)
      PROVE  ReconcileIInv'
  <2> DEFINE now2 == IF d = "lost" THEN NoObject ELSE [object[k] EXCEPT !.damage = d]
  <2>0. object' = [object EXCEPT ![k] = now2] /\ object[k].there /\ rowOf[k] # {} /\ UNCHANGED <<rowOf, uploading, erasing>>
    BY <1>6 DEF Damage
  <2>1. /\ now2 \in StoredObjects /\ (now2.there \/ now2 = NoObject)
        /\ k \notin uploading
    BY <1>6, <1>f, <2>0 DEF ServiceFits, StoredObjects, NoObject
  <2> HIDE DEF now2
  <2>2. \A j \in StoredKeys \ {k} : rowOf'[j] = rowOf[j] /\ object'[j] = object[j]
    BY <1>f, <2>0 DEF ServiceFits
  <2>3. ServiceFits'
    BY <1>f, <2>0, <2>1, <2>2 DEF ServiceFits
  <2> QED BY <1>6, <2>2, <2>3, ServiceStep DEF Damage
<1>7. ASSUME NEW k \in StoredKeys, GetsOld(k) PROVE ReconcileIInv'
  <2> DEFINE aged == [object[k] EXCEPT !.old = TRUE]
  <2>0. /\ object' = [object EXCEPT ![k] = aged] /\ object[k].there /\ k \notin uploading
        /\ UNCHANGED <<rowOf, uploading, erasing>>
    BY <1>7 DEF GetsOld
  <2>3. aged \in StoredObjects /\ aged.there
    BY <1>f, <2>0 DEF ServiceFits, StoredObjects
  <2> HIDE DEF aged
  <2>4. \A j \in StoredKeys \ {k} : object'[j] = object[j]
    BY <1>f, <2>0 DEF ServiceFits
  <2>1. ServiceFits'
    BY <1>f, <2>0, <2>3, <2>4 DEF ServiceFits
  <2>2. ReportFits' /\ run'.at = "idle"
    BY <1>7, <1>f DEF GetsOld, ReportFits
  <2> QED BY <2>1, <2>2 DEF ReconcileIInv
<1>8. ASSUME NEW k \in StoredKeys, ListObject(k) PROVE ReconcileIInv'
  <2> DEFINE new == IF object[k].there
                    THEN [j \in DOMAIN run.listed \cup {k} |-> IF j = k THEN object[k] ELSE run.listed[j]]
                    ELSE run.listed
  <2>1. /\ run.at \in {"audio_list", "book_list"} /\ k \in run.todo
        /\ run' = [run EXCEPT !.todo = run.todo \ {k}, !.listed = new]
        /\ UNCHANGED <<rowOf, object, uploading, erasing, report, touched>>
    BY <1>8 DEF ListObject
  <2>2. /\ run'.at = run.at /\ run'.aged = run.aged /\ run'.todo = run.todo \ {k} /\ run'.listed = new
        /\ run' = [at |-> run'.at, listed |-> run'.listed, aged |-> run'.aged, todo |-> run'.todo]
    BY <1>f, <2>1 DEF ReportFits
  <2>3. ServiceFits' /\ ReportFits'
    <3>1. DOMAIN new \cap (run.todo \ {k}) = {}
      BY <1>f, <2>1 DEF ReportFits
    <3> HIDE DEF new
    <3> QED BY <1>f, <2>1, <2>2, <3>1 DEF ServiceFits, ReportFits
  <2>4. ASSUME NEW j \in StoredKeys \ touched PROVE KeyKnown(j)'
    <3>1. KeyKnown(j)
      BY <1>f, <2>1
    <3>2. j # k => /\ j \in DOMAIN new <=> j \in DOMAIN run.listed
                   /\ j \in DOMAIN run.listed => new[j] = run.listed[j]
      OBVIOUS
    <3>3. CASE j # k
      <4> HIDE DEF new
      <4> QED BY <2>1, <2>2, <3>1, <3>2, <3>3 DEF KeyKnown, ListedRight, IssuesRight
    <3>4. CASE j = k
      <4>1. /\ k \in run.aged <=> object[k].there /\ object[k].old
            /\ report.status # "INCOMPLETE" /\ run.at = "book_list" /\ k \in AudioKeys => IssuesRight(k)
        BY <2>1, <3>1, <3>4 DEF KeyKnown
      <4>2. IF object[k].there THEN k \in DOMAIN new /\ new[k] = object[k] ELSE new = run.listed
        OBVIOUS
      <4>3. k \in DOMAIN new <=> object[k].there
        BY <1>f, <2>1, <4>2 DEF ReportFits, ServiceFits, StoredObjects
      <4> HIDE DEF new
      <4> QED BY <2>1, <2>2, <3>4, <4>1, <4>2, <4>3 DEF KeyKnown, ListedRight, IssuesRight
    <3> QED BY <3>3, <3>4
  <2> QED BY <2>1, <2>3, <2>4 DEF ReconcileIInv
<1>9. ASSUME NEW k \in StoredKeys, SkipObject(k) PROVE ReconcileIInv'
  <2>1. /\ run.at \in {"audio_list", "book_list"} /\ k \in run.todo
        /\ run' = [run EXCEPT !.todo = run.todo \ {k}] /\ touched' = touched \cup {k}
        /\ UNCHANGED <<rowOf, object, uploading, erasing, report>>
    BY <1>9 DEF SkipObject, Touch
  <2>2. /\ run'.at = run.at /\ run'.aged = run.aged /\ run'.todo = run.todo \ {k} /\ run'.listed = run.listed
        /\ run' = [at |-> run'.at, listed |-> run'.listed, aged |-> run'.aged, todo |-> run'.todo]
    BY <1>f, <2>1 DEF ReportFits
  <2>3. ServiceFits' /\ ReportFits'
    BY <1>f, <2>1, <2>2 DEF ServiceFits, ReportFits
  <2>4. ASSUME NEW j \in StoredKeys \ touched' PROVE KeyKnown(j)'
    <3>1. KeyKnown(j) /\ j # k
      BY <1>f, <2>1, <2>4
    <3> QED BY <2>1, <2>2, <3>1 DEF KeyKnown, ListedRight, IssuesRight
  <2> QED BY <2>3, <2>4 DEF ReconcileIInv
<1>10. CASE StartRun
  <2>1. /\ run'.at = "audio_list" /\ run'.todo = AudioKeys /\ run'.listed = NoRun.listed
        /\ run'.aged = {k \in StoredKeys : object[k].there /\ object[k].old}
        /\ run' = [at |-> run'.at, listed |-> run'.listed, aged |-> run'.aged, todo |-> run'.todo]
        /\ report' = [status |-> "PASS", issues |-> {}]
        /\ UNCHANGED <<rowOf, object, uploading, erasing>>
    BY <1>10 DEF StartRun, NoRun
  <2>2. DOMAIN NoRun.listed = {}
    BY DEF NoRun
  <2>3. ServiceFits' /\ ReportFits'
    BY <1>f, <2>1, <2>2 DEF ServiceFits, ReportFits
  <2>4. \A k \in StoredKeys : KeyKnown(k)'
    BY <2>1 DEF KeyKnown
  <2> QED BY <2>3, <2>4 DEF ReconcileIInv
<1>11. CASE Listed
  <2>1. /\ run.at \in {"audio_list", "book_list"} /\ run.todo = {} /\ run'.at = RowsNext
        /\ run'.listed = run.listed /\ run'.aged = run.aged /\ run'.todo = run.todo
        /\ run' = [at |-> run'.at, listed |-> run'.listed, aged |-> run'.aged, todo |-> run'.todo]
        /\ UNCHANGED <<rowOf, object, uploading, erasing, report, touched>>
    BY <1>11, <1>f DEF Listed, ReportFits
  <2>2. ServiceFits' /\ ReportFits'
    BY <1>f, <2>1 DEF ServiceFits, ReportFits, RowsNext
  <2>3. ASSUME NEW j \in StoredKeys \ touched PROVE KeyKnown(j)'
    <3>1. KeyKnown(j)
      BY <1>f, <2>1
    <3> QED BY <2>1, <3>1 DEF KeyKnown, ListedRight, IssuesRight, RowsNext
  <2> QED BY <2>1, <2>2, <2>3 DEF ReconcileIInv
<1>12. CASE ListFails
  <2>1. /\ run.at \in {"audio_list", "book_list"} /\ run'.at = RowsNext
        /\ run'.aged = run.aged /\ run'.todo = {}
        /\ run' = [at |-> run'.at, listed |-> run'.listed, aged |-> run'.aged, todo |-> run'.todo]
        /\ report' = [status |-> report'.status, issues |-> report'.issues]
        /\ report'.status = "INCOMPLETE"
        /\ UNCHANGED <<rowOf, object, uploading, erasing, touched>>
    BY <1>12, <1>f DEF ListFails, ReportFits
  <2>2. ServiceFits' /\ ReportFits'
    BY <1>f, <2>1 DEF ServiceFits, ReportFits, RowsNext
  <2>3. ASSUME NEW j \in StoredKeys \ touched PROVE KeyKnown(j)'
    <3>1. KeyKnown(j)
      BY <1>f, <2>1
    <3> QED BY <2>1, <3>1 DEF KeyKnown
  <2> QED BY <2>1, <2>2, <2>3 DEF ReconcileIInv
<1>13. CASE CompareRows
  <2> DEFINE K == KeysOf(DomainOf(run.at))
             rows == {k \in K : rowOf[k] # {}}
             matched == {k \in rows \ UnsafeKeys : k \in DOMAIN run.listed}
             found == report.issues \cup (UNION {{<<k, i>> : i \in RowIssues(k)} : k \in rows})
                                    \cup {<<k, "orphan">> : k \in Orphans(K, matched)}
  <2>1. /\ run.at \in {"audio_rows", "book_rows"}
        /\ report' = [issues |-> found,
                      status |-> IF run.at = "book_rows" /\ report.status # "INCOMPLETE" /\ found # {}
                                 THEN "FAIL" ELSE report.status]
        /\ run' = IF run.at = "audio_rows" THEN [run EXCEPT !.at = "book_list", !.todo = BookKeys,
                                                            !.listed = NoRun.listed]
                  ELSE [run EXCEPT !.at = "done", !.listed = NoRun.listed]
        /\ UNCHANGED <<rowOf, object, uploading, erasing, touched>>
    BY <1>13 DEF CompareRows
  \* The pairs the comparison adds, key by key.
  <2>2. ASSUME NEW k, NEW i
        PROVE  <<k, i>> \in found <=>
                  \/ <<k, i>> \in report.issues
                  \/ k \in rows /\ i \in RowIssues(k)
                  \/ i = "orphan" /\ k \in Orphans(K, matched)
    <3> HIDE DEF rows, matched, K
    <3> DEFINE ofRows == (UNION {{<<j, h>> : h \in RowIssues(j)} : j \in rows})
               ofObjects == {<<j, "orphan">> : j \in Orphans(K, matched)}
    <3>1. <<k, i>> \in ofRows <=> k \in rows /\ i \in RowIssues(k)
      OBVIOUS
    <3>2. <<k, i>> \in ofObjects <=> i = "orphan" /\ k \in Orphans(K, matched)
      OBVIOUS
    <3>3. found = report.issues \cup ofRows \cup ofObjects
      OBVIOUS
    <3> HIDE DEF found, ofRows, ofObjects
    <3> QED BY <3>1, <3>2, <3>3
  <2>3. /\ run'.aged = run.aged /\ run'.listed = NoRun.listed /\ DOMAIN NoRun.listed = {}
        /\ run'.at = IF run.at = "audio_rows" THEN "book_list" ELSE "done"
        /\ run.at = "audio_rows" => run'.todo = BookKeys
        /\ run' = [at |-> run'.at, listed |-> run'.listed, aged |-> run'.aged, todo |-> run'.todo]
    BY <1>f, <2>1 DEF ReportFits, NoRun
  <2>4. /\ report'.issues = found
        /\ report' = [status |-> report'.status, issues |-> report'.issues]
        /\ report'.status = "INCOMPLETE" <=> report.status = "INCOMPLETE"
        /\ report'.status = "PASS" => report.status = "PASS" /\ (run.at = "book_rows" => found = {})
        /\ report'.status \in {"PASS", "FAIL", "INCOMPLETE"}
        /\ run.at = "audio_rows" => report'.status \in {"PASS", "INCOMPLETE"}
    <3> HIDE DEF found
    <3> QED BY <1>f, <2>1 DEF ReportFits
  <2>5. K = IF run.at = "audio_rows" THEN AudioKeys ELSE BookKeys
    BY <2>1 DEF KeysOf, DomainOf
  <2>6. \A k : (k \in rows => k \in K) /\ (k \in Orphans(K, matched) => k \in K)
    BY DEF Orphans
  <2> HIDE DEF found
  <2>7. ServiceFits' /\ ReportFits'
    <3>1. ServiceFits'
      BY <1>f, <2>1 DEF ServiceFits
    <3>2. run'.at = "book_list" /\ report'.status # "INCOMPLETE" =>
             \A k \in BookKeys : \A i : <<k, i>> \notin report'.issues
      <4> SUFFICES ASSUME run.at = "audio_rows", report.status # "INCOMPLETE", NEW k \in BookKeys, NEW i
                   PROVE  <<k, i>> \notin found
        BY <2>1, <2>3, <2>4
      <4>1. report.issues = {} /\ k \notin K
        BY <1>f, <2>5 DEF ReportFits
      <4> QED BY <2>2, <2>6, <4>1
    <3>3. run'.at = "done" /\ report'.status = "PASS" => report'.issues = {}
      BY <2>1, <2>3, <2>4
    <3> QED BY <2>1, <2>3, <2>4, <3>1, <3>2, <3>3 DEF ReportFits
  <2>8. ASSUME NEW k \in StoredKeys \ touched PROVE KeyKnown(k)'
    <3>1. KeyKnown(k) /\ ServiceFits /\ ReportFits
      BY <1>f, <2>1
    <3>2. CASE report.status = "INCOMPLETE"
      BY <2>1, <2>3, <2>4, <3>1, <3>2 DEF KeyKnown
    <3>3. ASSUME report.status # "INCOMPLETE", k \in K
          PROVE  IssuesRight(k)'
      <4>1. \A i : <<k, i>> \notin report.issues
        BY <2>1, <2>5, <3>1, <3>3 DEF ReportFits
      <4>2. ListedRight(k)
        BY <2>1, <2>5, <3>1, <3>3 DEF ReportFits, KeyKnown
      <4>3. /\ k \in rows <=> rowOf[k] # {}
            /\ k \in Orphans(K, matched) <=>
                  object[k].there /\ k \in run.aged /\ ~ (rowOf[k] # {} /\ k \notin UnsafeKeys)
        BY <3>3, <4>2 DEF Orphans, ListedRight
      <4> HIDE DEF rows, matched, K
      <4>4. \A i : <<k, i>> \in report'.issues <=>
                     \/ rowOf[k] # {} /\ i \in RowIssues(k)
                     \/ i = "orphan" /\ k \in Orphans(K, matched)
        BY <2>2, <2>4, <4>1, <4>3
      <4>5. CASE k \in UnsafeKeys
        <5>1. "invalid_key" \in RowIssues(k)
          BY <4>5 DEF RowIssues
        <5> QED BY <2>1, <2>3, <4>3, <4>4, <4>5, <5>1 DEF IssuesRight
      <4>6. CASE k \notin UnsafeKeys
        <5>1. /\ "orphan" \notin RowIssues(k)
              /\ "missing" \in RowIssues(k) <=> ~ object[k].there
              /\ "size_mismatch" \in RowIssues(k) <=>
                    object[k].there /\ "size" \in rowOf[k] /\ object[k].damage = "size"
              /\ "hash_mismatch" \in RowIssues(k) <=>
                    "sha256" \in rowOf[k] /\ LocalStore /\ object[k].there /\ object[k].damage # "none"
          BY <4>2, <4>6 DEF RowIssues, ListedRight
        <5>2. /\ <<k, "missing">> \in report'.issues <=> rowOf[k] # {} /\ "missing" \in RowIssues(k)
              /\ <<k, "size_mismatch">> \in report'.issues <=>
                    rowOf[k] # {} /\ "size_mismatch" \in RowIssues(k)
              /\ <<k, "hash_mismatch">> \in report'.issues <=>
                    rowOf[k] # {} /\ "hash_mismatch" \in RowIssues(k)
              /\ <<k, "orphan">> \in report'.issues <=> k \in Orphans(K, matched)
          BY <4>4, <5>1
        <5> QED BY <2>1, <2>3, <4>3, <4>6, <5>1, <5>2 DEF IssuesRight
      <4> QED BY <4>5, <4>6
    <3>4. ASSUME report.status # "INCOMPLETE", run.at = "book_rows", k \in AudioKeys
          PROVE  IssuesRight(k)'
      <4>1. k \notin K
        BY <2>5, <3>4
      <4>2. \A i : <<k, i>> \in report'.issues <=> <<k, i>> \in report.issues
        BY <2>2, <2>4, <2>6, <4>1
      <4>3. IssuesRight(k)
        BY <3>1, <3>4 DEF KeyKnown
      <4> QED BY <2>1, <2>3, <4>2, <4>3 DEF IssuesRight
    <3>5. CASE report.status # "INCOMPLETE"
      <4> HIDE DEF K, rows, matched
      <4>1. CASE run.at = "audio_rows"
        BY <2>1, <2>3, <2>5, <3>1, <3>3, <3>5, <4>1 DEF KeyKnown
      <4>2. CASE run.at = "book_rows"
        BY <2>1, <2>3, <2>5, <3>1, <3>3, <3>4, <3>5, <4>2 DEF KeyKnown
      <4> QED BY <2>1, <4>1, <4>2
    <3> QED BY <3>2, <3>5
  <2> QED BY <2>1, <2>7, <2>8 DEF ReconcileIInv
<1>14. CASE UNCHANGED reconcileVars
  <2>1. ServiceFits' /\ ReportFits'
    BY <1>14, <1>f DEF reconcileVars, ServiceFits, ReportFits
  <2>2. ASSUME NEW k \in StoredKeys, KeyKnown(k) PROVE KeyKnown(k)'
    BY <1>14, <2>2 DEF reconcileVars, KeyKnown, ListedRight, IssuesRight
  <2> QED BY <1>14, <1>f, <2>1, <2>2 DEF reconcileVars, ReconcileIInv
<1> QED BY <1>1, <1>2, <1>3, <1>4, <1>5, <1>6, <1>7, <1>8, <1>9, <1>10, <1>11, <1>12, <1>13, <1>14
        DEF ReconcileNext

\* A finished report is right about every key that did not change while it was made, and one
\* without issues means that rows and objects agree, for any keys, rows and interleaving with
\* uploads, deletions and losses (reconcile).
THEOREM ReconcileCorrect == ReconcileSpec => []ReconcileInv
<1>1. ReconcileIInv => ReconcileInv
  <2> SUFFICES ASSUME ReconcileIInv PROVE ReconcileInv
    OBVIOUS
  <2>0. ServiceFits /\ ReportFits /\ (run.at # "idle" => \A k \in StoredKeys \ touched : KeyKnown(k))
    BY DEF ReconcileIInv
  <2>1. ReconcileTypeOK
    BY <2>0 DEF ServiceFits, ReportFits, StoredObjects, ReconcileTypeOK
  <2>2. ASSUME run.at = "done", report.status # "INCOMPLETE", NEW k \in StoredKeys \ touched
        PROVE  IssuesRight(k) /\ (k \in run.aged <=> object[k].there /\ object[k].old)
    BY <2>0, <2>2 DEF KeyKnown, StoredKeys
  <2>3. ReportIsRight
    BY <2>0, <2>2 DEF ReportIsRight, IssuesRight, ServiceFits
  <2>4. PassMeansIntact
    <3> SUFFICES ASSUME run.at = "done", report.status = "PASS", NEW k \in StoredKeys \ touched
                 PROVE  /\ rowOf[k] # {} =>
                              /\ k \notin UnsafeKeys /\ object[k].there
                              /\ object[k].damage # "none" => ~ (LocalStore /\ "sha256" \in rowOf[k])
                        /\ rowOf[k] = {} /\ object[k].there => k \notin run.aged
      BY DEF PassMeansIntact
    <3>1. IssuesRight(k) /\ report.issues = {}
      BY <2>0, <2>2 DEF ReportFits
    <3> QED BY <3>1 DEF IssuesRight
  <2> QED BY <2>1, <2>3, <2>4 DEF ReconcileInv
<1> QED BY <1>1, ReconcileStart, ReconcileStep, PTL DEF ReconcileSpec

-----------------------------------------------------------------------------
(* Where a quotation stands (EvidenceRecovery).                            *)

EvidenceSpec == EvidenceInit /\ [][EvidenceNext]_evidenceVars

\* What the recovery of a span says of it.
RecoveryOf(s) ==
    [verdict |-> RecoverOffsets(s).verdict, start |-> RecoverOffsets(s).start, end |-> RecoverOffsets(s).end,
     accepted |-> /\ ~Quarantined(RecoverOffsets(s).verdict)
                  /\ ValidEvidence(s, RecoverOffsets(s).start, RecoverOffsets(s).end)]

AnyText(t) == \E S : t \in Seq(S)

EvidenceIInv ==
    /\ spans = {} \/ \E s \in Span : spans = {s}
    /\ AnyText(rawText) /\ AnyText(readableText)
    /\ recovery = NoVerdict \/ (spans # {} /\ \A s \in spans : recovery = RecoveryOf(s))

LEMMA TextsAreSequences == \A n \in Int : \A t \in TextsUpTo(n) : t \in Seq(Letters)
  BY DEF TextsUpTo

LEMMA QuotationIsText == \A s \in Span : AnyText(s.text)
  BY TextsAreSequences, TextAssumption DEF Span, AnyText

\* A quotation occurs at a position if the text has its letters from there on.
LEMMA OccursAt ==
    ASSUME NEW S, NEW text \in Seq(S), NEW Q, NEW quote \in Seq(Q), NEW p \in Nat,
           p + Len(quote) <= Len(text)
    PROVE  (SubSeq(text, p + 1, p + Len(quote)) = quote) <=> (\A i \in 1..Len(quote) : text[p + i] = quote[i])
<1> DEFINE u == S \cup Q
           cut == SubSeq(text, p + 1, p + Len(quote))
<1>1. Len(quote) \in Nat /\ Len(text) \in Nat
  BY LenProperties
<1>2. text \in Seq(u) /\ quote \in Seq(u)
  BY SeqMonotonic
<1>3. \A i \in (p + 1) .. (p + Len(quote)) : text[i] \in u
  BY <1>1, <1>2, ElementOfSeq
<1>4. /\ cut \in Seq(u) /\ Len(cut) = IF p + 1 <= p + Len(quote) THEN (p + Len(quote)) - (p + 1) + 1 ELSE 0
      /\ \A i \in 1 .. ((p + Len(quote)) - (p + 1) + 1) : cut[i] = text[(p + 1) + i - 1]
  <2> p + 1 \in Int /\ p + Len(quote) \in Int
    BY <1>1
  <2> QED BY <1>3, SubSeqProperties
<1>5. Len(cut) = Len(quote) /\ \A i \in 1..Len(quote) : cut[i] = text[p + i]
  <2> HIDE DEF cut
  <2>1. (p + Len(quote)) - (p + 1) + 1 = Len(quote) /\ (p + 1 <= p + Len(quote) <=> Len(quote) # 0)
    BY <1>1
  <2>2. \A i \in 1..Len(quote) : (p + 1) + i - 1 = p + i
    BY <1>1
  <2> QED BY <1>1, <1>4, <2>1, <2>2
<1> HIDE DEF cut, u
<1>6. (cut = quote) <=> \A i \in 1..Len(quote) : cut[i] = quote[i]
  BY <1>2, <1>4, <1>5, SeqEqual
<1> QED BY <1>5, <1>6 DEF cut

\* The positions the recovery finds are the places of the property.
LEMMA Places ==
    ASSUME NEW text, AnyText(text), NEW quote, AnyText(quote)
    PROVE  AllOccurrences(text, quote) =
              {p \in 0..Len(text) : /\ p + Len(quote) <= Len(text)
                                    /\ \A i \in 1..Len(quote) : text[p + i] = quote[i]}
<1>1. PICK S : text \in Seq(S)
  BY DEF AnyText
<1>2. PICK Q : quote \in Seq(Q)
  BY DEF AnyText
<1>3. Len(quote) \in Nat /\ Len(text) \in Nat
  BY <1>1, <1>2, LenProperties
<1>4. \A p : p \in 0..(Len(text) - Len(quote)) <=> p \in 0..Len(text) /\ p + Len(quote) <= Len(text)
  BY <1>3
<1>5. \A p \in 0..Len(text) : p + Len(quote) <= Len(text)
         => ((SubSeq(text, p + 1, p + Len(quote)) = quote) <=> (\A i \in 1..Len(quote) : text[p + i] = quote[i]))
  BY <1>1, <1>2, <1>3, OccursAt
<1> QED BY <1>4, <1>5, Zenon DEF AllOccurrences

LEMMA NoTextIsText == AnyText(NoText)
<1>1. \A x : <<x>> \in Seq({x})
  OBVIOUS
<1> QED BY <1>1 DEF NoText, AnyText

LEMMA EvidenceStart == EvidenceInit => EvidenceIInv
<1> SUFFICES ASSUME EvidenceInit PROVE EvidenceIInv
  OBVIOUS
<1>1. AnyText(<<>>)
  BY EmptySeq DEF AnyText
<1> QED BY <1>1, NoTextIsText DEF EvidenceInit, EvidenceIInv, AnyText

LEMMA EvidenceStep == EvidenceIInv /\ [EvidenceNext]_evidenceVars => EvidenceIInv'
<1> SUFFICES ASSUME EvidenceIInv, [EvidenceNext]_evidenceVars PROVE EvidenceIInv'
  OBVIOUS
<1>1. CASE UNCHANGED evidenceVars
  <2>1. rawText' = rawText /\ readableText' = readableText /\ spans' = spans /\ recovery' = recovery
    BY <1>1 DEF evidenceVars
  <2>2. \A s \in spans : RecoveryOf(s)' = RecoveryOf(s)
    BY <2>1 DEF RecoveryOf, RecoverOffsets, ValidEvidence, Declared, Opposite
  <2>3. AnyText(rawText)' /\ AnyText(readableText)'
    BY <2>1 DEF EvidenceIInv, AnyText
  <2>4. (recovery = NoVerdict \/ (spans # {} /\ \A s \in spans : recovery = RecoveryOf(s)))'
    BY <2>1, <2>2 DEF EvidenceIInv
  <2> QED BY <2>1, <2>3, <2>4 DEF EvidenceIInv
<1>2. ASSUME NEW s \in Span, NEW raw \in TextsUpTo(MaxText), NEW readable \in TextsUpTo(MaxText - 1) \cup {NoText},
             ProposeSpan(s, raw, readable)
      PROVE  EvidenceIInv'
  <2>1. spans = {} /\ spans' = {s} /\ rawText' = raw /\ readableText' = readable /\ recovery' = recovery
    BY <1>2 DEF ProposeSpan
  <2>2. recovery = NoVerdict
    BY <2>1 DEF EvidenceIInv
  <2>3. AnyText(raw)
    BY TextsAreSequences, TextAssumption DEF AnyText
  <2>4. AnyText(readable)
    <3>1. CASE readable = NoText
      <4> QED BY <3>1, NoTextIsText
    <3>2. CASE readable \in TextsUpTo(MaxText - 1)
      <4>1. MaxText - 1 \in Int
        BY TextAssumption
      <4> QED BY <3>2, <4>1, TextsAreSequences DEF AnyText
    <3> QED BY <3>1, <3>2
  <2>5. AnyText(rawText)' /\ AnyText(readableText)'
    BY <2>1, <2>3, <2>4
  <2> QED BY <2>1, <2>2, <2>5 DEF EvidenceIInv
<1>3. ASSUME NEW s \in spans, RecoverSpan(s) PROVE EvidenceIInv'
  <2>1. rawText' = rawText /\ readableText' = readableText /\ spans' = spans /\ spans = {s}
    BY <1>3 DEF RecoverSpan, EvidenceIInv
  <2>2. recovery' = RecoveryOf(s)
    BY <1>3 DEF RecoverSpan, RecoveryOf
  <2>3. RecoveryOf(s)' = RecoveryOf(s)
    BY <2>1 DEF RecoveryOf, RecoverOffsets, ValidEvidence, Declared, Opposite
  <2>4. \A x \in spans' : recovery' = RecoveryOf(x)'
    BY <2>1, <2>2, <2>3
  <2> QED BY <2>1, <2>4 DEF EvidenceIInv, AnyText
<1> QED BY <1>1, <1>2, <1>3 DEF EvidenceNext

-----------------------------------------------------------------------------
Found(s) == AllOccurrences(Declared(s), s.text)

\* The answer for a span whose segment, text and layer are there.
SearchedFor(s, at) ==
    IF OffsetsMatch(Declared(s), s.text, s.start, s.end) THEN Kept(s, "already_valid")
    ELSE IF Found(s) = {}
    THEN Kept(s, IF InText(s.text, Opposite(s)) THEN "wrong_source_layer" ELSE "missing")
    ELSE IF \A p \in Found(s) : p = at
    THEN [verdict |-> "recovered", start |-> at, end |-> at + Len(s.text)]
    ELSE [verdict |-> "ambiguous", start |-> NoOffset, end |-> NoOffset]

LEMMA RecoveryIsSearch ==
    ASSUME NEW s \in Span, s.known, s.text # <<>>, s.layer # "other", Declared(s) # NoText
    PROVE  RecoverOffsets(s) = SearchedFor(s, CHOOSE p \in Found(s) : TRUE)
  BY Zenon DEF RecoverOffsets, SearchedFor, Found

\* What is not quarantined was looked for in the layer it declares.
LEMMA RecoveredSpan ==
    ASSUME NEW s \in Span, ~ Quarantined(RecoverOffsets(s).verdict)
    PROVE  /\ s.known /\ s.text # <<>> /\ s.layer \in {"raw", "readable"} /\ Declared(s) # NoText
           /\ \/ /\ RecoverOffsets(s) = Kept(s, "already_valid")
                 /\ OffsetsMatch(Declared(s), s.text, s.start, s.end)
              \/ \E at \in Found(s) :
                    /\ \A p \in Found(s) : p = at
                    /\ RecoverOffsets(s) = [verdict |-> "recovered", start |-> at, end |-> at + Len(s.text)]
<1> DEFINE at == CHOOSE p \in Found(s) : TRUE
<1>1. s.layer \in {"raw", "readable", "other"} /\ s.known \in BOOLEAN
  BY DEF Span
<1>2. s.known
  <2>1. ~ s.known => RecoverOffsets(s) = Kept(s, "unknown_segment")
    BY <1>1, Zenon DEF RecoverOffsets
  <2> QED BY <1>1, <2>1 DEF Kept, Quarantined
<1>3. s.text # <<>>
  <2>1. s.text = <<>> => RecoverOffsets(s) = Kept(s, "invalid_text")
    BY <1>1, <1>2, Zenon DEF RecoverOffsets
  <2> QED BY <2>1 DEF Kept, Quarantined
<1>4. s.layer # "other"
  <2>1. s.layer = "other" => RecoverOffsets(s) = Kept(s, "unrecoverable")
    BY <1>1, <1>2, <1>3, Zenon DEF RecoverOffsets
  <2> QED BY <2>1 DEF Kept, Quarantined
<1>5. Declared(s) # NoText
  <2>1. Declared(s) = NoText => RecoverOffsets(s) = Kept(s, "wrong_source_layer")
    BY <1>1, <1>2, <1>3, <1>4, Zenon DEF RecoverOffsets
  <2> QED BY <2>1 DEF Kept, Quarantined
<1>6. RecoverOffsets(s) = SearchedFor(s, at)
  BY <1>2, <1>3, <1>4, <1>5, RecoveryIsSearch
<1>7. Found(s) # {} => at \in Found(s)
  OBVIOUS
<1> HIDE DEF at
<1>8. \/ RecoverOffsets(s) = Kept(s, "already_valid") /\ OffsetsMatch(Declared(s), s.text, s.start, s.end)
      \/ /\ Found(s) # {} /\ (\A p \in Found(s) : p = at)
         /\ RecoverOffsets(s) = [verdict |-> "recovered", start |-> at, end |-> at + Len(s.text)]
  BY <1>6 DEF Kept, Quarantined, SearchedFor
<1> QED BY <1>1, <1>2, <1>3, <1>4, <1>5, <1>7, <1>8

Occurs(text, quote, p) == p + Len(quote) <= Len(text) /\ \A i \in 1..Len(quote) : text[p + i] = quote[i]

LEMMA DeclaredIsText ==
    ASSUME AnyText(rawText), AnyText(readableText), NEW s \in Span
    PROVE  AnyText(Declared(s)) /\ AnyText(s.text) /\ Len(s.text) \in Nat /\ Len(Declared(s)) \in Nat
           /\ s.start \in Int /\ s.end \in Int
<1>1. AnyText(Declared(s)) /\ AnyText(s.text)
  BY QuotationIsText DEF Declared
<1>2. s.start \in Int /\ s.end \in Int
  BY TextAssumption DEF Span, NoOffset
<1> QED BY <1>1, <1>2, LenProperties DEF AnyText

LEMMA FoundOccurs ==
    ASSUME AnyText(rawText), AnyText(readableText), NEW s \in Span
    PROVE  Found(s) = {p \in 0..Len(Declared(s)) : Occurs(Declared(s), s.text, p)}
  BY DeclaredIsText, Places DEF Found, Occurs

\* Offsets that match are a place of the text.
LEMMA MatchOccurs ==
    ASSUME AnyText(rawText), AnyText(readableText), NEW s \in Span,
           OffsetsMatch(Declared(s), s.text, s.start, s.end)
    PROVE  /\ s.start \in Found(s) /\ s.end = s.start + Len(s.text) /\ s.start >= 0
           /\ SubSeq(Declared(s), s.start + 1, s.end) = s.text /\ s.end <= Len(Declared(s))
<1>1. s.start \in Int /\ s.end \in Int /\ Len(s.text) \in Nat /\ Len(Declared(s)) \in Nat
  BY DeclaredIsText
<1>2. /\ 0 <= s.start /\ s.start < s.end /\ s.end <= Len(Declared(s))
      /\ s.end - s.start = Len(s.text) /\ SubSeq(Declared(s), s.start + 1, s.end) = s.text
  BY DEF OffsetsMatch
<1>3. s.end = s.start + Len(s.text) /\ s.start \in 0..(Len(Declared(s)) - Len(s.text))
  <2> DEFINE a == s.start  b == s.end  l == Len(s.text)  n == Len(Declared(s))
  <2>1. a \in Int /\ b \in Int /\ l \in Nat /\ n \in Nat /\ 0 <= a /\ b <= n /\ b - a = l
    BY <1>1, <1>2
  <2> HIDE DEF a, b, l, n
  <2>2. b = a + l /\ a \in 0..(n - l)
    BY <2>1
  <2> QED BY <2>2 DEF a, b, l, n
<1> QED BY <1>1, <1>2, <1>3 DEF Found, AllOccurrences

LEMMA AcceptedStands ==
    ASSUME AnyText(rawText), AnyText(readableText), NEW s \in Span, recovery = RecoveryOf(s), recovery.accepted
    PROVE  /\ s.layer \in {"raw", "readable"} /\ Declared(s) # NoText /\ s.text # <<>>
           /\ recovery.end = recovery.start + Len(s.text)
           /\ \A i \in 1..Len(s.text) : Declared(s)[recovery.start + i] = s.text[i]
           /\ <<recovery.start, recovery.end>> # <<s.start, s.end>> =>
                \A p \in 0..Len(Declared(s)) :
                   (p + Len(s.text) <= Len(Declared(s))
                    /\ \A i \in 1..Len(s.text) : Declared(s)[p + i] = s.text[i]) => p = recovery.start
<1>1. /\ recovery.start = RecoverOffsets(s).start /\ recovery.end = RecoverOffsets(s).end
      /\ ~ Quarantined(RecoverOffsets(s).verdict)
  BY DEF RecoveryOf
<1>2. s.layer \in {"raw", "readable"} /\ Declared(s) # NoText /\ s.text # <<>>
  BY <1>1, RecoveredSpan
<1>3. CASE RecoverOffsets(s) = Kept(s, "already_valid") /\ OffsetsMatch(Declared(s), s.text, s.start, s.end)
  <2>1. recovery.start = s.start /\ recovery.end = s.end
    BY <1>1, <1>3 DEF Kept
  <2>2. s.start \in Found(s) /\ s.end = s.start + Len(s.text)
    BY <1>3, MatchOccurs
  <2>3. \A i \in 1..Len(s.text) : Declared(s)[s.start + i] = s.text[i]
    BY <2>2, FoundOccurs DEF Occurs
  <2> QED BY <1>2, <2>1, <2>2, <2>3
<1>4. ASSUME NEW at \in Found(s), \A p \in Found(s) : p = at,
             RecoverOffsets(s) = [verdict |-> "recovered", start |-> at, end |-> at + Len(s.text)]
      PROVE  /\ recovery.end = recovery.start + Len(s.text)
             /\ \A i \in 1..Len(s.text) : Declared(s)[recovery.start + i] = s.text[i]
             /\ \A p \in 0..Len(Declared(s)) : Occurs(Declared(s), s.text, p) => p = recovery.start
  <2>1. recovery.start = at /\ recovery.end = at + Len(s.text)
    BY <1>1, <1>4
  <2>2. \A i \in 1..Len(s.text) : Declared(s)[at + i] = s.text[i]
    BY FoundOccurs DEF Occurs
  <2>3. \A p \in 0..Len(Declared(s)) : Occurs(Declared(s), s.text, p) => p = at
    BY <1>4, FoundOccurs
  <2> QED BY <2>1, <2>2, <2>3
<1> QED BY <1>1, <1>2, <1>3, <1>4, RecoveredSpan DEF Occurs

\* An answer that is not quarantined passes the check of the evidence.
LEMMA GoodIsAccepted ==
    ASSUME AnyText(rawText), AnyText(readableText), NEW s \in Span, recovery = RecoveryOf(s),
           ~ Quarantined(RecoverOffsets(s).verdict)
    PROVE  recovery.accepted
<1> SUFFICES ValidEvidence(s, RecoverOffsets(s).start, RecoverOffsets(s).end)
  BY DEF RecoveryOf
<1>1. s.known /\ Declared(s) # NoText /\ Len(s.text) \in Nat /\ Len(Declared(s)) \in Nat
  BY RecoveredSpan, DeclaredIsText
<1>2. ASSUME NEW at \in Found(s), RecoverOffsets(s).start = at, RecoverOffsets(s).end = at + Len(s.text)
      PROVE  ValidEvidence(s, RecoverOffsets(s).start, RecoverOffsets(s).end)
  <2>1. at \in 0..(Len(Declared(s)) - Len(s.text)) /\ SubSeq(Declared(s), at + 1, at + Len(s.text)) = s.text
    BY DEF Found, AllOccurrences
  <2>2. at # NoOffset /\ at + Len(s.text) # NoOffset /\ at + Len(s.text) <= Len(Declared(s))
    BY <1>1, <2>1 DEF NoOffset
  <2>3. InText(s.text, Declared(s))
    BY <1>1, <1>2 DEF InText, Found
  <2> QED BY <1>1, <1>2, <2>1, <2>2, <2>3 DEF ValidEvidence
<1>3. CASE RecoverOffsets(s) = Kept(s, "already_valid") /\ OffsetsMatch(Declared(s), s.text, s.start, s.end)
  <2>1. s.start \in Found(s) /\ s.end = s.start + Len(s.text)
    BY <1>3, MatchOccurs
  <2>2. RecoverOffsets(s).start = s.start /\ RecoverOffsets(s).end = s.end
    BY <1>3 DEF Kept
  <2> QED BY <1>2, <2>1, <2>2
<1>4. ASSUME NEW at \in Found(s),
             RecoverOffsets(s) = [verdict |-> "recovered", start |-> at, end |-> at + Len(s.text)]
      PROVE  ValidEvidence(s, RecoverOffsets(s).start, RecoverOffsets(s).end)
  <2>1. RecoverOffsets(s).start = at /\ RecoverOffsets(s).end = at + Len(s.text)
    BY <1>4
  <2> QED BY <1>2, <2>1
<1> QED BY <1>3, <1>4, RecoveredSpan

LEMMA UniqueIsKept ==
    ASSUME AnyText(rawText), AnyText(readableText), NEW s \in Span, recovery = RecoveryOf(s),
           s.known, s.text # <<>>, s.layer # "other", Declared(s) # NoText
    PROVE  /\ (\E p \in Found(s) : Found(s) = {p}) => recovery.accepted
           /\ recovery.verdict = "missing" => Found(s) = {} /\ ~ InText(s.text, Opposite(s))
<1> DEFINE at == CHOOSE p \in Found(s) : TRUE
<1>1. RecoverOffsets(s) = SearchedFor(s, at)
  BY RecoveryIsSearch
<1>2. recovery.verdict = RecoverOffsets(s).verdict
  BY DEF RecoveryOf
<1>3. ASSUME NEW p \in Found(s), Found(s) = {p} PROVE recovery.accepted
  <2>1. at \in Found(s)
    BY <1>3
  <2> HIDE DEF at
  <2>2. \A x \in Found(s) : x = at
    BY <1>3, <2>1
  <2>3. RecoverOffsets(s).verdict \in {"already_valid", "recovered"}
    BY <1>1, <1>3, <2>2 DEF SearchedFor, Kept
  <2> QED BY <2>3, GoodIsAccepted DEF Quarantined
<1>4. ASSUME recovery.verdict = "missing" PROVE Found(s) = {} /\ ~ InText(s.text, Opposite(s))
  <2> HIDE DEF at
  <2> QED BY <1>1, <1>2, <1>4 DEF SearchedFor, Kept
<1> QED BY <1>3, <1>4

\* Evidence that is accepted stands where its offsets say in the layer it declares, and what
\* occurs there once is accepted, for any letters and any length of segments and quotations
\* (recover_evidence_offsets, _validate_candidate_evidence).
THEOREM EvidenceCorrect == EvidenceSpec => []EvidenceInv
<1>1. EvidenceIInv => EvidenceInv
  <2> SUFFICES ASSUME EvidenceIInv PROVE EvidenceInv
    OBVIOUS
  <2>1. AnyText(rawText) /\ AnyText(readableText) /\ spans \subseteq Span
    BY DEF EvidenceIInv
  <2>2. CASE recovery = NoVerdict
    <3>1. ~ recovery.accepted
      BY <2>2 DEF NoVerdict
    <3> QED BY <2>2, <3>1, Zenon DEF EvidenceInv, EvidenceStandsThere, UniqueEvidenceIsKept
  <2>3. CASE \A s \in spans : recovery = RecoveryOf(s)
    <3>1. EvidenceStandsThere
      BY <2>1, <2>3, AcceptedStands DEF EvidenceStandsThere
    <3>2. ASSUME NEW s \in spans, s.known, s.text # <<>>, s.layer # "other", Declared(s) # NoText
          PROVE  LET places == {p \in 0..Len(Declared(s)) :
                                  /\ p + Len(s.text) <= Len(Declared(s))
                                  /\ \A i \in 1..Len(s.text) : Declared(s)[p + i] = s.text[i]}
                 IN  /\ (\E p \in places : places = {p}) => recovery.accepted
                     /\ recovery.verdict = "missing" => places = {} /\ ~InText(s.text, Opposite(s))
      <4>1. Found(s) = {p \in 0..Len(Declared(s)) :
                          /\ p + Len(s.text) <= Len(Declared(s))
                          /\ \A i \in 1..Len(s.text) : Declared(s)[p + i] = s.text[i]}
        BY <2>1, FoundOccurs DEF Occurs
      <4> QED BY <2>1, <2>3, <3>2, <4>1, UniqueIsKept
    <3>3. ASSUME NEW s \in spans, recovery.verdict \in {"already_valid", "recovered"} PROVE recovery.accepted
      <4>1. ~ Quarantined(RecoverOffsets(s).verdict)
        BY <2>3, <3>3 DEF Quarantined, RecoveryOf
      <4> QED BY <2>1, <2>3, <4>1, GoodIsAccepted
    <3>4. UniqueEvidenceIsKept
      BY <3>2, <3>3, Zenon DEF UniqueEvidenceIsKept
    <3> QED BY <3>1, <3>4 DEF EvidenceInv
  <2> QED BY <2>2, <2>3 DEF EvidenceIInv
<1> QED BY <1>1, EvidenceStart, EvidenceStep, PTL DEF EvidenceSpec

-----------------------------------------------------------------------------
(* What is kept of an extraction (ExtractionSalvage).                      *)

SalvageSpec == SalvageInit /\ [][SalvageNext]_salvageVars

\* The result of each stage.
PeopleKept == {"q"} \cup (IF PersonSound THEN {"p"} ELSE {})

Filtered ==
    [people |-> PeopleKept, spans |-> Spans, links |-> TRUE, kin |-> "p" \in PeopleKept,
     rel |-> RelationshipSound(PeopleKept, "p" \in PeopleKept), fact |-> FactSound(PeopleKept, Spans),
     story |-> StorySound(PeopleKept, Spans, FactSound(PeopleKept, Spans)), conflict |-> TRUE]

FactLeft  == Filtered.fact /\ CitesSomething(draft.fact.cites, ValidSpans(PeopleKept))
StoryLeft == Filtered.story /\ CitesSomething({1}, ValidSpans(PeopleKept))

Materialized ==
    [people |-> PeopleKept, spans |-> ValidSpans(PeopleKept), links |-> LinkHolds(PeopleKept, ValidSpans(PeopleKept)),
     kin |-> "p" \in PeopleKept /\ KinSupported(Filtered.rel), rel |-> Filtered.rel,
     fact |-> FactLeft, story |-> StoryLeft, conflict |-> Filtered.rel /\ FactLeft]

Finished ==
    [people |-> PeopleKept, spans |-> ValidSpans(PeopleKept), links |-> LinkHolds(PeopleKept, ValidSpans(PeopleKept)),
     kin |-> "p" \in PeopleKept /\ KinSupported(Filtered.rel), rel |-> Filtered.rel,
     fact |-> FactAgain(Materialized), story |-> StoryAgain(Materialized, FactAgain(Materialized)),
     conflict |-> Materialized.conflict /\ Filtered.rel /\ FactAgain(Materialized)]

SalvageIInv ==
    /\ phase \in {"parse", "filter", "materialize", "recheck", "accepted", "lost"}
    /\ phase # "parse" => draft \in Draft
    /\ phase \in {"parse", "filter"} => kept = NothingKept
    /\ phase = "materialize" => kept = Filtered
    /\ phase = "recheck" => kept = Materialized
    /\ phase \in {"accepted", "lost"} => kept = Finished
    /\ phase = "accepted" => FinalContract(Finished)
    /\ phase = "lost" => ~ FinalContract(Finished)

LEMMA SalvageStep == SalvageIInv /\ [SalvageNext]_salvageVars => SalvageIInv'
<1> SUFFICES ASSUME SalvageIInv, [SalvageNext]_salvageVars PROVE SalvageIInv'
  OBVIOUS
<1>1. ASSUME draft' = draft
      PROVE  Filtered' = Filtered /\ Materialized' = Materialized /\ Finished' = Finished
             /\ FinalContract(Finished)' = FinalContract(Finished)
  <2>1. PeopleKept' = PeopleKept /\ Filtered' = Filtered
    BY <1>1 DEF PeopleKept, Filtered, PersonSound, RelationshipSound, FactSound, StorySound, EventSound,
       DescriptionSound, Heard, Supported, SaidOf
  <2>2. ValidSpans(PeopleKept)' = ValidSpans(PeopleKept)
    BY <1>1, <2>1 DEF ValidSpans, FilterDerivations
  <2>3. Materialized' = Materialized
    BY <1>1, <2>1, <2>2 DEF Materialized, FactLeft, StoryLeft, KinSupported
  <2>4. Finished' = Finished
    BY <1>1, <2>1, <2>2, <2>3 DEF Finished, KinSupported, FactAgain, StoryAgain, FactSound, StorySound, EventSound,
       DescriptionSound, Heard, Supported, SaidOf
  <2>5. FinalContract(Finished)' = FinalContract(Finished)
    BY <1>1, <2>4 DEF FinalContract, FactSound, StorySound, EventSound, RelationshipSound, NamesHold, PrimaryName,
       DescriptionSound, Heard, Supported, SaidOf
  <2> QED BY <2>1, <2>3, <2>4, <2>5
<1>2. CASE UNCHANGED salvageVars
  BY <1>1, <1>2 DEF salvageVars, SalvageIInv
<1>3. ASSUME NEW d \in Draft, ParseCandidate(d), phase = "parse" PROVE SalvageIInv'
  BY <1>3 DEF ParseCandidate, SalvageIInv
<1>4. CASE FilterCandidate
  <2>1. draft' = draft /\ phase = "filter" /\ phase' = "materialize" /\ kept' = Filtered
    BY <1>4 DEF FilterCandidate, Filtered, PeopleKept
  <2> QED BY <1>1, <2>1 DEF SalvageIInv
<1>5. CASE MaterializeClaims
  <2>1. draft' = draft /\ phase = "materialize" /\ phase' = "recheck" /\ kept = Filtered
    BY <1>5 DEF MaterializeClaims, SalvageIInv
  <2>3. kept = [people |-> PeopleKept, spans |-> Spans, links |-> TRUE, kin |-> Filtered.kin, rel |-> Filtered.rel,
                fact |-> Filtered.fact, story |-> Filtered.story, conflict |-> TRUE]
    BY <2>1 DEF Filtered
  <2>2. kept' = Materialized
    BY <1>5, <2>3 DEF MaterializeClaims, Materialized, FactLeft, StoryLeft, ConflictHolds
  <2> QED BY <1>1, <2>1, <2>2 DEF SalvageIInv
<1>6. CASE FinishCandidate
  <2>1. draft' = draft /\ phase = "recheck" /\ kept = Materialized
    BY <1>6 DEF FinishCandidate, SalvageIInv
  <2> DEFINE k == [kept EXCEPT !.fact = FactAgain(kept), !.story = StoryAgain(kept, FactAgain(kept))]
             closed == [k EXCEPT !.conflict = @ /\ ConflictHolds(k)]
  <2>2. kept' = closed /\ phase' = IF FinalContract(closed) THEN "accepted" ELSE "lost"
    BY <1>6, Zenon DEF FinishCandidate
  <2>3. k = [Materialized EXCEPT !.fact = FactAgain(Materialized),
                                 !.story = StoryAgain(Materialized, FactAgain(Materialized))]
    BY <2>1
  <2>4. ConflictHolds(k) = (Filtered.rel /\ FactAgain(Materialized))
    BY <2>3 DEF ConflictHolds, Materialized
  <2>5. closed = Finished
    <3> HIDE DEF k
    <3> DEFINE c == k.conflict /\ ConflictHolds(k)
    <3>1. closed = [k EXCEPT !.conflict = c]
      OBVIOUS
    <3>2. k.conflict = Materialized.conflict
      BY <2>3 DEF Materialized
    <3>3. c = (Materialized.conflict /\ Filtered.rel /\ FactAgain(Materialized))
      BY <2>4, <3>2
    <3> HIDE DEF c, closed
    <3>4. closed = [Materialized EXCEPT !.fact = FactAgain(Materialized),
                              !.story = StoryAgain(Materialized, FactAgain(Materialized)), !.conflict = c]
      BY <2>3, <3>1
    <3> QED BY <3>3, <3>4 DEF Finished, Materialized
  <2> QED BY <1>1, <2>1, <2>2, <2>5 DEF SalvageIInv
<1> QED BY <1>2, <1>3, <1>4, <1>5, <1>6 DEF SalvageNext

\* The values the salvage computes with.
LEMMA PeopleKeptIs ==
    /\ PeopleKept \subseteq {"p", "q"} /\ "q" \in PeopleKept /\ ("p" \in PeopleKept <=> PersonSound)
  BY DEF PeopleKept

LEMMA ValidSpansAre ==
    /\ ValidSpans(PeopleKept) \subseteq Spans
    /\ \A s \in ValidSpans(PeopleKept) : s \in draft.about => PersonSound
  BY PeopleKeptIs DEF ValidSpans, FilterDerivations

\* What is left after the second filter, one by one.
LEMMA FinishedIs ==
    /\ Finished.people = PeopleKept /\ Finished.spans = ValidSpans(PeopleKept)
    /\ Finished.links = LinkHolds(PeopleKept, ValidSpans(PeopleKept))
    /\ Finished.kin = ("p" \in PeopleKept /\ KinSupported(Finished.rel))
    /\ Finished.rel = RelationshipSound(PeopleKept, "p" \in PeopleKept)
    /\ Finished.fact = (FactLeft /\ FactSound(PeopleKept, ValidSpans(PeopleKept)))
    /\ Finished.story = (StoryLeft /\ StorySound(PeopleKept, ValidSpans(PeopleKept), Finished.fact))
    /\ Finished.conflict = (Finished.rel /\ Finished.fact)
<1>1. /\ Materialized.people = PeopleKept /\ Materialized.spans = ValidSpans(PeopleKept)
      /\ Materialized.fact = FactLeft /\ Materialized.story = StoryLeft
      /\ Materialized.conflict = (Filtered.rel /\ FactLeft)
  BY DEF Materialized
<1>2. FactAgain(Materialized) = (FactLeft /\ FactSound(PeopleKept, ValidSpans(PeopleKept)))
  BY <1>1 DEF FactAgain
<1>3. StoryAgain(Materialized, FactAgain(Materialized))
         = (StoryLeft /\ StorySound(PeopleKept, ValidSpans(PeopleKept), FactAgain(Materialized)))
  BY <1>1 DEF StoryAgain
<1>4. /\ Finished.people = PeopleKept /\ Finished.spans = ValidSpans(PeopleKept)
      /\ Finished.links = LinkHolds(PeopleKept, ValidSpans(PeopleKept))
      /\ Finished.kin = ("p" \in PeopleKept /\ KinSupported(Filtered.rel)) /\ Finished.rel = Filtered.rel
      /\ Finished.fact = FactAgain(Materialized) /\ Finished.story = StoryAgain(Materialized, FactAgain(Materialized))
      /\ Finished.conflict = (Materialized.conflict /\ Filtered.rel /\ FactAgain(Materialized))
  BY DEF Finished
<1>5. Filtered.rel = RelationshipSound(PeopleKept, "p" \in PeopleKept)
  BY DEF Filtered
<1>6. (Materialized.conflict /\ Filtered.rel /\ FactAgain(Materialized)) = (Filtered.rel /\ FactAgain(Materialized))
  BY <1>1, <1>2
<1> QED BY <1>2, <1>3, <1>4, <1>5, <1>6

\* A fact that is sound rests on a span that is left and is about people who are.
LEMMA SoundFact ==
    ASSUME draft \in Draft, NEW cited, FactSound(PeopleKept, cited)
    PROVE  draft.fact.parts \subseteq PeopleKept /\ draft.fact.rests \in cited
<1>1. draft.fact.kind \in {"event", "description"}
  BY DEF Draft
<1>2. CASE draft.fact.kind = "event"
  BY <1>2 DEF FactSound, EventSound, Supported, ClaimSupport
<1>3. CASE draft.fact.kind = "description"
  BY <1>3 DEF FactSound, DescriptionSound, Supported, ClaimSupport, Heard
<1> QED BY <1>1, <1>2, <1>3

LEMMA FinishedIsClosed ==
    ASSUME draft \in Draft, kept = Finished, FinalContract(Finished), phase = "accepted"
    PROVE  ResultIsClosed
<1>1. kept.rel => {"p", "q"} \subseteq kept.people
  BY FinishedIs DEF RelationshipSound
<1>2. kept.fact => draft.fact.parts \subseteq kept.people /\ draft.fact.rests \in kept.spans
  BY FinishedIs, SoundFact
<1>3. kept.story /\ draft.fact.kind = "event" => kept.fact
  BY FinishedIs DEF StorySound
<1>4. kept.conflict => kept.rel /\ kept.fact
  BY FinishedIs
<1>5. kept.kin => kept.rel \/ draft.named = "speaker"
  BY FinishedIs DEF KinSupported
<1>6. \A s \in kept.spans : draft.from[s] \subseteq kept.spans
  BY DEF FinalContract
<1>7. \A s \in kept.spans : s \in draft.about => "p" \in kept.people
  BY FinishedIs, ValidSpansAre, PeopleKeptIs
<1> QED BY <1>1, <1>2, <1>3, <1>4, <1>5, <1>6, <1>7 DEF ResultIsClosed

\* A fact that is sound with the spans that are left was sound with all of them.
LEMMA SoundBefore ==
    ASSUME draft \in Draft, FactSound(PeopleKept, ValidSpans(PeopleKept))
    PROVE  FactLeft
<1>1. draft.fact.kind \in {"event", "description"} /\ draft.fact.rests \in draft.fact.cites
  BY DEF Draft
<1>2. ValidSpans(PeopleKept) \subseteq Spans
  BY ValidSpansAre
<1>3. Supported(ValidSpans(PeopleKept)) /\ FactSound(PeopleKept, Spans)
  <2>1. CASE draft.fact.kind = "event"
    BY <1>2, <2>1 DEF FactSound, EventSound, Supported, ClaimSupport
  <2>2. CASE draft.fact.kind = "description"
    BY <1>2, <2>2 DEF FactSound, DescriptionSound, Supported, ClaimSupport
  <2> QED BY <1>1, <2>1, <2>2
<1>4. CitesSomething(draft.fact.cites, ValidSpans(PeopleKept))
  BY <1>3 DEF Supported, ClaimSupport, CitesSomething
<1>5. Filtered.fact = FactSound(PeopleKept, Spans)
  BY DEF Filtered
<1> QED BY <1>3, <1>4, <1>5 DEF FactLeft

LEMMA FinishedSalvages ==
    ASSUME draft \in Draft, kept = Finished
    PROVE  SalvagesTheRest
<1>1. PersonSound => "p" \in kept.people
  BY FinishedIs, PeopleKeptIs
<1>2. FactSound(kept.people, kept.spans) => kept.fact
  BY FinishedIs, SoundBefore
<1>3. RelationshipSound(kept.people, TRUE) => kept.rel
  BY FinishedIs DEF RelationshipSound
<1> QED BY <1>1, <1>2, <1>3 DEF SalvagesTheRest

\* The parts of the contract that always hold.
LEMMA ContractHolds ==
    /\ Finished.fact => FactSound(Finished.people, Finished.spans)
    /\ Finished.story => StorySound(Finished.people, Finished.spans, Finished.fact)
    /\ Finished.conflict => ConflictHolds(Finished)
  BY FinishedIs DEF ConflictHolds

LEMMA LostFor ==
    ASSUME draft \in Draft, kept = Finished, ~ FinalContract(Finished)
    PROVE  LostOnlyForWhatIsNotRefiltered
<1>1. \/ Finished.rel /\ ~ RelationshipSound(Finished.people, Finished.links)
      \/ \E s \in Finished.spans : ~ (draft.from[s] \subseteq Finished.spans)
      \/ ~ NamesHold(Finished)
  BY ContractHolds DEF FinalContract
<1>2. CASE Finished.rel /\ ~ RelationshipSound(Finished.people, Finished.links)
  <2>1. draft.rel = "link" /\ {"p", "q"} \subseteq PeopleKept /\ ~ LinkHolds(PeopleKept, ValidSpans(PeopleKept))
    BY <1>2, FinishedIs DEF RelationshipSound
  <2> QED BY <1>2, <2>1, FinishedIs DEF LinkHolds, LostOnlyForWhatIsNotRefiltered
<1>3. ASSUME NEW s \in Finished.spans, NEW r \in draft.from[s], r \notin Finished.spans
      PROVE  LostOnlyForWhatIsNotRefiltered
  <2>1. s \in Spans /\ draft.from[s] \in {{}, {0}, {1}, {2}} /\ draft.from[1] # {1} /\ draft.from[2] # {2}
    BY FinishedIs, ValidSpansAre DEF Draft
  <2>2. s \in FilterDerivations({x \in Spans : x \in draft.about => "p" \in PeopleKept})
    BY FinishedIs DEF ValidSpans
  <2>3. r \in Spans
    BY <2>2 DEF FilterDerivations
  <2>4. s # r
    BY <2>1, <2>3, <1>3 DEF Spans
  <2> QED BY <1>3, <2>1, <2>3, <2>4 DEF LostOnlyForWhatIsNotRefiltered
<1>4. CASE ~ NamesHold(Finished)
  <2>1. "p" \in PeopleKept /\ ~ PrimaryName(Finished) /\ PersonSound
    BY <1>4, FinishedIs, PeopleKeptIs DEF NamesHold
  <2>2. draft.named \in {"name", "alias"}
    BY <2>1 DEF PersonSound, PrimaryName, Draft
  <2>3. draft.named = "name" => \E s \in draft.cites \cap Finished.spans : ~ draft.names[s]
    BY <2>1 DEF PrimaryName
  <2> QED BY <2>1, <2>2, <2>3, FinishedIs DEF LostOnlyForWhatIsNotRefiltered
<1> QED BY <1>1, <1>2, <1>3, <1>4

LEMMA SalvageStart == SalvageInit => SalvageIInv
  BY DEF SalvageInit, SalvageIInv

\* An accepted extraction refers to nothing that was dropped, nothing sound is dropped for
\* another's sake, and all of it is lost only for what is not filtered again
\* (process_extraction_candidate).
THEOREM SalvageCorrect == SalvageSpec => []SalvageInv
<1>1. SalvageIInv => SalvageInv
  <2> SUFFICES ASSUME SalvageIInv PROVE SalvageInv
    OBVIOUS
  <2>1. ResultIsClosed
    <3>1. CASE phase = "accepted"
      BY <3>1, FinishedIsClosed DEF SalvageIInv
    <3> QED BY <3>1 DEF ResultIsClosed
  <2>2. SalvagesTheRest
    <3>1. CASE phase \in {"accepted", "lost"}
      BY <3>1, FinishedSalvages DEF SalvageIInv
    <3> QED BY <3>1 DEF SalvagesTheRest
  <2>3. LostOnlyForWhatIsNotRefiltered
    <3>1. CASE phase = "lost"
      BY <3>1, LostFor DEF SalvageIInv
    <3> QED BY <3>1 DEF LostOnlyForWhatIsNotRefiltered
  <2> QED BY <2>1, <2>2, <2>3 DEF SalvageInv
<1> QED BY <1>1, SalvageStart, SalvageStep, PTL DEF SalvageSpec

\* Finding evidence and keeping what it carries share no state: a step is one of either.
GroundingSpec ==
    /\ EvidenceInit /\ SalvageInit
    /\ [][(EvidenceNext /\ UNCHANGED salvageVars) \/ (SalvageNext /\ UNCHANGED evidenceVars)]_<<evidenceVars, salvageVars>>

\* For any letters and any length of segments and quotations: evidence that is accepted stands
\* where it says, what can be placed is kept, and what is kept of the extraction refers to nothing
\* that was dropped (recover_evidence_offsets, process_extraction_candidate).
THEOREM GroundingCorrect == GroundingSpec => []GroundingInv
<1>1. GroundingSpec => EvidenceSpec
  <2>1. [(EvidenceNext /\ UNCHANGED salvageVars)
            \/ (SalvageNext /\ UNCHANGED evidenceVars)]_<<evidenceVars, salvageVars>>
           => [EvidenceNext]_evidenceVars
    OBVIOUS
  <2> QED BY <2>1, PTL DEF GroundingSpec, EvidenceSpec
<1>2. GroundingSpec => SalvageSpec
  <2>1. [(EvidenceNext /\ UNCHANGED salvageVars)
            \/ (SalvageNext /\ UNCHANGED evidenceVars)]_<<evidenceVars, salvageVars>>
           => [SalvageNext]_salvageVars
    OBVIOUS
  <2> QED BY <2>1, PTL DEF GroundingSpec, SalvageSpec
<1>3. EvidenceInv /\ SalvageInv => GroundingInv
  BY DEF GroundingInv
<1> QED BY <1>1, <1>2, <1>3, EvidenceCorrect, SalvageCorrect, PTL

-----------------------------------------------------------------------------
(* The sources of a book (BookSnapshot).                                   *)

SnapshotSpec == SnapshotInit /\ [][SnapshotNext]_snapshotVars

SayingRows ==
    [kind : {"relationship", "person_mention", "description", "event", "story", "question"},
     type : {"parent_child", "spouse", "none"}, subject : BookPeople, role : {"parent", "spouse", "none"},
     object : BookPeople \cup {"none"}, other : {"child", "spouse", "none"}]

ClaimRows ==
    [id : {"c1", "c2", "m1", "m2"}, rec : Sources,
     says : {t \in SayingRows : t.type = "parent_child" => t.role = "parent"},
     status : {"active", "disputed", "superseded"}, grounded : BOOLEAN, n : Int, named : BOOLEAN,
     alias : {"none", "heard", "confirmed"}]

\* Every claim of the archive has its evidence among the quotations.
StockOK(a) ==
    /\ a.claims \subseteq ClaimRows /\ a.conflict \in BOOLEAN
    /\ \A c \in a.claims : <<c.rec, c.n>> \in a.quotes

\* A snapshot compiled from a bundle: whatever is cut, what is cited is kept.
CompiledFrom(b, s) ==
    /\ s.claims = CompiledClaims(b) /\ s.people = CompiledPeople(b)
    /\ s.edge = CompiledEdge(b) /\ s.conflict = CompiledConflict(b)
    /\ RequiredQuotes(b) \subseteq s.quotes /\ s.quotes \subseteq b.quotes

Started  == {"select", "archive", "not_found", "too_many"}
Bundled  == {"compile", "check", "stored", "worker", "too_large", "invalid"}
Compiled == {"check", "stored", "worker", "invalid"}

SnapshotIInv ==
    /\ selected \subseteq Sources
    /\ stage \in Started \cup {"bundle"} \cup Bundled
    /\ stage \in Started \cup {"bundle"} => bundle = NoBundle
    /\ stage \notin Compiled => snapshot = NoBundle
    /\ stage \notin Started => StockOK(stock)
    /\ stage \in Bundled => bundle = BundleOf(stock)
    /\ stage \in Compiled => CompiledFrom(bundle, snapshot)
    /\ stage \in {"stored", "worker"} => ClosedSnapshot(snapshot)
    /\ stage = "invalid" => ~ ClosedSnapshot(snapshot)

Truth(a) == {c \in CandidateRows(a) : TruthEligible(c, WholeConflict(a))}
Asked(a) == {c \in CandidateRows(a) : c.says.kind = "question" /\ c.grounded}

LEMMA BundleIs ==
    ASSUME NEW a
    PROVE  /\ BundleOf(a).claims = Truth(a) \cup Asked(a)
           /\ BundleOf(a).people = PeopleOf(Truth(a))
           /\ BundleOf(a).edge = IF BookPeople \subseteq IdsOf(PeopleOf(Truth(a))) THEN EdgeSupport(Truth(a)) ELSE {}
           /\ BundleOf(a).conflict = (a.conflict /\ FactIds \subseteq IdsOf(ListedClaims(Truth(a))))
           /\ BundleOf(a).quotes = {q \in a.quotes : q[1] \in selected}
  BY DEF BundleOf, Truth, Asked

\* Every claim of a bundle is one of a selected recording, and a fact or a question with evidence.
LEMMA BundledClaims ==
    ASSUME NEW a, StockOK(a), NEW c \in BundleOf(a).claims
    PROVE  /\ c \in a.claims /\ c \in ClaimRows /\ c.rec \in selected /\ c.grounded
           /\ <<c.rec, c.n>> \in BundleOf(a).quotes
           /\ c.says.kind # "question" => c \in Truth(a)
           /\ c.status = "active" \/ (c.status = "disputed" /\ c.id \in FactIds) \/ c.says.kind = "question"
<1>1. c \in CandidateRows(a) /\ (c \in Truth(a) \/ c \in Asked(a))
  BY BundleIs DEF Truth, Asked
<1>2. c \in a.claims /\ c.rec \in selected /\ c \in ClaimRows /\ <<c.rec, c.n>> \in a.quotes
  BY <1>1 DEF CandidateRows, StockOK
<1>3. <<c.rec, c.n>> \in BundleOf(a).quotes
  BY <1>2, BundleIs
<1> QED BY <1>1, <1>2, <1>3 DEF Truth, Asked, TruthEligible

-----------------------------------------------------------------------------
(* A bundle has nothing of the recordings that were not selected.          *)

LEMMA WithinIs ==
    ASSUME NEW a
    PROVE  /\ Within(a).claims = {c \in a.claims : c.rec \in selected}
           /\ Within(a).conflict = (a.conflict /\ \A i \in FactIds : \E c \in a.claims : c.id = i /\ c.rec \in selected)
           /\ Within(a).quotes = {q \in a.quotes : q[1] \in selected}
  BY DEF Within

LEMMA SameBundle == ASSUME NEW a PROVE BundleOf(a) = BundleOf(Within(a))
<1> DEFINE w == Within(a)
<1>1. CandidateRows(w) = CandidateRows(a)
  BY WithinIs DEF CandidateRows
<1>2. WholeConflict(w) = WholeConflict(a)
  <2>1. WholeConflict(a) => \A i \in FactIds : \E c \in a.claims : c.id = i /\ c.rec \in selected
    BY DEF WholeConflict, CandidateRows
  <2> QED BY <1>1, <2>1, WithinIs DEF WholeConflict
<1>3. Truth(w) = Truth(a) /\ Asked(w) = Asked(a)
  BY <1>1, <1>2 DEF Truth, Asked
<1>4. (w.conflict /\ FactIds \subseteq IdsOf(ListedClaims(Truth(a))))
         = (a.conflict /\ FactIds \subseteq IdsOf(ListedClaims(Truth(a))))
  <2>1. FactIds \subseteq IdsOf(ListedClaims(Truth(a)))
          => \A i \in FactIds : \E c \in a.claims : c.id = i /\ c.rec \in selected
    BY DEF IdsOf, ListedClaims, Truth, CandidateRows
  <2> QED BY <2>1, WithinIs
<1>5. {q \in w.quotes : q[1] \in selected} = {q \in a.quotes : q[1] \in selected}
  BY WithinIs
<1> HIDE DEF w
<1> DEFINE B(T, A, k, Q) == [claims |-> T \cup A, people |-> PeopleOf(T),
         edge |-> IF BookPeople \subseteq IdsOf(PeopleOf(T)) THEN EdgeSupport(T) ELSE {}, conflict |-> k, quotes |-> Q]
<1>6. BundleOf(a) = B(Truth(a), Asked(a), a.conflict /\ FactIds \subseteq IdsOf(ListedClaims(Truth(a))),
                      {q \in a.quotes : q[1] \in selected})
  BY DEF BundleOf, Truth, Asked
<1>7. BundleOf(w) = B(Truth(w), Asked(w), w.conflict /\ FactIds \subseteq IdsOf(ListedClaims(Truth(w))),
                      {q \in w.quotes : q[1] \in selected})
  BY DEF BundleOf, Truth, Asked
<1> HIDE DEF B
<1>8. BundleOf(a) = BundleOf(w)
  BY <1>3, <1>4, <1>5, <1>6, <1>7
<1> QED BY <1>8 DEF w

-----------------------------------------------------------------------------
(* What is compiled is closed.                                             *)

Known(b, p) == IF p \in IdsOf(CompiledPeople(b)) THEN p ELSE "none"
Compiling(b, c) == [c EXCEPT !.says.subject = Known(b, c.says.subject), !.says.object = Known(b, c.says.object)]

LEMMA CompiledClaimsAre == ASSUME NEW b PROVE CompiledClaims(b) = {Compiling(b, c) : c \in b.claims}
  BY DEF CompiledClaims, Compiling, Known

\* What compiling keeps of a claim.
KeptOf(b, c, k) ==
    /\ k.id = c.id /\ k.rec = c.rec /\ k.status = c.status /\ k.grounded = c.grounded /\ k.n = c.n
    /\ k.says.kind = c.says.kind /\ k.says.subject = Known(b, c.says.subject)

LEMMA CompilingKeeps ==
    ASSUME NEW b, NEW c \in ClaimRows
    PROVE  /\ KeptOf(b, c, Compiling(b, c))
           /\ BookPeople \subseteq IdsOf(CompiledPeople(b)) => Compiling(b, c) = c
<1> DEFINE t == c.says
<1>1. t \in SayingRows /\ c = [id |-> c.id, rec |-> c.rec, says |-> t, status |-> c.status, grounded |-> c.grounded,
                               n |-> c.n, named |-> c.named, alias |-> c.alias]
  BY DEF ClaimRows
<1>2. t = [kind |-> t.kind, type |-> t.type, subject |-> t.subject, role |-> t.role, object |-> t.object,
           other |-> t.other] /\ t.subject \in BookPeople /\ t.object \in BookPeople \cup {"none"}
  BY <1>1 DEF SayingRows
<1> DEFINE x == Known(b, t.subject)
           y == Known(b, t.object)
           u == [kind |-> t.kind, type |-> t.type, subject |-> x, role |-> t.role, object |-> y, other |-> t.other]
<1>3. Compiling(b, c) = [id |-> c.id, rec |-> c.rec, says |-> u, status |-> c.status, grounded |-> c.grounded,
                          n |-> c.n, named |-> c.named, alias |-> c.alias]
  <2>1. Compiling(b, c) = [c EXCEPT !.says.subject = x, !.says.object = y]
    BY DEF Compiling
  <2> HIDE DEF x, y
  <2>2. [c EXCEPT !.says.subject = x, !.says.object = y] = [c EXCEPT !.says = [t EXCEPT !.subject = x, !.object = y]]
    BY <1>1, <1>2
  <2>3. [t EXCEPT !.subject = x, !.object = y] = u
    <3> HIDE DEF t
    <3> DEFINE q == [kind |-> t.kind, type |-> t.type, subject |-> x, role |-> t.role, object |-> t.object,
                     other |-> t.other]
    <3>1. [t EXCEPT !.subject = x] = q
      BY <1>2
    <3>2. [q EXCEPT !.object = y] = u
      OBVIOUS
    <3> HIDE DEF q, u
    <3>3. [t EXCEPT !.subject = x, !.object = y] = [[t EXCEPT !.subject = x] EXCEPT !.object = y]
      OBVIOUS
    <3> QED BY <3>1, <3>2, <3>3
  <2> HIDE DEF u, t
  <2>4. [c EXCEPT !.says = u] = [id |-> c.id, rec |-> c.rec, says |-> u, status |-> c.status, grounded |-> c.grounded,
                                  n |-> c.n, named |-> c.named, alias |-> c.alias]
    BY <1>1
  <2> QED BY <2>1, <2>2, <2>3, <2>4
<1>4. KeptOf(b, c, Compiling(b, c))
  BY <1>3 DEF KeptOf
<1>5. ASSUME BookPeople \subseteq IdsOf(CompiledPeople(b)) PROVE Compiling(b, c) = c
  <2>1. x = t.subject /\ (t.object \in BookPeople => y = t.object) /\ (t.object = "none" => y = "none")
    BY <1>2, <1>5 DEF Known
  <2> QED BY <1>1, <1>2, <1>3, <2>1
<1> QED BY <1>4, <1>5

LEMMA FromBundle ==
    ASSUME NEW a, StockOK(a), NEW k \in CompiledClaims(BundleOf(a))
    PROVE  \E c \in BundleOf(a).claims : KeptOf(BundleOf(a), c, k)
<1>1. PICK c \in BundleOf(a).claims : k = Compiling(BundleOf(a), c)
  BY CompiledClaimsAre
<1>2. c \in ClaimRows
  BY BundledClaims
<1> QED BY <1>1, <1>2, CompilingKeeps

LEMMA CompiledIsClosed ==
    ASSUME NEW a, StockOK(a), NEW s, CompiledFrom(BundleOf(a), s),
           ~ SharedQuoteIds(s), ~ SharedObjectIds(s),
           \A c \in ListedClaims(s.claims) : c.status = "disputed" => s.conflict
    PROVE  ClosedSnapshot(s)
<1> DEFINE b == BundleOf(a)
<1>1. \A q \in s.quotes : q[1] \in selected
  BY BundleIs DEF CompiledFrom
<1>2. ASSUME NEW c \in b.claims, c.says.kind # "question" PROVE \E q \in s.quotes : q[2] = c.n
  <2>1. <<c.rec, c.n>> \in b.quotes /\ c.n \in CitedIds(b)
    BY <1>2, BundledClaims DEF CitedIds
  <2>2. <<c.rec, c.n>> \in RequiredQuotes(b)
    BY <2>1 DEF RequiredQuotes
  <2> QED BY <2>2 DEF CompiledFrom
<1>3. ClosedClaims(s)
  <2> SUFFICES ASSUME NEW k \in ListedClaims(s.claims)
               PROVE  /\ k.rec \in selected /\ k.grounded
                      /\ k.status = "active" \/ (k.status = "disputed" /\ s.conflict /\ k.id \in FactIds)
                      /\ \E q \in s.quotes : q[2] = k.n
    BY DEF ClosedClaims
  <2>1. k \in CompiledClaims(b) /\ k.says.kind \notin {"event", "story", "question"}
    BY DEF ListedClaims, CompiledFrom
  <2>2. PICK c \in b.claims :
              /\ k.id = c.id /\ k.rec = c.rec /\ k.status = c.status /\ k.grounded = c.grounded /\ k.n = c.n
              /\ k.says.kind = c.says.kind
    BY <2>1, FromBundle DEF KeptOf
  <2>3. /\ c.rec \in selected /\ c.grounded
        /\ c.status = "active" \/ (c.status = "disputed" /\ c.id \in FactIds)
    BY <2>1, <2>2, BundledClaims
  <2>4. \E q \in s.quotes : q[2] = c.n
    BY <1>2, <2>1, <2>2
  <2> QED BY <2>2, <2>3, <2>4
<1>4. ClosedPeople(s)
  BY DEF ClosedPeople, CompiledFrom, CompiledPeople
<1>5. ClosedEdge(s)
  <2>1. s.edge # {} => BookPeople \subseteq IdsOf(s.people)
    BY DEF CompiledFrom, CompiledEdge
  <2>2. ASSUME NEW e \in s.edge PROVE e \in EdgeSupport(s.claims)
    <3>1. BookPeople \subseteq IdsOf(CompiledPeople(b)) /\ e \in EdgeSupport({c \in b.claims : c.rec \in selected})
      BY <2>2 DEF CompiledFrom, CompiledEdge
    <3>2. PICK c \in b.claims : c.id = e[2] /\ CanonicalTie(c.says) = CanonicalTie(e[1])
      BY <3>1 DEF EdgeSupport
    <3>3. c \in CompiledClaims(b)
      <4>1. Compiling(b, c) \in CompiledClaims(b)
        BY CompiledClaimsAre
      <4>2. c \in ClaimRows
        BY BundledClaims
      <4>3. Compiling(b, c) = c
        BY <3>1, <4>2, CompilingKeeps
      <4> QED BY <4>1, <4>3
    <3> QED BY <3>1, <3>2, <3>3 DEF EdgeSupport, CompiledFrom
  <2> QED BY <2>1, <2>2 DEF ClosedEdge
<1>6. ClosedTales(s)
  <2> SUFFICES ASSUME NEW k \in s.claims \ ListedClaims(s.claims)
               PROVE  /\ k.rec \in selected
                      /\ k.says.kind # "question" => /\ \E q \in s.quotes : q[2] = k.n
                                                    /\ k.says.subject \in IdsOf(s.people) \cup {"none"}
    BY DEF ClosedTales
  <2>1. PICK c \in b.claims :
              /\ k.id = c.id /\ k.rec = c.rec /\ k.status = c.status /\ k.grounded = c.grounded /\ k.n = c.n
              /\ k.says.kind = c.says.kind /\ k.says.subject = Known(b, c.says.subject)
    BY FromBundle DEF CompiledFrom, KeptOf
  <2>2. c.rec \in selected
    BY BundledClaims
  <2>3. k.says.subject \in IdsOf(s.people) \cup {"none"}
    BY <2>1 DEF Known, CompiledFrom
  <2> QED BY <1>2, <2>1, <2>2, <2>3
<1>7. ClosedConflict(s)
  <2> SUFFICES ASSUME s.conflict PROVE FactIds \subseteq IdsOf(ListedClaims(s.claims))
    BY DEF ClosedConflict
  <2>1. FactIds \subseteq IdsOf(ListedClaims(b.claims))
    BY DEF CompiledFrom, CompiledConflict
  <2>2. ASSUME NEW c \in ListedClaims(b.claims) PROVE c.id \in IdsOf(ListedClaims(s.claims))
    <3> DEFINE k == Compiling(b, c)
    <3>1. c \in b.claims /\ c.says.kind \notin {"event", "story", "question"}
      BY DEF ListedClaims
    <3>2. k \in s.claims
      BY <3>1, CompiledClaimsAre DEF CompiledFrom
    <3>4. c \in ClaimRows
      BY <3>1, BundledClaims
    <3>3. k.id = c.id /\ k.says.kind = c.says.kind
      BY <3>4, CompilingKeeps DEF KeptOf
    <3> HIDE DEF k
    <3> QED BY <3>1, <3>2, <3>3 DEF ListedClaims, IdsOf
  <2> QED BY <2>1, <2>2 DEF IdsOf
<1> QED BY <1>1, <1>3, <1>4, <1>5, <1>6, <1>7 DEF ClosedSnapshot

-----------------------------------------------------------------------------
(* The steps.                                                              *)

LEMMA SnapshotStart == SnapshotInit => SnapshotIInv
  BY DEF SnapshotInit, SnapshotIInv, Started, Bundled, Compiled

LEMMA SelectKeeps ==
    ASSUME SnapshotIInv, NEW S \in SUBSET Sources, NEW E, SelectSources(S, E)
    PROVE  SnapshotIInv'
  BY DEF SnapshotIInv, SelectSources, Started, Bundled, Compiled

\* The claims of one archive.
FilledRows(says1, says2, s, g, r, n, m) ==
    {Claim("c1", "r1", says1, s[1], g, 1, TRUE, "none"),
     Claim("c2", r, says2, s[2], TRUE, n, TRUE, "heard"),
     Claim("m1", "r1", Plain("person_mention", "p1"), "active", TRUE, 3, TRUE, "none"),
     Claim("m2", m[1], Plain("person_mention", "p2"), "active", TRUE, 4, m[2], m[3])}

LEMMA StatesAreRows ==
    ASSUME NEW says1 \in Sayings, NEW says2 \in Sayings, NEW s \in Statuses, NEW g \in BOOLEAN, NEW r \in {"r1", "r2"},
           NEW n \in 1..2, NEW m \in SecondMentions
    PROVE  FilledRows(says1, says2, s, g, r, n, m) \subseteq ClaimRows
<1> DEFINE Sound == {t \in SayingRows : t.type = "parent_child" => t.role = "parent"}
<1>1. /\ Plain("person_mention", "p1") \in Sound /\ Plain("person_mention", "p2") \in Sound
      /\ Sayings \subseteq Sound
  BY DEF Sayings, Tie, Plain, SayingRows, BookPeople
<1> HIDE DEF Sound
<1>2. s[1] \in {"active", "disputed"} /\ s[2] \in {"active", "disputed", "superseded"}
  <2>1. s = <<"active", "active", FALSE>> \/ s = <<"disputed", "disputed", TRUE>> \/ s = <<"active", "superseded", TRUE>>
    BY DEF Statuses
  <2>2. CASE s = <<"active", "active", FALSE>>
    BY <2>2
  <2>3. CASE s = <<"disputed", "disputed", TRUE>>
    BY <2>3
  <2>4. CASE s = <<"active", "superseded", TRUE>>
    BY <2>4
  <2> QED BY <2>1, <2>2, <2>3, <2>4
<1>3. m[1] \in Sources /\ m[2] \in BOOLEAN /\ m[3] \in {"none", "heard", "confirmed"}
  <2>1. m = <<"r1", TRUE, "heard">> \/ m = <<"r2", TRUE, "confirmed">> \/ m = <<"r2", FALSE, "confirmed">>
    BY DEF SecondMentions
  <2>2. CASE m = <<"r1", TRUE, "heard">>
    BY <2>2 DEF Sources
  <2>3. CASE m = <<"r2", TRUE, "confirmed">>
    BY <2>3 DEF Sources
  <2>4. CASE m = <<"r2", FALSE, "confirmed">>
    BY <2>4 DEF Sources
  <2> QED BY <2>1, <2>2, <2>3, <2>4
<1>4. ASSUME NEW i \in {"c1", "c2", "m1", "m2"}, NEW q \in Sources, NEW t \in Sound,
             NEW st \in {"active", "disputed", "superseded"}, NEW h \in BOOLEAN, NEW o \in Int, NEW d \in BOOLEAN,
             NEW al \in {"none", "heard", "confirmed"}
      PROVE  Claim(i, q, t, st, h, o, d, al) \in ClaimRows
  BY DEF Claim, ClaimRows, Sound
<1>5. 1 \in Int /\ 3 \in Int /\ 4 \in Int /\ n \in Int /\ r \in Sources /\ "r1" \in Sources /\ TRUE \in BOOLEAN
  BY DEF Sources
<1>6. Claim("c1", "r1", says1, s[1], g, 1, TRUE, "none") \in ClaimRows
  BY <1>1, <1>2, <1>4, <1>5, Zenon
<1>7. Claim("c2", r, says2, s[2], TRUE, n, TRUE, "heard") \in ClaimRows
  BY <1>1, <1>2, <1>4, <1>5, Zenon
<1>8. Claim("m1", "r1", Plain("person_mention", "p1"), "active", TRUE, 3, TRUE, "none") \in ClaimRows
  BY <1>1, <1>4, <1>5, Zenon
<1>9. Claim("m2", m[1], Plain("person_mention", "p2"), "active", TRUE, 4, m[2], m[3]) \in ClaimRows
  BY <1>1, <1>3, <1>4, <1>5, Zenon
<1> QED BY <1>6, <1>7, <1>8, <1>9 DEF FilledRows

LEMMA FillKeeps ==
    ASSUME SnapshotIInv, NEW cs \in SUBSET ClaimRows, NEW k \in BOOLEAN, NEW extra, FillArchive(cs, k, extra)
    PROVE  SnapshotIInv'
<1>1. StockOK(stock')
  BY DEF FillArchive, StockOK
<1> QED BY <1>1 DEF SnapshotIInv, FillArchive, Started, Bundled, Compiled

LEMMA GatherKeeps == ASSUME SnapshotIInv, GatherSources PROVE SnapshotIInv'
<1>1. bundle' = BundleOf(stock) /\ BundleOf(stock)' = BundleOf(stock)
  BY DEF GatherSources, BundleOf, CandidateRows, WholeConflict, TruthEligible
<1> QED BY <1>1 DEF SnapshotIInv, GatherSources, Started, Bundled, Compiled

LEMMA CompileKeeps == ASSUME SnapshotIInv, CompileSnapshot PROVE SnapshotIInv'
<1>1. StockOK(stock) /\ bundle = BundleOf(stock) /\ stage = "compile" /\ snapshot = NoBundle
  BY DEF SnapshotIInv, CompileSnapshot, Started, Bundled, Compiled
<1>2. CitedIds(bundle) \subseteq {q[2] : q \in bundle.quotes}
  <2> SUFFICES ASSUME NEW n \in CitedIds(bundle) PROVE n \in {q[2] : q \in bundle.quotes}
    OBVIOUS
  <2>1. PICK c \in bundle.claims : n = c.n
    BY DEF CitedIds
  <2>2. <<c.rec, c.n>> \in bundle.quotes /\ <<c.rec, c.n>>[2] = n
    BY <1>1, <2>1, BundledClaims
  <2> QED BY <2>2
<1>3. UNCHANGED <<selected, stock, bundle>>
  BY DEF CompileSnapshot
<1>4. CASE stage' = "too_large" /\ UNCHANGED snapshot
  <2>1. BundleOf(stock)' = BundleOf(stock)
    BY <1>3 DEF BundleOf, CandidateRows, WholeConflict, TruthEligible
  <2> QED BY <1>1, <1>3, <1>4, <2>1 DEF SnapshotIInv, Started, Bundled, Compiled
<1>5. ASSUME stage' = "check", NEW Q \in KeptQuotes(bundle),
             snapshot' = [claims |-> CompiledClaims(bundle), people |-> CompiledPeople(bundle),
                          edge |-> CompiledEdge(bundle), conflict |-> CompiledConflict(bundle), quotes |-> Q]
      PROVE  SnapshotIInv'
  <2>1. RequiredQuotes(bundle) \subseteq Q /\ Q \subseteq bundle.quotes
    BY DEF KeptQuotes, RequiredQuotes
  <2>2. CompiledFrom(bundle, snapshot')
    BY <1>5, <2>1 DEF CompiledFrom
  <2>3. CompiledFrom(bundle, snapshot)'
    <3>1. /\ CompiledClaims(bundle)' = CompiledClaims(bundle) /\ CompiledPeople(bundle)' = CompiledPeople(bundle)
          /\ CompiledEdge(bundle)' = CompiledEdge(bundle) /\ CompiledConflict(bundle)' = CompiledConflict(bundle)
          /\ RequiredQuotes(bundle)' = RequiredQuotes(bundle) /\ bundle' = bundle
      BY <1>3 DEF CompiledClaims, CompiledPeople, CompiledEdge, CompiledConflict, RequiredQuotes
    <3> QED BY <2>2, <3>1 DEF CompiledFrom
  <2>4. BundleOf(stock)' = BundleOf(stock)
    BY <1>3 DEF BundleOf, CandidateRows, WholeConflict, TruthEligible
  <2> QED BY <1>1, <1>3, <1>5, <2>3, <2>4 DEF SnapshotIInv, Started, Bundled, Compiled
<1> QED BY <1>2, <1>4, <1>5 DEF CompileSnapshot

\* A step of the check leaves everything it rests on.
LEMMA SameSources ==
    ASSUME UNCHANGED <<selected, stock, bundle, snapshot>>
    PROVE  /\ BundleOf(stock)' = BundleOf(stock) /\ StockOK(stock)' = StockOK(stock)
           /\ CompiledFrom(bundle, snapshot)' = CompiledFrom(bundle, snapshot)
           /\ ClosedSnapshot(snapshot)' = ClosedSnapshot(snapshot)
<1>1. BundleOf(stock)' = BundleOf(stock) /\ StockOK(stock)' = StockOK(stock)
  BY DEF BundleOf, CandidateRows, WholeConflict, TruthEligible, StockOK
<1>2. CompiledFrom(bundle, snapshot)' = CompiledFrom(bundle, snapshot)
  BY DEF CompiledFrom, CompiledClaims, CompiledPeople, CompiledEdge
<1>3. ClosedSnapshot(snapshot)' = ClosedSnapshot(snapshot)
  BY DEF ClosedSnapshot, ClosedClaims, ClosedPeople, ClosedEdge, ClosedTales, ClosedConflict
<1> QED BY <1>1, <1>2, <1>3

LEMMA CheckKeeps == ASSUME SnapshotIInv, CheckSnapshot \/ WorkerChecksAgain PROVE SnapshotIInv'
<1>1. UNCHANGED <<selected, stock, bundle, snapshot>>
  BY DEF CheckSnapshot, WorkerChecksAgain
<1>2. stage \in {"check", "stored"} /\ (stage = "stored" => ClosedSnapshot(snapshot))
  BY DEF CheckSnapshot, WorkerChecksAgain, SnapshotIInv
<1>3. \/ stage' \in {"stored", "worker"} /\ ClosedSnapshot(snapshot)
      \/ stage' = "invalid" /\ ~ ClosedSnapshot(snapshot)
  BY <1>2 DEF CheckSnapshot, WorkerChecksAgain
<1> QED BY <1>1, <1>2, <1>3, SameSources DEF SnapshotIInv, Started, Bundled, Compiled

\* The step that fills the archive.
FillsArchive ==
    \E says1, says2 \in Sayings, s \in Statuses, g \in BOOLEAN, r \in {"r1", "r2"},
       n \in 1..2, m \in SecondMentions :
      FillArchive(FilledRows(says1, says2, s, g, r, n, m), s[3], {<<"r1", 5>>})

LEMMA SnapshotStep == SnapshotIInv /\ [SnapshotNext]_snapshotVars => SnapshotIInv'
<1> SUFFICES ASSUME SnapshotIInv, [SnapshotNext]_snapshotVars PROVE SnapshotIInv'
  OBVIOUS
<1>1. CASE \E S \in SUBSET Sources, E \in {Sources, {"r1"}} : SelectSources(S, E)
  BY <1>1, SelectKeeps
<1>2. CASE FillsArchive
  <2>3. PICK says1 \in Sayings, says2 \in Sayings, s \in Statuses, g \in BOOLEAN,
             r \in {"r1", "r2"}, n \in 1..2, m \in SecondMentions :
           FillArchive(FilledRows(says1, says2, s, g, r, n, m), s[3], {<<"r1", 5>>})
    BY <1>2 DEF FillsArchive
  <2>1. s[3] \in BOOLEAN
    <3>1. s = <<"active", "active", FALSE>> \/ s = <<"disputed", "disputed", TRUE>> \/ s = <<"active", "superseded", TRUE>>
      BY DEF Statuses
    <3>2. CASE s = <<"active", "active", FALSE>>
      BY <3>2
    <3>3. CASE s = <<"disputed", "disputed", TRUE>>
      BY <3>3
    <3>4. CASE s = <<"active", "superseded", TRUE>>
      BY <3>4
    <3> QED BY <3>1, <3>2, <3>3, <3>4
  <2>2. FilledRows(says1, says2, s, g, r, n, m) \in SUBSET ClaimRows
    BY StatesAreRows
  <2> QED BY <2>1, <2>2, <2>3, FillKeeps
<1>3. CASE GatherSources
  BY <1>3, GatherKeeps
<1>4. CASE CompileSnapshot
  BY <1>4, CompileKeeps
<1>5. CASE CheckSnapshot \/ WorkerChecksAgain
  BY <1>5, CheckKeeps
<1>6. CASE UNCHANGED snapshotVars
  <2>1. UNCHANGED <<selected, stock, bundle, snapshot>> /\ stage' = stage
    BY <1>6 DEF snapshotVars
  <2> QED BY <2>1, SameSources DEF SnapshotIInv, Started, Bundled, Compiled
<1>7. CASE stage = "select" /\ \E S \in SUBSET Sources, E \in {Sources, {"r1"}} : SelectSources(S, E)
  BY <1>1, <1>7
<1>8. \/ stage = "select" /\ \E S \in SUBSET Sources, E \in {Sources, {"r1"}} : SelectSources(S, E)
      \/ FillsArchive
      \/ GatherSources \/ CompileSnapshot \/ CheckSnapshot \/ WorkerChecksAgain
      \/ UNCHANGED snapshotVars
  BY DEF SnapshotNext, FillsArchive, FilledRows
<1> QED BY <1>2, <1>3, <1>4, <1>5, <1>6, <1>7, <1>8

-----------------------------------------------------------------------------
(* What the invariant says of a book.                                      *)

LEMMA SnapshotTypes == SnapshotIInv => SnapshotTypeOK
<1> SUFFICES ASSUME SnapshotIInv PROVE SnapshotTypeOK
  OBVIOUS
<1>1. \A a : IdsOf(CompiledPeople(BundleOf(a))) \subseteq BookPeople
  BY BundleIs DEF IdsOf, CompiledPeople, PeopleOf
<1>2. \A a : StockOK(a) => BundleOf(a).conflict \in BOOLEAN
  BY BundleIs DEF StockOK
<1>3. IdsOf(snapshot.people) \subseteq BookPeople
  BY <1>1 DEF SnapshotIInv, CompiledFrom, IdsOf, NoBundle, Compiled, Bundled, Started
<1>4. bundle.conflict \in BOOLEAN
  <2>1. CASE stage \in Bundled
    <3>1. StockOK(stock) /\ bundle = BundleOf(stock)
      BY <2>1 DEF SnapshotIInv, Bundled, Started
    <3> QED BY <1>2, <3>1
  <2>2. CASE stage \notin Bundled
    <3>1. bundle = NoBundle
      BY <2>2 DEF SnapshotIInv
    <3> QED BY <3>1 DEF NoBundle
  <2> QED BY <2>1, <2>2
<1> QED BY <1>3, <1>4 DEF SnapshotTypeOK, SnapshotIInv, Started, Bundled

LEMMA SnapshotSelected == SnapshotIInv => OnlyTheSelected
  BY SameBundle DEF SnapshotIInv, OnlyTheSelected, Started, Bundled

\* What stands of a stored snapshot.
LEMMA StoredFrom ==
    ASSUME SnapshotIInv, stage \in {"stored", "worker"}
    PROVE  StockOK(stock) /\ CompiledFrom(BundleOf(stock), snapshot) /\ ClosedSnapshot(snapshot)
  BY DEF SnapshotIInv, Started, Bundled, Compiled

LEMMA SnapshotEdges == SnapshotIInv => EdgeSaysTheSame
<1> SUFFICES ASSUME SnapshotIInv, stage \in {"stored", "worker"}, NEW s \in snapshot.edge
             PROVE  \E c \in stock.claims :
                       /\ c.id = s[2] /\ c.rec \in selected /\ c.grounded /\ c.says.type = s[1].type
                       /\ c.says.type = "parent_child" => c.says.subject = "p1"
  BY DEF EdgeSaysTheSame
<1> DEFINE b == BundleOf(stock)
<1>1. s \in EdgeSupport(Truth(stock))
  <2>1. snapshot.edge = CompiledEdge(b)
    BY StoredFrom DEF CompiledFrom
  <2>2. CompiledEdge(b) \subseteq b.edge
    BY DEF CompiledEdge
  <2>3. b.edge \subseteq EdgeSupport(Truth(stock))
    BY BundleIs
  <2> QED BY <2>1, <2>2, <2>3
<1>2. PICK c \in Truth(stock) : c.id = s[2] /\ CanonicalTie(c.says) = CanonicalTie(s[1])
  BY <1>1 DEF EdgeSupport
<1>3. c \in b.claims
  BY BundleIs
<1>4. c \in stock.claims /\ c \in ClaimRows /\ c.rec \in selected /\ c.grounded
  BY <1>3, StoredFrom, BundledClaims
<1>5. s[1] \in Edges
  BY <1>1 DEF EdgeSupport
<1>6. c.says.type = s[1].type
  BY <1>2 DEF CanonicalTie
<1>7. ASSUME c.says.type = "parent_child" PROVE c.says.subject = "p1"
  <2>1. s[1].type = "parent_child" /\ s[1].subject = "p1" /\ s[1].role = "parent" /\ s[1].object = "p2" /\ s[1].other = "child"
    <3>1. s[1] = Tie("parent_child", "p1", "parent", "p2", "child") \/ s[1] = Tie("spouse", "p1", "spouse", "p2", "spouse")
      BY <1>5 DEF Edges
    <3>2. s[1].type = "parent_child"
      BY <1>6, <1>7
    <3>3. Tie("spouse", "p1", "spouse", "p2", "spouse").type = "spouse"
      BY DEF Tie
    <3>4. s[1] = Tie("parent_child", "p1", "parent", "p2", "child")
      BY <3>1, <3>2, <3>3
    <3> QED BY <3>4 DEF Tie
  <2>2. {<<c.says.subject, c.says.role>>, <<c.says.object, c.says.other>>} = {<<"p1", "parent">>, <<"p2", "child">>}
    BY <1>2, <2>1 DEF CanonicalTie
  <2>3. c.says.role = "parent"
    BY <1>4, <1>7 DEF ClaimRows
  <2>4. <<c.says.subject, c.says.role>> \in {<<"p1", "parent">>, <<"p2", "child">>}
    BY <2>2
  <2> QED BY <2>3, <2>4
<1> QED BY <1>2, <1>4, <1>6, <1>7

LEMMA SnapshotNames == SnapshotIInv => NamesAreConfirmed
<1> SUFFICES ASSUME SnapshotIInv, stage \in {"stored", "worker"}, NEW p \in snapshot.people, p.alias # {}
             PROVE  \E c \in stock.claims : /\ c.says.kind = "person_mention" /\ c.says.subject = p.id
                                            /\ c.rec \in selected /\ c.alias = "confirmed"
  BY DEF NamesAreConfirmed
<1>1. p \in CompiledPeople(BundleOf(stock))
  BY StoredFrom DEF CompiledFrom
<1>2. PICK q \in PeopleOf(Truth(stock)) : p.id = q.id /\ q.verified
  BY <1>1, BundleIs DEF CompiledPeople
<1>3. PICK c \in MentionsOf(Truth(stock), q.id) : c.alias = "confirmed"
  BY <1>2 DEF PeopleOf
<1>4. c \in BundleOf(stock).claims /\ c.says.kind = "person_mention" /\ c.says.subject = q.id
  BY <1>3, BundleIs DEF MentionsOf
<1>5. c \in stock.claims /\ c.rec \in selected
  BY <1>4, StoredFrom, BundledClaims
<1> QED BY <1>2, <1>3, <1>4, <1>5

LEMMA SnapshotDisputes == SnapshotIInv => DisputesComeWhole
  BY StoredFrom DEF DisputesComeWhole, ClosedSnapshot, ClosedClaims, ClosedConflict

LEMMA SnapshotRefusals == SnapshotIInv => RefusedOnlyFor
<1> SUFFICES ASSUME SnapshotIInv PROVE RefusedOnlyFor
  OBVIOUS
<1>1. stage # "job_failed"
  BY DEF SnapshotIInv, Started, Bundled
<1>2. ASSUME stage = "invalid"
      PROVE  \/ SharedQuoteIds(snapshot) \/ SharedObjectIds(snapshot)
             \/ \E c \in ListedClaims(snapshot.claims) : c.status = "disputed" /\ ~snapshot.conflict
  <2>1. StockOK(stock) /\ CompiledFrom(BundleOf(stock), snapshot) /\ ~ ClosedSnapshot(snapshot)
    BY <1>2 DEF SnapshotIInv, Started, Bundled, Compiled
  <2> QED BY <2>1, CompiledIsClosed
<1> QED BY <1>1, <1>2 DEF RefusedOnlyFor

\* For any number of sources and quotations: a book's sources are of what it selected, edges and
\* names are as the archive confirms them, a dispute comes whole, and a book is refused only for
\* the reasons listed (compile_source_snapshot).
THEOREM SnapshotCorrect == SnapshotSpec => []SnapshotInv
<1>1. SnapshotIInv => SnapshotInv
  BY SnapshotTypes, SnapshotSelected, SnapshotEdges, SnapshotNames, SnapshotDisputes, SnapshotRefusals DEF SnapshotInv
<1> QED BY <1>1, SnapshotStart, SnapshotStep, PTL DEF SnapshotSpec

-----------------------------------------------------------------------------
(* The plan of a book (BlueprintPlan).                                     *)

BlueprintSpec == BlueprintInit /\ [][BlueprintNext]_blueprintVars

ChapterRows == [number : Int, words : Int, anchored : BOOLEAN, wrong : {"none", "unknown", "ungrounded", "year"}]

Proposals == {b \in [total : Int, anchor : {"none", "empty", "held", "invented"}, chapters : Seq(ChapterRows)] :
                 Len(b.chapters) >= 1}

BlueprintIInv ==
    /\ proposed = NoPlan \/ proposed \in Proposals
    /\ planReport.valid => /\ proposed \in Proposals /\ ValidBlueprint(blueprint)
                           /\ blueprint = proposed \/ blueprint = Repaired(proposed)
    /\ blueprint # NoPlan => /\ proposed \in Proposals
                             /\ planReport.valid \/ ~ (ValidBlueprint(proposed) \/ ValidBlueprint(Repaired(proposed)))

\* The words of the first chapters, counted one chapter at a time.
Counts(g, cs) == g = [i \in 0..Len(cs) |-> IF i = 0 THEN 0 ELSE g[i - 1] + cs[i].words]

LEMMA CountAt ==
    ASSUME NEW cs, Len(cs) \in Nat, NEW g, Counts(g, cs), NEW i \in 0..Len(cs)
    PROVE  g[i] = IF i = 0 THEN 0 ELSE g[i - 1] + cs[i].words
<1> DEFINE h == [j \in 0..Len(cs) |-> IF j = 0 THEN 0 ELSE g[j - 1] + cs[j].words]
<1>1. g = h
  BY DEF Counts
<1>2. h[i] = IF i = 0 THEN 0 ELSE g[i - 1] + cs[i].words
  OBVIOUS
<1> HIDE DEF h
<1> QED BY <1>1, <1>2

\* There is one way to count.
LEMMA OneCount ==
    ASSUME NEW cs, Len(cs) \in Nat, NEW g, Counts(g, cs), NEW h, Counts(h, cs)
    PROVE  g[Len(cs)] = h[Len(cs)]
<1> DEFINE Bad == {i \in Nat : i <= Len(cs) /\ g[i] # h[i]}
<1>1. Bad = {}
  <2> SUFFICES ASSUME Bad # {} PROVE FALSE
    OBVIOUS
  <2>1. PICK m \in Bad : \A n \in Bad : m <= n
    BY LeastNumber
  <2>2. m \in 0..Len(cs) /\ g[m] # h[m]
    BY <2>1
  <2>3. m # 0
    BY <2>2, CountAt
  <2>4. m - 1 \in 0..Len(cs) /\ m - 1 \in Nat /\ ~ (m <= m - 1)
    BY <2>2, <2>3
  <2>5. g[m - 1] = h[m - 1]
    BY <2>1, <2>4
  <2> QED BY <2>2, <2>3, <2>5, CountAt
<1> QED BY <1>1

LEMMA SumIs ==
    ASSUME NEW cs, Len(cs) \in Nat, NEW g, Counts(g, cs)
    PROVE  SumWords(cs) = g[Len(cs)]
<1> DEFINE upTo == CHOOSE f : Counts(f, cs)
<1>1. SumWords(cs) = upTo[Len(cs)]
  BY DEF SumWords, Counts
<1>2. Counts(upTo, cs)
  OBVIOUS
<1> HIDE DEF upTo
<1>3. upTo[Len(cs)] = g[Len(cs)]
  BY <1>2, OneCount
<1> QED BY <1>1, <1>3

\* What can be counted is a number.
LEMMA SumType ==
    ASSUME NEW cs \in Seq(ChapterRows)
    PROVE  SumWords(cs) \in Int
<1> DEFINE Upto(n, g) == /\ g \in [0..n -> Int]
                         /\ g[0] = 0 /\ \A i \in 1..n : g[i] = g[i - 1] + cs[i].words
           Bad == {n \in Nat : n <= Len(cs) /\ ~ \E g : Upto(n, g)}
<1>1. Len(cs) \in Nat /\ \A i \in 1..Len(cs) : cs[i].words \in Int
  <2>1. \A i \in 1..Len(cs) : cs[i] \in ChapterRows
    OBVIOUS
  <2> QED BY <2>1 DEF ChapterRows
<1>2. Bad = {}
  <2> SUFFICES ASSUME Bad # {} PROVE FALSE
    OBVIOUS
  <2>1. PICK m \in Bad : \A n \in Bad : m <= n
    BY LeastNumber
  <2>2. CASE m = 0
    <3> DEFINE h == [i \in 0..0 |-> 0]
    <3>1. Upto(0, h)
      OBVIOUS
    <3> QED BY <2>1, <2>2, <3>1
  <2>3. CASE m # 0
    <3>1. m \in Nat /\ m <= Len(cs) /\ m - 1 \in Nat /\ m - 1 \notin Bad
      <4>1. m \in Nat /\ m - 1 \in Nat /\ ~ (m <= m - 1) /\ m <= Len(cs)
        BY <2>1, <2>3
      <4> HIDE DEF Bad
      <4> QED BY <2>1, <4>1
    <3>2. PICK g : Upto(m - 1, g)
      BY <1>1, <3>1
    <3> DEFINE h == [i \in 0..m |-> IF i = m THEN g[m - 1] + cs[m].words ELSE g[i]]
    <3>3. g[m - 1] \in Int /\ cs[m].words \in Int
      BY <1>1, <2>3, <3>1, <3>2
    <3>4. h \in [0..m -> Int] /\ h[0] = 0
      BY <2>3, <3>1, <3>2, <3>3
    <3>5. ASSUME NEW i \in 1..m PROVE h[i] = h[i - 1] + cs[i].words
      <4>1. i - 1 \in 0..(m - 1) /\ h[i - 1] = g[i - 1]
        BY <3>1
      <4>2. CASE i = m
        BY <3>1, <4>1, <4>2
      <4>3. CASE i # m
        <5>1. i \in 1..(m - 1) /\ h[i] = g[i]
          BY <3>1, <4>3
        <5>2. g[i] = g[i - 1] + cs[i].words
          BY <3>2, <5>1
        <5> HIDE DEF h
        <5> QED BY <4>1, <5>1, <5>2
      <4> QED BY <4>2, <4>3
    <3>6. Upto(m, h)
      <4> HIDE DEF h
      <4> QED BY <3>4, <3>5
    <3> HIDE DEF h, Upto
    <3> QED BY <2>1, <3>6
  <2> QED BY <2>2, <2>3
<1>3. PICK g : Upto(Len(cs), g)
  <2> HIDE DEF Upto
  <2> QED BY <1>1, <1>2
<1>4. Counts(g, cs)
  <2>1. \A i \in 0..Len(cs) : g[i] = IF i = 0 THEN 0 ELSE g[i - 1] + cs[i].words
    BY <1>1, <1>3
  <2> QED BY <1>3, <2>1 DEF Counts
<1>5. g[Len(cs)] \in Int
  BY <1>1, <1>3
<1> QED BY <1>1, <1>4, <1>5, SumIs

-----------------------------------------------------------------------------
(* Equal parts.                                                            *)

LEMMA Division ==
    ASSUME NEW t \in Nat, NEW n \in Nat, n > 0
    PROVE  /\ t \div n \in Nat /\ t % n \in Nat /\ t % n < n
           /\ t = n * (t \div n) + (t % n)
  OBVIOUS

\* A part of an allowed book fits into a chapter: nothing is clamped.
LEMMA PartFits ==
    ASSUME NEW t \in MinTotal..MaxTotal, NEW n \in MinChapters..MaxChapters, NEW i \in 1..n
    PROVE  /\ t \div n + (IF i <= t % n THEN 1 ELSE 0) \in MinChapter..MaxChapter
           /\ Assigned(t, n, i) = t \div n + (IF i <= t % n THEN 1 ELSE 0)
<1> DEFINE q == t \div n
           r == t % n
<1>1. t \in Nat /\ n \in Nat /\ n > 0
  BY LimitsAssumption
<1>2. q \in Nat /\ r \in Nat /\ r < n /\ t = n * q + r
  BY <1>1, Division
<1>3. MinChapter \in Nat /\ MaxChapter \in Nat /\ n * MinChapter <= t /\ t <= n * MaxChapter
  <2>1. {MinChapters, MaxChapters, MinTotal, MaxTotal, MinChapter, MaxChapter} \subseteq Nat
    BY LimitsAssumption
  <2>2. n * MinChapter <= MaxChapters * MinChapter /\ MinChapters * MaxChapter <= n * MaxChapter
    BY <2>1
  <2>3. \A a, b, c \in Nat : a <= b /\ b <= c => a <= c
    OBVIOUS
  <2>4. n * MinChapter \in Nat /\ MaxChapters * MinChapter \in Nat /\ n * MaxChapter \in Nat /\ MinChapters * MaxChapter \in Nat
    BY <2>1, <1>1
  <2> QED BY <1>1, <2>1, <2>2, <2>3, <2>4, LimitsAssumption
<1> HIDE DEF q, r
<1>4. q >= MinChapter
  <2> SUFFICES ASSUME q + 1 <= MinChapter PROVE FALSE
    BY <1>2, <1>3
  <2>1. n * (q + 1) <= n * MinChapter /\ n * (q + 1) = n * q + n
    BY <1>1, <1>2, <1>3
  <2>2. n * q \in Nat /\ n * MinChapter \in Nat
    BY <1>1, <1>2, <1>3
  <2> QED BY <1>1, <1>2, <1>3, <2>1, <2>2
<1>5. q <= MaxChapter /\ (r > 0 => q + 1 <= MaxChapter)
  <2>1. n * q \in Nat /\ n * MaxChapter \in Nat
    BY <1>1, <1>2, <1>3
  <2>2. ASSUME q >= MaxChapter PROVE q = MaxChapter /\ r = 0
    <3>1. n * MaxChapter <= n * q
      BY <1>1, <1>2, <1>3, <2>2
    <3>2. n * q <= n * MaxChapter /\ r = 0
      BY <1>2, <1>3, <2>1, <3>1
    <3>3. ASSUME q >= MaxChapter + 1 PROVE FALSE
      <4>1. n * (MaxChapter + 1) <= n * q /\ n * (MaxChapter + 1) = n * MaxChapter + n
        BY <1>1, <1>2, <1>3, <3>3
      <4> QED BY <1>1, <2>1, <3>2, <4>1
    <3> QED BY <1>2, <1>3, <2>2, <3>2, <3>3
  <2> QED BY <1>2, <1>3, <2>2
<1>6. q + (IF i <= r THEN 1 ELSE 0) \in MinChapter..MaxChapter
  BY <1>2, <1>3, <1>4, <1>5
<1>7. \A x \in MinChapter..MaxChapter : ClampTo(x, MinChapter, MaxChapter) = x
  BY <1>3 DEF ClampTo
<1>8. Assigned(t, n, i) = ClampTo(q + (IF i <= r THEN 1 ELSE 0), MinChapter, MaxChapter)
  BY DEF Assigned, q, r
<1>9. Assigned(t, n, i) = q + (IF i <= r THEN 1 ELSE 0)
  BY <1>6, <1>7, <1>8
<1> QED BY <1>6, <1>9 DEF q, r

\* The parts add up to the book.
LEMMA PartsAddUp ==
    ASSUME NEW t \in Nat, NEW n \in Nat, n > 0, NEW cs, Len(cs) = n,
           \A i \in 1..n : cs[i].words = t \div n + (IF i <= t % n THEN 1 ELSE 0)
    PROVE  SumWords(cs) = t
<1> DEFINE q == t \div n
           r == t % n
           F(i) == i * q + (IF i <= r THEN i ELSE r)
           g == [i \in 0..n |-> F(i)]
           h == [i \in 0..n |-> IF i = 0 THEN 0 ELSE g[i - 1] + cs[i].words]
<1>1. q \in Nat /\ r \in Nat /\ r < n /\ t = n * q + r
  BY Division
<1>2. \A i \in 1..n : cs[i].words = q + (IF i <= r THEN 1 ELSE 0)
  OBVIOUS
<1> HIDE DEF q, r
<1>3. ASSUME NEW i \in 0..n PROVE g[i] = IF i = 0 THEN 0 ELSE g[i - 1] + cs[i].words
  <2>1. g[i] = F(i)
    OBVIOUS
  <2>2. CASE i = 0
    <3>1. F(0) = 0
      BY <1>1
    <3> QED BY <2>1, <2>2, <3>1
  <2>3. CASE i # 0
    <3>1. i - 1 \in 0..n /\ i \in 1..n
      BY <2>3
    <3>2. g[i - 1] = F(i - 1)
      BY <3>1
    <3>3. (i - 1) * q = i * q - q /\ i * q \in Int
      BY <1>1
    <3>4. F(i) = F(i - 1) + (q + (IF i <= r THEN 1 ELSE 0))
      <4> DEFINE p == i * q
      <4>1. p \in Int /\ (i - 1) * q = p - q
        BY <3>3
      <4> HIDE DEF p
      <4>2. F(i - 1) = (p - q) + (IF i - 1 <= r THEN i - 1 ELSE r)
        BY <4>1
      <4>3. F(i) = p + (IF i <= r THEN i ELSE r)
        BY DEF p
      <4>4. (p + (IF i <= r THEN i ELSE r)) = (p - q) + (IF i - 1 <= r THEN i - 1 ELSE r) + (q + (IF i <= r THEN 1 ELSE 0))
        BY <1>1, <3>1, <4>1
      <4> HIDE DEF F
      <4> QED BY <4>2, <4>3, <4>4
    <3> HIDE DEF F, g
    <3> QED BY <1>2, <2>1, <2>3, <3>1, <3>2, <3>4
  <2> QED BY <2>2, <2>3
<1>4. g = h
  BY <1>3
<1>5. Counts(g, cs)
  BY <1>4 DEF Counts
<1>6. SumWords(cs) = g[n]
  <2> HIDE DEF g
  <2> QED BY <1>5, SumIs
<1>7. g[n] = n * q + r
  BY <1>1
<1> QED BY <1>1, <1>6, <1>7

-----------------------------------------------------------------------------
(* Spreading words over chapters.                                          *)

\* One turn of the spreading, at chapter i.
OneWord(before, i, diff) ==
    IF diff > 0 /\ before[i].words < MaxChapter THEN [before EXCEPT ![i].words = @ + 1]
    ELSE IF diff < 0 /\ before[i].words > MinChapter THEN [before EXCEPT ![i].words = @ - 1]
    ELSE before

TurnAt(f, cs, diff, k) == IF k = 0 THEN cs ELSE OneWord(f[k - 1], ((k - 1) % Len(cs)) + 1, diff)

Spreads(f, cs, diff, m) == f = [k \in 0..m |-> TurnAt(f, cs, diff, k)]

Turns(diff) == IF diff < 0 THEN -diff ELSE diff

LEMMA SpreadIs ==
    ASSUME NEW cs, NEW diff
    PROVE  Spread(cs, diff) = (CHOOSE f : Spreads(f, cs, diff, Turns(diff)))[Turns(diff)]
  BY DEF Spread, Spreads, TurnAt, Turns, OneWord

LEMMA SpreadAt ==
    ASSUME NEW cs, NEW diff, NEW m \in Nat, NEW f, Spreads(f, cs, diff, m), NEW k \in 0..m
    PROVE  f[k] = TurnAt(f, cs, diff, k)
  BY DEF Spreads

LEMMA SpreadExists ==
    ASSUME NEW cs, NEW diff, NEW t \in Nat
    PROVE  \E f : Spreads(f, cs, diff, t)
<1> DEFINE Bad == {n \in Nat : ~ \E f : Spreads(f, cs, diff, n)}
<1>1. Bad = {}
  <2> SUFFICES ASSUME Bad # {} PROVE FALSE
    OBVIOUS
  <2>1. PICK m \in Bad : \A n \in Bad : m <= n
    BY LeastNumber
  <2>2. CASE m = 0
    <3> DEFINE h == [k \in 0..0 |-> cs]
    <3>1. h = [k \in 0..0 |-> TurnAt(h, cs, diff, k)]
      BY DEF TurnAt
    <3>2. Spreads(h, cs, diff, 0)
      BY <3>1 DEF Spreads
    <3> QED BY <2>1, <2>2, <3>2
  <2>3. CASE m # 0
    <3>1. m \in Nat /\ m - 1 \in Nat /\ m - 1 \notin Bad
      <4>1. m \in Nat /\ m - 1 \in Nat /\ ~ (m <= m - 1)
        BY <2>1, <2>3
      <4> HIDE DEF Bad
      <4> QED BY <2>1, <4>1
    <3>2. PICK g : Spreads(g, cs, diff, m - 1)
      BY <3>1
    <3> DEFINE h == [k \in 0..m |-> TurnAt(g, cs, diff, k)]
    <3>3. ASSUME NEW k \in 0..(m - 1) PROVE g[k] = h[k]
      <4>1. g[k] = TurnAt(g, cs, diff, k)
        BY <3>1, <3>2, SpreadAt
      <4>2. k \in 0..m
        BY <3>1
      <4> QED BY <4>1, <4>2
    <3>4. ASSUME NEW k \in 0..m PROVE TurnAt(g, cs, diff, k) = TurnAt(h, cs, diff, k)
      <4>1. k # 0 => k - 1 \in 0..(m - 1)
        BY <3>1
      <4>2. k # 0 => g[k - 1] = h[k - 1]
        BY <3>3, <4>1
      <4> HIDE DEF h
      <4> QED BY <4>2 DEF TurnAt
    <3>5. h = [k \in 0..m |-> TurnAt(h, cs, diff, k)]
      <4> DEFINE v == [k \in 0..m |-> TurnAt(h, cs, diff, k)]
      <4>1. v = [k \in 0..m |-> TurnAt(g, cs, diff, k)]
        <5> HIDE DEF h
        <5> QED BY <3>4
      <4> QED BY <4>1
    <3>6. Spreads(h, cs, diff, m)
      <4> HIDE DEF h
      <4> QED BY <3>5 DEF Spreads
    <3> HIDE DEF h
    <3> QED BY <2>1, <3>6
  <2> QED BY <2>2, <2>3
<1> QED BY <1>1

\* What no repair of numbers touches: how many chapters there are and what they refer to.
SameReferences(x, cs) ==
    /\ x \in Seq(ChapterRows) /\ Len(x) = Len(cs)
    /\ \A i \in 1..Len(cs) : x[i].wrong = cs[i].wrong

LEMMA OneWordKeeps ==
    ASSUME NEW cs \in Seq(ChapterRows), NEW x, SameReferences(x, cs), NEW i \in 1..Len(cs), NEW diff \in Int
    PROVE  SameReferences(OneWord(x, i, diff), cs)
<1>1. x \in Seq(ChapterRows) /\ Len(x) = Len(cs) /\ i \in 1..Len(x) /\ x[i] \in ChapterRows
  BY DEF SameReferences
<1>2. ASSUME NEW w \in Int PROVE SameReferences([x EXCEPT ![i].words = w], cs)
  <2>1. [x[i] EXCEPT !.words = w] \in ChapterRows /\ [x[i] EXCEPT !.words = w].wrong = x[i].wrong
    BY <1>1 DEF ChapterRows
  <2> DEFINE y == [x EXCEPT ![i] = [x[i] EXCEPT !.words = w]]
  <2>2. [x EXCEPT ![i].words = w] = y
    BY <1>1
  <2>3. y \in Seq(ChapterRows) /\ Len(y) = Len(x)
    BY <1>1, <2>1
  <2>4. \A j \in 1..Len(x) : y[j] = IF j = i THEN [x[i] EXCEPT !.words = w] ELSE x[j]
    BY <1>1
  <2> HIDE DEF y
  <2> QED BY <1>1, <2>1, <2>2, <2>3, <2>4 DEF SameReferences
<1>3. x[i].words \in Int /\ x[i].words + 1 \in Int /\ x[i].words - 1 \in Int
  <2>1. \A c \in ChapterRows : c.words \in Int
    BY DEF ChapterRows
  <2>2. \A w \in Int : w + 1 \in Int /\ w - 1 \in Int
    OBVIOUS
  <2>3. x[i].words \in Int
    BY <1>1, <2>1, Zenon
  <2> QED BY <2>2, <2>3, Zenon
<1>4. OneWord(x, i, diff) \in {x, [x EXCEPT ![i].words = x[i].words + 1], [x EXCEPT ![i].words = x[i].words - 1]}
  BY DEF OneWord
<1> QED BY <1>2, <1>3, <1>4

LEMMA SpreadKeeps ==
    ASSUME NEW cs \in Seq(ChapterRows), Len(cs) >= 1, NEW diff \in Int
    PROVE  SameReferences(Spread(cs, diff), cs)
<1> DEFINE t == Turns(diff)
           f == CHOOSE g : Spreads(g, cs, diff, t)
           Bad == {n \in Nat : n <= t /\ ~ SameReferences(f[n], cs)}
<1>1. t \in Nat
  BY DEF Turns
<1> HIDE DEF t
<1>2. Spreads(f, cs, diff, t)
  BY <1>1, SpreadExists
<1>3. Spread(cs, diff) = f[t]
  BY SpreadIs DEF t
<1> HIDE DEF f
<1>4. Bad = {}
  <2> SUFFICES ASSUME Bad # {} PROVE FALSE
    OBVIOUS
  <2>1. PICK m \in Bad : \A n \in Bad : m <= n
    BY LeastNumber
  <2>2. m \in 0..t /\ ~ SameReferences(f[m], cs)
    BY <1>1, <2>1
  <2>3. m # 0
    <3>1. SameReferences(cs, cs)
      BY DEF SameReferences
    <3>2. f[0] = TurnAt(f, cs, diff, 0) /\ TurnAt(f, cs, diff, 0) = cs
      <4>1. 0 \in 0..t
        BY <1>1
      <4>2. f[0] = TurnAt(f, cs, diff, 0)
        BY <1>1, <1>2, <4>1, SpreadAt
      <4>3. TurnAt(f, cs, diff, 0) = cs
        BY DEF TurnAt
      <4> QED BY <4>2, <4>3
    <3> QED BY <2>2, <3>1, <3>2
  <2>4. m - 1 \in 0..t /\ m - 1 \in Nat /\ ~ (m <= m - 1)
    BY <1>1, <2>2, <2>3
  <2>5. SameReferences(f[m - 1], cs)
    BY <1>1, <2>1, <2>4
  <2> DEFINE i == ((m - 1) % Len(cs)) + 1
  <2>6. i \in 1..Len(cs)
    <3>1. Len(cs) \in Nat /\ Len(cs) > 0
      OBVIOUS
    <3>2. (m - 1) % Len(cs) \in Nat /\ (m - 1) % Len(cs) < Len(cs)
      BY <2>4, <3>1, Division
    <3> QED BY <3>1, <3>2
  <2>7. f[m] = OneWord(f[m - 1], i, diff)
    BY <1>1, <1>2, <2>2, <2>3, SpreadAt DEF TurnAt
  <2> HIDE DEF i
  <2> QED BY <2>2, <2>5, <2>6, <2>7, OneWordKeeps
<1>5. t <= t
  BY <1>1
<1> QED BY <1>1, <1>3, <1>4, <1>5

LEMMA NothingToSpread == ASSUME NEW cs PROVE Spread(cs, 0) = cs
<1>1. Turns(0) = 0
  BY DEF Turns
<1> DEFINE f == CHOOSE g : Spreads(g, cs, 0, 0)
<1>2. Spreads(f, cs, 0, 0)
  BY SpreadExists
<1>3. Spread(cs, 0) = f[0]
  BY <1>1, SpreadIs
<1> HIDE DEF f
<1>4. f[0] = TurnAt(f, cs, 0, 0)
  BY <1>2, SpreadAt
<1>5. TurnAt(f, cs, 0, 0) = cs
  BY DEF TurnAt
<1> QED BY <1>3, <1>4, <1>5

-----------------------------------------------------------------------------
(* The repair.                                                             *)

\* The chapters of the repaired plan before words are spread.
Parts(b) ==
    [i \in 1..Len(b.chapters) |->
        [b.chapters[i] EXCEPT !.number = i,
                              !.words = Assigned(ClampTo(b.total, MinTotal, MaxTotal), Len(b.chapters), i),
                              !.anchored = @ /\ AnchorAfter(b) # "none"]]

LEMMA RepairedIs ==
    ASSUME NEW b \in Proposals
    PROVE  /\ Repaired(b).total = ClampTo(b.total, MinTotal, MaxTotal) /\ Repaired(b).anchor = AnchorAfter(b)
           /\ Repaired(b).chapters
                = Spread(Parts(b), ClampTo(b.total, MinTotal, MaxTotal) - SumWords(Parts(b)))
<1>1. Len(b.chapters) # 0
  BY DEF Proposals
<1> QED BY <1>1 DEF Repaired, Parts

LEMMA BookFits ==
    ASSUME NEW x \in Int
    PROVE  ClampTo(x, MinTotal, MaxTotal) \in MinTotal..MaxTotal /\ ClampTo(x, MinTotal, MaxTotal) \in Nat
<1>1. MinTotal \in Nat /\ MaxTotal \in Nat /\ MinTotal <= MaxTotal
  BY LimitsAssumption
<1> QED BY <1>1 DEF ClampTo

LEMMA PartsAre ==
    ASSUME NEW b \in Proposals, NEW i \in 1..Len(b.chapters)
    PROVE  /\ Parts(b)[i].number = i /\ Parts(b)[i].wrong = b.chapters[i].wrong
           /\ Parts(b)[i].words = Assigned(ClampTo(b.total, MinTotal, MaxTotal), Len(b.chapters), i)
           /\ Parts(b)[i].anchored = (b.chapters[i].anchored /\ AnchorAfter(b) # "none")
<1>1. b.chapters[i] \in ChapterRows
  BY DEF Proposals
<1> QED BY <1>1 DEF Parts, ChapterRows

LEMMA PartsType ==
    ASSUME NEW b \in Proposals
    PROVE  Parts(b) \in Seq(ChapterRows) /\ Len(Parts(b)) = Len(b.chapters)
<1>1. Len(b.chapters) \in Nat /\ Len(b.chapters) > 0
  BY DEF Proposals
<1>2. ASSUME NEW i \in 1..Len(b.chapters)
      PROVE  [b.chapters[i] EXCEPT !.number = i,
                              !.words = Assigned(ClampTo(b.total, MinTotal, MaxTotal), Len(b.chapters), i),
                              !.anchored = @ /\ AnchorAfter(b) # "none"] \in ChapterRows
  <2>1. b.chapters[i] \in ChapterRows /\ b.total \in Int
    BY DEF Proposals
  <2>2. Assigned(ClampTo(b.total, MinTotal, MaxTotal), Len(b.chapters), i) \in Int
    <3> DEFINE t == ClampTo(b.total, MinTotal, MaxTotal)
    <3>1. t \in Nat
      BY <2>1, BookFits
    <3>2. t \div Len(b.chapters) \in Nat
      BY <1>1, <3>1, Division
    <3>3. MinChapter \in Int /\ MaxChapter \in Int
      BY LimitsAssumption
    <3> HIDE DEF t
    <3>4. Assigned(t, Len(b.chapters), i) \in Int
      BY <3>2, <3>3 DEF Assigned, ClampTo
    <3> QED BY <3>4 DEF t
  <2>3. i \in Int
    BY <1>1
  <2> DEFINE w == Assigned(ClampTo(b.total, MinTotal, MaxTotal), Len(b.chapters), i)
             c == b.chapters[i]
             y == c.anchored /\ AnchorAfter(b) # "none"
  <2>4. c \in ChapterRows /\ w \in Int /\ y \in BOOLEAN
    BY <2>1, <2>2 DEF ChapterRows
  <2>5. [c EXCEPT !.number = i, !.words = w, !.anchored = @ /\ AnchorAfter(b) # "none"]
           = [number |-> i, words |-> w, anchored |-> y, wrong |-> c.wrong]
    <3> DEFINE p == AnchorAfter(b) # "none"
               c1 == [number |-> i, words |-> c.words, anchored |-> c.anchored, wrong |-> c.wrong]
               c2 == [number |-> i, words |-> w, anchored |-> c.anchored, wrong |-> c.wrong]
    <3> HIDE DEF c, w, p
    <3>1. c = [number |-> c.number, words |-> c.words, anchored |-> c.anchored, wrong |-> c.wrong]
      BY <2>4 DEF ChapterRows
    <3>2. [c EXCEPT !.number = i] = c1
      BY <3>1
    <3>3. [c1 EXCEPT !.words = w] = c2
      OBVIOUS
    <3>4. [c2 EXCEPT !.anchored = @ /\ p] = [number |-> i, words |-> w, anchored |-> c.anchored /\ p, wrong |-> c.wrong]
      OBVIOUS
    <3> HIDE DEF c1, c2
    <3>5. [c EXCEPT !.number = i, !.words = w, !.anchored = @ /\ p]
             = [[[c EXCEPT !.number = i] EXCEPT !.words = w] EXCEPT !.anchored = @ /\ p]
      OBVIOUS
    <3> QED BY <3>2, <3>3, <3>4, <3>5 DEF p
  <2>6. [number |-> i, words |-> w, anchored |-> y, wrong |-> c.wrong] \in ChapterRows
    <3> HIDE DEF c, w, y
    <3> QED BY <2>3, <2>4 DEF ChapterRows
  <2> QED BY <2>5, <2>6
<1>3. Parts(b) \in [1..Len(b.chapters) -> ChapterRows]
  BY <1>2 DEF Parts
<1> QED BY <1>1, <1>3

\* The repair leaves the number of chapters and what they refer to.
LEMMA RepairedKeeps ==
    ASSUME NEW b \in Proposals
    PROVE  SameReferences(Repaired(b).chapters, b.chapters)
<1> DEFINE d == ClampTo(b.total, MinTotal, MaxTotal) - SumWords(Parts(b))
<1>1. d \in Int
  <2>1. b.total \in Int
    BY DEF Proposals
  <2>2. SumWords(Parts(b)) \in Int
    BY PartsType, SumType
  <2> QED BY <2>1, <2>2, BookFits
<1>2. Len(Parts(b)) >= 1
  BY PartsType DEF Proposals
<1> HIDE DEF d
<1>3. SameReferences(Spread(Parts(b), d), Parts(b))
  BY <1>1, <1>2, PartsType, SpreadKeeps
<1>4. Repaired(b).chapters = Spread(Parts(b), d)
  BY RepairedIs DEF d
<1> QED BY <1>3, <1>4, PartsType, PartsAre DEF SameReferences

\* With an allowed number of chapters the parts are the repaired chapters: nothing is spread.
LEMMA RepairedParts ==
    ASSUME NEW b \in Proposals, Len(b.chapters) \in MinChapters..MaxChapters
    PROVE  /\ Repaired(b).chapters = Parts(b)
           /\ SumWords(Parts(b)) = Repaired(b).total /\ Repaired(b).total \in MinTotal..MaxTotal
           /\ \A i \in 1..Len(b.chapters) : Parts(b)[i].words \in MinChapter..MaxChapter
<1> DEFINE t == ClampTo(b.total, MinTotal, MaxTotal)
           n == Len(b.chapters)
<1>1. t \in MinTotal..MaxTotal /\ t \in Nat
  <2>1. b.total \in Int
    BY DEF Proposals
  <2> QED BY <2>1, BookFits
<1>2. n \in Nat /\ n > 0 /\ n \in MinChapters..MaxChapters
  BY DEF Proposals
<1>3. ASSUME NEW i \in 1..n
      PROVE  /\ Parts(b)[i].words = t \div n + (IF i <= t % n THEN 1 ELSE 0)
             /\ Parts(b)[i].words \in MinChapter..MaxChapter
  <2>1. Parts(b)[i].words = Assigned(t, n, i)
    BY PartsAre
  <2> HIDE DEF t, n
  <2> QED BY <1>1, <1>2, <2>1, PartFits
<1>4. Len(Parts(b)) = n
  BY PartsType
<1>5. Repaired(b).chapters = Spread(Parts(b), t - SumWords(Parts(b))) /\ Repaired(b).total = t
  BY RepairedIs
<1> HIDE DEF t, n
<1>6. SumWords(Parts(b)) = t
  BY <1>1, <1>2, <1>3, <1>4, PartsAddUp
<1>7. t - SumWords(Parts(b)) = 0
  BY <1>1, <1>6
<1>8. Repaired(b).chapters = Parts(b)
  BY <1>5, <1>7, NothingToSpread
<1> QED BY <1>1, <1>3, <1>5, <1>6, <1>8 DEF n

LEMMA MendedIsValid ==
    ASSUME NEW b \in Proposals, Len(b.chapters) \in MinChapters..MaxChapters, ReferencesAreRight(b),
           ~ (b.anchor = "empty" /\ \E i \in 1..Len(b.chapters) : b.chapters[i].anchored)
    PROVE  ValidBlueprint(Repaired(b))
<1> DEFINE w == Repaired(b)
           n == Len(b.chapters)
<1>1. w.chapters = Parts(b) /\ Len(w.chapters) = n /\ n \in Nat
  BY RepairedParts, PartsType DEF Proposals
<1>2. NumbersAreRight(w.chapters)
  <2>1. \A i \in 1..n : w.chapters[i].number = i
    BY <1>1, PartsAre
  <2>2. {w.chapters[i].number : i \in 1..n} = 1..n
    <3> HIDE DEF w, n
    <3> QED BY <2>1
  <2> QED BY <1>1, <2>2 DEF NumbersAreRight
<1>3. BudgetsAreRight(w)
  BY <1>1, RepairedParts DEF BudgetsAreRight
<1>4. AnchorsAreRight(w)
  <2>1. w.anchor = AnchorAfter(b) /\ b.anchor \in {"none", "empty", "held", "invented"}
    BY RepairedIs DEF Proposals
  <2>2. w.anchor # "invented"
    BY <2>1 DEF AnchorAfter
  <2>3. ASSUME NEW i \in 1..n, w.chapters[i].anchored PROVE w.anchor \notin {"none", "empty"}
    <3>1. w.chapters[i].anchored = (b.chapters[i].anchored /\ AnchorAfter(b) # "none")
      BY <1>1, PartsAre
    <3>2. b.chapters[i].anchored /\ AnchorAfter(b) # "none"
      BY <2>3, <3>1
    <3>3. b.anchor # "empty"
      BY <3>2
    <3> QED BY <2>1, <3>2, <3>3 DEF AnchorAfter
  <2> HIDE DEF w
  <2> QED BY <1>1, <2>2, <2>3 DEF AnchorsAreRight
<1>5. ReferencesAreRight(w)
  BY <1>1, PartsAre DEF ReferencesAreRight
<1> QED BY <1>1, <1>2, <1>3, <1>4, <1>5 DEF ValidBlueprint

-----------------------------------------------------------------------------
(* The steps.                                                              *)

LEMMA BlueprintStart == BlueprintInit => BlueprintIInv
  BY DEF BlueprintInit, BlueprintIInv, NoPlanReport

LEMMA ProposalIsNotNothing == NoPlan \notin Proposals
  BY DEF NoPlan, Proposals

LEMMA PlannedIs ==
    ASSUME BlueprintIInv, PlanBook
    PROVE  BlueprintIInv'
<1>1. proposed \in Proposals /\ proposed' = proposed
  BY DEF PlanBook, BlueprintIInv
<1>2. CASE /\ ValidBlueprint(proposed) /\ blueprint' = proposed
           /\ planReport' = [valid |-> TRUE, repaired |-> FALSE]
  BY <1>1, <1>2 DEF BlueprintIInv
<1>3. CASE /\ ValidBlueprint(Repaired(proposed)) /\ blueprint' = Repaired(proposed)
           /\ planReport' = [valid |-> TRUE, repaired |-> TRUE]
  BY <1>1, <1>3 DEF BlueprintIInv
<1>4. CASE /\ ~ (ValidBlueprint(proposed) \/ ValidBlueprint(Repaired(proposed)))
           /\ blueprint' = proposed /\ planReport' = NoPlanReport
  BY <1>1, <1>4 DEF BlueprintIInv, NoPlanReport
<1> QED BY <1>2, <1>3, <1>4 DEF PlanBook

LEMMA ProposedIs ==
    ASSUME BlueprintIInv, NEW b \in Proposals, Propose(b)
    PROVE  BlueprintIInv'
<1>1. proposed = NoPlan /\ proposed' = b /\ blueprint' = blueprint /\ planReport' = planReport
  BY DEF Propose
<1>2. blueprint = NoPlan /\ ~ planReport.valid
  BY <1>1, ProposalIsNotNothing DEF BlueprintIInv
<1> QED BY <1>1, <1>2 DEF BlueprintIInv

ProposalOf(n, number, words, anchored, total, anchor, wrong) ==
    [total |-> total, anchor |-> anchor,
     chapters |-> [i \in 1..n |-> [number |-> number[i], words |-> words[i],
                     anchored |-> anchored, wrong |-> IF i = n THEN wrong ELSE "none"]]]

LEMMA ProposalsAre ==
    ASSUME NEW n \in 1..(MaxChapters + 1), NEW number \in [1..n -> ChapterNumbers], NEW words \in [1..n -> ChapterWords],
           NEW anchored \in BOOLEAN, NEW total \in {MinTotal - 1, MinTotal, MinTotal + 1, MaxTotal + 2},
           NEW anchor \in {"none", "empty", "held", "invented"},
           NEW wrong \in {"none", "unknown", "ungrounded", "year"}
    PROVE  ProposalOf(n, number, words, anchored, total, anchor, wrong) \in Proposals
<1> DEFINE cs == [i \in 1..n |-> [number |-> number[i], words |-> words[i],
                            anchored |-> anchored, wrong |-> IF i = n THEN wrong ELSE "none"]]
<1>1. MinChapter \in Nat /\ MinTotal \in Nat /\ MaxTotal \in Nat /\ MaxChapters \in Nat
  BY LimitsAssumption
<1>2. n \in Nat /\ n >= 1 /\ total \in Int
  BY <1>1
<1>3. ASSUME NEW i \in 1..n
      PROVE  [number |-> number[i], words |-> words[i], anchored |-> anchored,
              wrong |-> IF i = n THEN wrong ELSE "none"] \in ChapterRows
  <2>1. number[i] \in Int /\ words[i] \in Int
    BY <1>1 DEF ChapterNumbers, ChapterWords
  <2>2. (IF i = n THEN wrong ELSE "none") \in {"none", "unknown", "ungrounded", "year"}
    OBVIOUS
  <2> QED BY <2>1, <2>2 DEF ChapterRows
<1>4. cs \in [1..n -> ChapterRows]
  BY <1>3
<1> HIDE DEF cs
<1>5. cs \in Seq(ChapterRows) /\ Len(cs) = n
  BY <1>2, <1>4
<1>6. [total |-> total, anchor |-> anchor, chapters |-> cs] \in Proposals
  BY <1>2, <1>5 DEF Proposals
<1> QED BY <1>6 DEF cs, ProposalOf

LEMMA BlueprintStep == BlueprintIInv /\ [BlueprintNext]_blueprintVars => BlueprintIInv'
<1> SUFFICES ASSUME BlueprintIInv, [BlueprintNext]_blueprintVars PROVE BlueprintIInv'
  OBVIOUS
<1>1. ASSUME \E n \in 1..(MaxChapters + 1) :
                \E number \in [1..n -> ChapterNumbers], words \in [1..n -> ChapterWords], anchored \in BOOLEAN,
                   total \in {MinTotal - 1, MinTotal, MinTotal + 1, MaxTotal + 2},
                   anchor \in {"none", "empty", "held", "invented"},
                   wrong \in {"none", "unknown", "ungrounded", "year"} :
                  Propose([total |-> total, anchor |-> anchor,
                           chapters |-> [i \in 1..n |-> [number |-> number[i], words |-> words[i],
                                           anchored |-> anchored, wrong |-> IF i = n THEN wrong ELSE "none"]]])
      PROVE  BlueprintIInv'
  <2>0. PICK n \in 1..(MaxChapters + 1) :
                \E number \in [1..n -> ChapterNumbers], words \in [1..n -> ChapterWords], anchored \in BOOLEAN,
                   total \in {MinTotal - 1, MinTotal, MinTotal + 1, MaxTotal + 2},
                   anchor \in {"none", "empty", "held", "invented"},
                   wrong \in {"none", "unknown", "ungrounded", "year"} :
                  Propose([total |-> total, anchor |-> anchor,
                           chapters |-> [i \in 1..n |-> [number |-> number[i], words |-> words[i],
                                           anchored |-> anchored, wrong |-> IF i = n THEN wrong ELSE "none"]]])
    BY <1>1, Zenon
  <2>1. PICK number \in [1..n -> ChapterNumbers], words \in [1..n -> ChapterWords],
             anchored \in BOOLEAN, total \in {MinTotal - 1, MinTotal, MinTotal + 1, MaxTotal + 2},
             anchor \in {"none", "empty", "held", "invented"},
             wrong \in {"none", "unknown", "ungrounded", "year"} :
                Propose([total |-> total, anchor |-> anchor,
                         chapters |-> [i \in 1..n |-> [number |-> number[i], words |-> words[i],
                                         anchored |-> anchored, wrong |-> IF i = n THEN wrong ELSE "none"]]])
    BY <2>0, Zenon
  <2> DEFINE b == [total |-> total, anchor |-> anchor,
                   chapters |-> [i \in 1..n |-> [number |-> number[i], words |-> words[i],
                                   anchored |-> anchored, wrong |-> IF i = n THEN wrong ELSE "none"]]]
  <2>2. b \in Proposals
    <3>1. ProposalOf(n, number, words, anchored, total, anchor, wrong) \in Proposals
      BY ProposalsAre
    <3> QED BY <3>1, Zenon DEF ProposalOf
  <2>3. Propose(b)
    BY <2>1
  <2> HIDE DEF b
  <2> QED BY <2>2, <2>3, ProposedIs
<1>2. CASE PlanBook
  BY <1>2, PlannedIs
<1>3. CASE UNCHANGED blueprintVars
  BY <1>3 DEF blueprintVars, BlueprintIInv
<1> QED BY <1>1, <1>2, <1>3 DEF BlueprintNext

LEMMA PlansAreSound == BlueprintIInv => PlanIsSound
<1> SUFFICES ASSUME BlueprintIInv, planReport.valid
             PROVE  /\ Len(blueprint.chapters) \in MinChapters..MaxChapters
                    /\ \A n \in 1..Len(blueprint.chapters) :
                          \E i \in 1..Len(blueprint.chapters) : blueprint.chapters[i].number = n
                    /\ SumWords(blueprint.chapters) = blueprint.total
                    /\ \A i \in 1..Len(blueprint.chapters) : /\ blueprint.chapters[i].words \in MinChapter..MaxChapter
                                                        /\ proposed.chapters[i].wrong = "none"
                    /\ blueprint.anchor # "invented"
  BY DEF PlanIsSound
<1>1. ValidBlueprint(blueprint) /\ proposed \in Proposals /\ (blueprint = proposed \/ blueprint = Repaired(proposed))
  BY DEF BlueprintIInv
<1>2. \A n \in 1..Len(blueprint.chapters) : \E i \in 1..Len(blueprint.chapters) : blueprint.chapters[i].number = n
  BY <1>1 DEF ValidBlueprint, NumbersAreRight
<1>3. \A i \in 1..Len(blueprint.chapters) : proposed.chapters[i].wrong = blueprint.chapters[i].wrong
  BY <1>1, RepairedKeeps DEF SameReferences
<1> QED BY <1>1, <1>2, <1>3 DEF ValidBlueprint, BudgetsAreRight, AnchorsAreRight, ReferencesAreRight

LEMMA NoPlanIsLost == BlueprintIInv => ArithmeticNeverFailsABook
  BY MendedIsValid DEF BlueprintIInv, ArithmeticNeverFailsABook

\* For any limits with room for every allowed book: a plan that is accepted is in its limits, adds up
\* to the words it promises and cites what there is, and none is refused for arithmetic that the
\* repair can mend (validate_blueprint, repair_blueprint_arithmetic).
THEOREM BlueprintCorrect == BlueprintSpec => []BlueprintInv
<1>1. BlueprintIInv => BlueprintInv
  BY PlansAreSound, NoPlanIsLost DEF BlueprintInv
<1> QED BY <1>1, BlueprintStart, BlueprintStep, PTL DEF BlueprintSpec

-----------------------------------------------------------------------------
(* Mentions and people (EntityResolution).                                 *)

ResolveSpec == ResolveInit /\ [][ResolveNext]_resolveVars

ResolveIInv ==
    /\ ResolveTypeOK
    /\ resolution = NoResolution \/ resolution = Resolved

LEMMA ChosenIs ==
    ASSUME NEW collided, NEW resolvable, NEW m, NEW f, f = Chosen(collided, resolvable), m \in DOMAIN f
    PROVE  m \in Mentions /\ f[m] \in ArchivePeople /\ Compatible(m, collided) = {f[m]} /\ <<m, f[m]>> \in resolvable
<1>1. m \in Mentions
  BY DEF Chosen
<1>2. PICK p \in ArchivePeople : Compatible(m, collided) = {p} /\ <<m, p>> \in resolvable
  BY DEF Chosen
<1>3. Chosen(collided, resolvable)[m] = CHOOSE q \in ArchivePeople : Compatible(m, collided) = {q}
  BY DEF Chosen
<1>4. \A q \in ArchivePeople : Compatible(m, collided) = {q} => q = p
  BY <1>2
<1>5. Chosen(collided, resolvable)[m] = p
  BY <1>2, <1>3, <1>4
<1> QED BY <1>1, <1>2, <1>5

\* What the resolver goes through, step by step.
Seedable == {k \in Mentions \X ArchivePeople : IsSeedResolvable(k[1], k[2])}
First == Chosen({}, Seedable)
Collided == IdentityCollisions(First)
Seeds == [m \in DOMAIN First \ Collided |-> First[m]]
Linked == {k \in Mentions \X ArchivePeople : GraphNeighbour(k[1], k[2], Seeds)}
Final == Chosen(Collided, Seedable \cup Linked)

LEMMA ResolvedIs ==
    Resolved = [m \in Mentions |->
                   IF m \in DOMAIN Final \ IdentityCollisions(Final) THEN Final[m]
                   ELSE IF Candidates(m) # {} THEN "review" ELSE "new"]
  BY DEF Resolved, Seedable, First, Collided, Seeds, Linked, Final, FinalCollisions

LEMMA WhoIsResolved ==
    ASSUME NEW m \in Mentions, Resolved[m] \in ArchivePeople
    PROVE  m \in DOMAIN Final /\ m \notin IdentityCollisions(Final) /\ Resolved[m] = Final[m]
  BY ResolvedIs DEF ArchivePeople

LEMMA ResolvedType == Resolved \in [Mentions -> ArchivePeople \cup {"review", "new"}]
  BY ResolvedIs, ChosenIs DEF Final

LEMMA ResolvedIsSomething == Resolved # NoResolution
<1>1. 1 \in Mentions
  BY DEF Mentions
<1>2. Resolved[1] \in ArchivePeople \cup {"review", "new"} /\ NoResolution[1] = "none"
  BY <1>1, ResolvedType DEF NoResolution
<1> QED BY <1>2 DEF ArchivePeople

-----------------------------------------------------------------------------
(* What holds of every answer of the resolver.                             *)

LEMMA TwoEnds ==
    ASSUME NEW c \in Pairs, Grounded(c), Resolved[c[1]] \in ArchivePeople
    PROVE  Resolved[c[1]] # Resolved[c[2]]
<1> SUFFICES ASSUME Resolved[c[1]] = Resolved[c[2]] PROVE FALSE
  OBVIOUS
<1>1. c[1] \in Mentions /\ c[2] \in Mentions
  BY DEF Pairs, Mentions
<1>2. /\ c[1] \in DOMAIN Final /\ c[2] \in DOMAIN Final /\ Final[c[1]] = Final[c[2]]
      /\ c[1] \notin IdentityCollisions(Final)
  BY <1>1, WhoIsResolved
<1>3. c[1] \in IdentityCollisions(Final)
  BY <1>1, <1>2 DEF IdentityCollisions
<1> QED BY <1>2, <1>3

\* The seeds of the graph are people the other mention may be.
LEMMA SeedIsCandidate ==
    ASSUME NEW n \in DOMAIN Seeds
    PROVE  n \in Mentions /\ Seeds[n] \in ArchivePeople /\ seen[n][Seeds[n]].name # "none"
<1>1. n \in DOMAIN First /\ Seeds[n] = First[n]
  BY DEF Seeds
<1>2. n \in Mentions /\ First[n] \in ArchivePeople /\ Compatible(n, {}) = {First[n]} /\ <<n, First[n]>> \in Seedable
  BY <1>1, ChosenIs DEF First
<1>3. First[n] \in Candidates(n)
  BY <1>2 DEF Compatible
<1> QED BY <1>1, <1>2, <1>3 DEF Candidates

LEMMA Neighbours ==
    ASSUME NEW p \in ArchivePeople, NEW role, NEW q \in ExpectedNeighbours(p, role)
    PROVE  /\ q # p
           /\ role = "spouse" => archive = "spouse"
           /\ role = "parent" => archive = (IF p = "x" THEN "parent" ELSE "child")
           /\ role = "child" => archive = (IF p = "x" THEN "child" ELSE "parent")
  BY DEF ExpectedNeighbours, ArchivePeople

\* A relative who was resolved first, standing where the archive has one.
Relative(n, p, ofX, ofY) ==
    /\ \E q \in ArchivePeople \ {p} : seen[n][q].name # "none"
    /\ archive = (IF p = "x" THEN ofX ELSE ofY)

LEMMA LinkedByAClaim ==
    ASSUME NEW m \in Mentions, NEW p \in ArchivePeople, GraphNeighbour(m, p, Seeds)
    PROVE  \/ \E c \in Pairs : m \in {c[1], c[2]} /\ claims[c] = "spouse"
                 /\ Relative(CHOOSE n \in {c[1], c[2]} : n # m, p, "spouse", "spouse")
           \/ \E c \in Pairs : m = c[1] /\ claims[c] = "parent" /\ Relative(c[2], p, "parent", "child")
           \/ \E c \in Pairs : m = c[2] /\ claims[c] = "parent" /\ Relative(c[1], p, "child", "parent")
<1>1. PICK c \in Pairs : \E n \in {c[1], c[2]} \ {m} :
         /\ Grounded(c) /\ m \in {c[1], c[2]} /\ n \in DOMAIN Seeds
         /\ Seeds[n] \in ExpectedNeighbours(p, RoleIn(c, m))
  BY DEF GraphNeighbour
<1>2. PICK n \in {c[1], c[2]} \ {m} :
         /\ Grounded(c) /\ m \in {c[1], c[2]} /\ n \in DOMAIN Seeds
         /\ Seeds[n] \in ExpectedNeighbours(p, RoleIn(c, m))
  BY <1>1
<1>3. c[1] # c[2]
  BY DEF Pairs
<1>4. \E q \in ArchivePeople \ {p} : seen[n][q].name # "none"
  BY <1>2, SeedIsCandidate, Neighbours
<1>5. CASE claims[c] = "spouse"
  <2>1. RoleIn(c, m) = "spouse"
    BY <1>5 DEF RoleIn
  <2>2. archive = "spouse"
    BY <1>2, <2>1, Neighbours
  <2>3. n = CHOOSE k \in {c[1], c[2]} : k # m
    BY <1>2, <1>3
  <2> QED BY <1>2, <1>4, <1>5, <2>2, <2>3 DEF Relative
<1>6. CASE claims[c] = "parent" /\ m = c[1]
  <2>1. RoleIn(c, m) = "parent" /\ n = c[2]
    BY <1>2, <1>6 DEF RoleIn
  <2> QED BY <1>2, <1>4, <1>6, <2>1, Neighbours DEF Relative
<1>7. CASE claims[c] = "parent" /\ m = c[2]
  <2>1. RoleIn(c, m) = "child" /\ n = c[1]
    BY <1>2, <1>3, <1>7 DEF RoleIn
  <2> QED BY <1>2, <1>4, <1>7, <2>1, Neighbours DEF Relative
<1> QED BY <1>2, <1>5, <1>6, <1>7 DEF Grounded

\* What speaks for m being p.
Signs(m, p) ==
    /\ seen[m][p].name # "none" /\ seen[m][p].context # "conflicts"
    /\ \A q \in ArchivePeople \ {p} : seen[m][q].name # "none" => seen[m][q].context = "conflicts"
    /\ \/ seen[m][p].name \in {"variant", "verified"} \/ seen[m][p].context = "agrees"
       \/ \E c \in Pairs : m \in {c[1], c[2]} /\ claims[c] = "spouse"
             /\ Relative(CHOOSE n \in {c[1], c[2]} : n # m, p, "spouse", "spouse")
       \/ \E c \in Pairs : m = c[1] /\ claims[c] = "parent" /\ Relative(c[2], p, "parent", "child")
       \/ \E c \in Pairs : m = c[2] /\ claims[c] = "parent" /\ Relative(c[1], p, "child", "parent")

LEMMA ManySigns ==
    ASSUME NEW m \in Mentions, Resolved[m] \in ArchivePeople
    PROVE  Signs(m, Resolved[m])
<1> DEFINE p == Resolved[m]
<1>1. m \in DOMAIN Final /\ p = Final[m]
  BY WhoIsResolved
<1>2. p \in ArchivePeople /\ Compatible(m, Collided) = {p} /\ <<m, p>> \in Seedable \cup Linked
  BY <1>1, ChosenIs DEF Final
<1>3. Compatible(m, Collided) = {q \in Candidates(m) : seen[m][q].context # "conflicts"}
  BY <1>2 DEF Compatible
<1>4. seen[m][p].name # "none" /\ seen[m][p].context # "conflicts"
  BY <1>2, <1>3 DEF Candidates
<1>5. \A q \in ArchivePeople \ {p} : seen[m][q].name # "none" => seen[m][q].context = "conflicts"
  BY <1>2, <1>3 DEF Candidates
<1>6. CASE <<m, p>> \in Seedable
  <2>1. IsSeedResolvable(m, p)
    BY <1>6 DEF Seedable
  <2> HIDE DEF p
  <2> QED BY <1>4, <1>5, <2>1 DEF IsSeedResolvable, Signs, p
<1>7. CASE <<m, p>> \in Linked
  <2>1. GraphNeighbour(m, p, Seeds)
    BY <1>7 DEF Linked
  <2>2. \/ \E c \in Pairs : m \in {c[1], c[2]} /\ claims[c] = "spouse"
                 /\ Relative(CHOOSE n \in {c[1], c[2]} : n # m, p, "spouse", "spouse")
        \/ \E c \in Pairs : m = c[1] /\ claims[c] = "parent" /\ Relative(c[2], p, "parent", "child")
        \/ \E c \in Pairs : m = c[2] /\ claims[c] = "parent" /\ Relative(c[1], p, "child", "parent")
    BY <1>2, <2>1, LinkedByAClaim
  <2> HIDE DEF p
  <2> QED BY <1>4, <1>5, <2>2 DEF Signs, p
<1> QED BY <1>2, <1>6, <1>7

LEMMA SharedAlias ==
    ASSUME NEW m \in Mentions, \A p \in ArchivePeople : seen[m][p].name = "verified"
    PROVE  Resolved[m] = "review"
<1>1. {p \in Candidates(m) : seen[m][p].name = "verified"} = {"x", "y"} /\ Candidates(m) # {}
  BY DEF Candidates, ArchivePeople
<1>2. Cardinality({"x", "y"}) = 2
  <2>1. Cardinality({"x"}) = 1 /\ IsFiniteSet({"x"})
    BY FS_Singleton
  <2>2. Cardinality({"x"} \cup {"y"}) = Cardinality({"x"}) + 1 /\ {"x"} \cup {"y"} = {"x", "y"}
    BY <2>1, FS_AddElement
  <2> QED BY <2>1, <2>2
<1>3. VerifiedCollision(m)
  BY <1>1, <1>2 DEF VerifiedCollision
<1>4. Compatible(m, Collided) = {}
  BY <1>3 DEF Compatible
<1>5. ASSUME m \in DOMAIN Final PROVE FALSE
  <2>1. Compatible(m, Collided) = {Final[m]} /\ <<m, Final[m]>> \in Seedable \cup Linked
    BY <1>5, ChosenIs DEF Final
  <2> QED BY <1>4, <2>1
<1> QED BY <1>1, <1>5, ResolvedIs

-----------------------------------------------------------------------------
(* The steps.                                                              *)

LEMMA ResolveStart == ResolveInit => ResolveIInv
  BY DEF ResolveInit, ResolveIInv, ResolveTypeOK, NoResolution, Signals

\* The answer depends on what was read alone.
LEMMA SameAnswer == ASSUME UNCHANGED <<seen, claims, archive>> PROVE Resolved' = Resolved
<1>1. Seedable' = Seedable
  BY DEF Seedable, IsSeedResolvable
<1>2. First' = First
  BY <1>1 DEF First, Chosen, Compatible, VerifiedCollision, Candidates
<1>3. Collided' = Collided
  BY <1>2 DEF Collided, IdentityCollisions, Grounded
<1>4. Seeds' = Seeds
  BY <1>2, <1>3 DEF Seeds
<1>5. Linked' = Linked
  BY <1>4 DEF Linked, GraphNeighbour, ExpectedNeighbours, RoleIn, Grounded
<1>6. Final' = Final
  BY <1>1, <1>3, <1>5 DEF Final, Chosen, Compatible, VerifiedCollision, Candidates
<1>7. IdentityCollisions(Final)' = IdentityCollisions(Final) /\ \A m \in Mentions : Candidates(m)' = Candidates(m)
  BY <1>6 DEF IdentityCollisions, Grounded, Candidates
<1>8. (Resolved = [m \in Mentions |->
                   IF m \in DOMAIN Final \ IdentityCollisions(Final) THEN Final[m]
                   ELSE IF Candidates(m) # {} THEN "review" ELSE "new"])'
  BY DEF Resolved, Seedable, First, Collided, Seeds, Linked, Final, FinalCollisions
<1> QED BY <1>6, <1>7, <1>8, ResolvedIs

LEMMA ResolveStep == ResolveIInv /\ [ResolveNext]_resolveVars => ResolveIInv'
<1> SUFFICES ASSUME ResolveIInv, [ResolveNext]_resolveVars PROVE ResolveIInv'
  OBVIOUS
<1>1. ASSUME NEW c, NEW a, ReadClaims(c, a) PROVE ResolveIInv'
  BY <1>1 DEF ReadClaims, ResolveIInv, ResolveTypeOK
<1>2. ASSUME NEW m \in Mentions, NEW x \in Signals, NEW y \in Signals, ReadMention(m, x, y) PROVE ResolveIInv'
  <2>1. seen' \in [Mentions -> [ArchivePeople -> Signals]]
    BY <1>2 DEF ReadMention, ResolveIInv, ResolveTypeOK
  <2> QED BY <1>2, <2>1 DEF ReadMention, ResolveIInv, ResolveTypeOK
<1>3. CASE ResolveMentions
  <2>1. resolution' = Resolved /\ UNCHANGED <<seen, claims, archive>>
    BY <1>3 DEF ResolveMentions
  <2>2. Resolved' = Resolved
    BY <2>1, SameAnswer
  <2> QED BY <2>1, <2>2, ResolvedType DEF ResolveIInv, ResolveTypeOK
<1>4. CASE UNCHANGED resolveVars
  <2>1. UNCHANGED <<seen, claims, archive, resolution>>
    BY <1>4 DEF resolveVars
  <2>2. Resolved' = Resolved
    BY <2>1, SameAnswer
  <2> QED BY <2>1, <2>2 DEF ResolveIInv, ResolveTypeOK
<1> QED BY <1>1, <1>2, <1>3, <1>4 DEF ResolveNext

\* Whatever the names, kinship and relatives of two mentions say: the ends of a relationship are two
\* people, a name alone decides nobody, and an alias that two people share goes to review
\* (resolve_mentions).
THEOREM ResolveCorrect == ResolveSpec => []ResolveInv
<1>1. ResolveIInv => ResolveInv
  <2> SUFFICES ASSUME ResolveIInv PROVE ResolveInv
    OBVIOUS
  <2>1. TwoEndsAreTwo
    <3>1. \A c \in Pairs : c[1] \in Mentions
      BY DEF Pairs, Mentions
    <3> QED BY <3>1, TwoEnds DEF TwoEndsAreTwo, ResolveIInv, NoResolution, ArchivePeople
  <2>2. NameAloneNeverDecides
    <3>1. NameAloneNeverDecides <=> \A m \in Mentions : resolution[m] \in ArchivePeople => Signs(m, resolution[m])
      BY DEF NameAloneNeverDecides, Signs, Relative
    <3>2. CASE resolution = Resolved
      BY <3>1, <3>2, ManySigns
    <3>3. CASE resolution = NoResolution
      BY <3>1, <3>3 DEF NoResolution, ArchivePeople
    <3> QED BY <3>2, <3>3 DEF ResolveIInv
  <2>3. SharedAliasIsReviewed
    BY SharedAlias DEF SharedAliasIsReviewed, ResolveIInv
  <2> QED BY <2>1, <2>2, <2>3 DEF ResolveInv, ResolveIInv
<1> QED BY <1>1, ResolveStart, ResolveStep, PTL DEF ResolveSpec

-----------------------------------------------------------------------------
(* The gates of a chapter (ChapterGates).                                  *)

GateSpec == GateInit /\ [][GateNext]_gateVars

YearWords == {<<"none", 0>>, <<"four", 1924>>, <<"four", 1930>>, <<"short", 24>>, <<"short", 50>>,
              <<"words", 24>>, <<"decade", 20>>, <<"decade", 50>>}
TieWords == {<<"none", "none", "none">>, <<"a", "parent", "b">>, <<"b", "parent", "a">>, <<"b", "child", "a">>,
             <<"a", "spouse", "b">>, <<"c", "parent", "b">>, <<"a", "parent", "he">>, <<"a", "aunt_uncle", "b">>}
ToldWords == {<<"none", "none", "none">>, <<"p1", "parent", "p2">>, <<"p2", "parent", "p1">>}
NameWords == {"a", "b", "c", "x", "place"} \X {"inside", "plain", "after_in"}

Drafts ==
    [name : NameWords, year : YearWords, tie : TieWords, clause : Clauses, speech : {"none", "verbatim", "invented"},
     conflict : {"none", "open", "open_hedged"}, used : 0..2, told : ToldWords, usage : {0, 2},
     unknown : BOOLEAN, words : {"fits", "long"}, script : {"expected", "foreign", "few"}]

GateIInv ==
    /\ GateTypeOK
    /\ frozen = Unfrozen \/ frozen \in Snapshots
    /\ chapter \in Drafts
    /\ verdict # NoReview => frozen # Unfrozen
    /\ Approved => Blockers(chapter) = {}

LEMMA CleanIsADraft == CleanDraft \in Drafts
  BY DEF CleanDraft, Drafts, YearWords, TieWords, ToldWords, NameWords, Clauses, Orders

LEMMA GateStart == GateInit => GateIInv
  BY CleanIsADraft DEF GateInit, GateIInv, GateTypeOK, NoReview, Approved

-----------------------------------------------------------------------------
(* One feature of a draft changes.                                         *)

\* The values a feature of a draft may take.
Put(d, field, value) == [d EXCEPT ![field] = value]

LEMMA ChangedDraft ==
    ASSUME NEW d \in Drafts
    PROVE  /\ \A v \in NameWords : Put(d, "name", v) \in Drafts
           /\ \A v \in YearWords : Put(d, "year", v) \in Drafts
           /\ \A v \in TieWords : Put(d, "tie", v) \in Drafts
           /\ \A v \in Clauses : Put(d, "clause", v) \in Drafts
           /\ \A v \in {"none", "verbatim", "invented"} : Put(d, "speech", v) \in Drafts
           /\ \A v \in {"none", "open", "open_hedged"} : Put(d, "conflict", v) \in Drafts
           /\ \A v \in 0..2 : Put(d, "used", v) \in Drafts
           /\ \A v \in ToldWords : Put(d, "told", v) \in Drafts
           /\ \A v \in {0, 2} : Put(d, "usage", v) \in Drafts
           /\ \A v \in BOOLEAN : Put(d, "unknown", v) \in Drafts
           /\ \A v \in {"fits", "long"} : Put(d, "words", v) \in Drafts
           /\ \A v \in {"expected", "foreign", "few"} : Put(d, "script", v) \in Drafts
  BY DEF Drafts, Put

-----------------------------------------------------------------------------
(* Years.                                                                  *)

FewYears == {{}, {1924}, {1924, 2024}, {1950}}

LEMMA FrozenIs ==
    ASSUME frozen \in Snapshots
    PROVE  /\ frozen.years \in FewYears /\ frozen.rejected \in {0, 1924} /\ frozen.shared \in BOOLEAN
           /\ frozen.edge \in {"none", "parent_child", "spouse"}
  BY DEF Snapshots, FewYears

LEMMA OneOf ==
    ASSUME NEW S, IsFiniteSet(S)
    PROVE  /\ Cardinality(S) \in Nat /\ (Cardinality(S) = 0 <=> S = {})
           /\ Cardinality(S) = 1 <=> \E x : S = {x}
  BY FS_CardinalityType, FS_EmptySet, FS_Singleton

LEMMA YearsStand ==
    ASSUME frozen \in Snapshots, NEW d \in Drafts, Blockers(d) = {}, d.year[1] \in {"four", "short", "words"}
    PROVE  \E y \in frozen.years :
              /\ y # frozen.rejected
              /\ \A z \in frozen.years : (IF d.year[1] = "four" THEN z ELSE z % 100) = d.year[2] <=> z = y
<1> DEFINE R == Readings(d.year[2])
<1>1. YearsRead(d) \subseteq frozen.years /\ ~ AmbiguousYear(d) /\ ~ RejectedYear(d)
  BY DEF Blockers, NameBlockers, SourceBlockers
<1>2. frozen.years \in FewYears /\ frozen.rejected \in {0, 1924}
  BY FrozenIs
<1>3. IsFiniteSet(frozen.years) /\ frozen.years \subseteq {1924, 1950, 2024}
  <2>1. frozen.years \subseteq {1924, 1950, 2024}
    BY <1>2 DEF FewYears
  <2>2. \E lo, hi \in Int : \A y \in frozen.years : y \in Int /\ lo <= y /\ y <= hi
    <3>1. \A y \in frozen.years : y \in Int /\ 1924 <= y /\ y <= 2024
      BY <2>1
    <3> QED BY <3>1
  <2>3. PICK lo, hi \in Int : \A y \in frozen.years : y \in Int /\ lo <= y /\ y <= hi
    BY <2>2
  <2>4. IsFiniteSet(lo..hi) /\ frozen.years \subseteq lo..hi
    BY <2>3, FS_Interval
  <2> QED BY <2>1, <2>4, FS_Subset
<1>4. IsFiniteSet(R) /\ R \subseteq frozen.years
  BY <1>3, FS_Subset DEF Readings
<1>5. CASE d.year[1] = "four"
  <2>1. d.year \in {<<"four", 1924>>, <<"four", 1930>>}
    BY <1>5 DEF Drafts, YearWords
  <2>2. YearsRead(d) = {d.year[2]}
    BY <1>5 DEF YearsRead
  <2>3. d.year[2] \in frozen.years
    BY <1>1, <2>2
  <2>4. d.year[2] # frozen.rejected
    <3>1. frozen.rejected # 0 => d.year # <<"four", frozen.rejected>>
      BY <1>1 DEF RejectedYear
    <3>2. d.year = <<"four", d.year[2]>>
      BY <2>1
    <3>3. d.year[2] # 0
      BY <1>3, <2>3
    <3> QED BY <3>1, <3>2, <3>3
  <2> QED BY <1>5, <2>3, <2>4
<1>6. CASE d.year[1] \in {"short", "words"}
  <2>1. d.year \in {<<"short", 24>>, <<"short", 50>>, <<"words", 24>>}
    BY <1>6 DEF Drafts, YearWords
  <2>2. d.year[2] \in {24, 50}
    BY <2>1
  <2>3. ~ (Cardinality(R) > 1)
    BY <1>1, <1>6 DEF AmbiguousYear
  <2>4. R # {}
    <3> SUFFICES ASSUME R = {} PROVE FALSE
      OBVIOUS
    <3>1. Cardinality(R) # 1
      BY <1>4, OneOf
    <3>2. YearsRead(d) = {IF d.year[1] = "short" /\ d.year[2] >= 30 THEN 1900 + d.year[2] ELSE 2000 + d.year[2]}
      <4> HIDE DEF R
      <4>1. Readings(d.year[2]) = {} /\ Cardinality(Readings(d.year[2])) # 1 /\ d.year[1] # "four"
        BY <1>6, <3>1 DEF R
      <4> QED BY <1>6, <4>1 DEF YearsRead
    <3>3. PICK y \in frozen.years : y \in {1900 + d.year[2], 2000 + d.year[2]}
      BY <1>1, <3>2
    <3>4. y % 100 = d.year[2]
      BY <2>2, <3>3
    <3> QED BY <3>3, <3>4 DEF Readings
  <2>5. PICK y : R = {y}
    <3>1. Cardinality(R) \in Nat /\ Cardinality(R) # 0
      BY <1>4, <2>4, OneOf
    <3>2. Cardinality(R) = 1
      BY <2>3, <3>1
    <3> QED BY <1>4, <3>2, OneOf
  <2>6. y \in frozen.years /\ y % 100 = d.year[2] /\ \A z \in frozen.years : z % 100 = d.year[2] <=> z = y
    BY <2>5 DEF Readings
  <2>7. y # frozen.rejected
    <3> SUFFICES ASSUME y = frozen.rejected PROVE FALSE
      OBVIOUS
    <3>1. y # 0
      BY <1>3, <2>6
    <3>2. frozen.rejected = 1924 /\ d.year[2] = 24
      <4>1. frozen.rejected = 1924
        BY <1>2, <3>1
      <4>2. 1924 % 100 = 24
        OBVIOUS
      <4> QED BY <2>6, <4>1, <4>2
    <3>3. d.year = <<"short", 24>> \/ d.year = <<"words", 24>>
      BY <2>1, <3>2
    <3>4. frozen.rejected % 100 = 24
      BY <3>2
    <3>5. RejectedYear(d)
      BY <3>1, <3>2, <3>3, <3>4 DEF RejectedYear
    <3> QED BY <1>1, <3>5
  <2> QED BY <1>6, <2>6, <2>7
<1> QED BY <1>5, <1>6

-----------------------------------------------------------------------------
(* Names and kinship.                                                      *)

LEMMA PersonNamed ==
    ASSUME NEW n, ResolvePersonSurface(n) # "none"
    PROVE  /\ ResolvePersonSurface(n) \in {"p1", "p2"} /\ PersonMatches(n) = {ResolvePersonSurface(n)}
           /\ Cardinality(PersonMatches(n)) = 1
<1>1. Cardinality(PersonMatches(n)) = 1
  BY DEF ResolvePersonSurface
<1>2. PersonMatches(n) \subseteq {"p1", "p2"} /\ IsFiniteSet(PersonMatches(n))
  <2>1. CASE n = "a"
    BY <2>1, FS_Singleton DEF PersonMatches
  <2>2. CASE n = "b"
    BY <2>2, FS_Singleton DEF PersonMatches
  <2>3. CASE n = "c"
    <3>1. IsFiniteSet({"p1", "p2"}) /\ IsFiniteSet({"p1"})
      BY FS_EmptySet, FS_AddElement
    <3> QED BY <2>3, <3>1 DEF PersonMatches
  <2>4. CASE n \notin {"a", "b", "c"}
    BY <2>4, FS_EmptySet DEF PersonMatches
  <2> QED BY <2>1, <2>2, <2>3, <2>4
<1>3. PICK p : PersonMatches(n) = {p}
  BY <1>1, <1>2, OneOf
<1>4. ResolvePersonSurface(n) = p
  BY <1>1, <1>3 DEF ResolvePersonSurface
<1> QED BY <1>1, <1>2, <1>3, <1>4

LEMMA KinshipStands ==
    ASSUME frozen \in Snapshots, NEW d \in Drafts, Blockers(d) = {}, d.tie[2] # "none"
    PROVE  \E x, y \in {"p1", "p2"} :
              /\ PersonMatches(d.tie[1]) = {x} /\ PersonMatches(d.tie[3]) = {y}
              /\ \/ frozen.edge = "spouse" /\ d.tie[2] = "spouse"
                 \/ frozen.edge = "parent_child" /\ <<x, d.tie[2]>> \in {<<"p1", "parent">>, <<"p2", "child">>}
<1> DEFINE x == ResolvePersonSurface(d.tie[1])
           y == ResolvePersonSurface(d.tie[3])
           r == d.tie[2]
<1>1. <<x, r, y>> \in GroundedTriples
  BY DEF Blockers, NameBlockers, TieBlocked
<1>2. r \in {"parent", "child", "spouse", "aunt_uncle"}
  BY DEF Drafts, TieWords
<1>3. frozen.edge \in {"none", "parent_child", "spouse"}
  BY FrozenIs
<1> HIDE DEF x, y, r
<1>4. \/ frozen.edge = "parent_child" /\ <<x, r, y>> \in {<<"p1", "parent", "p2">>, <<"p2", "child", "p1">>,
                                                          <<"p1", "parent_child", "p2">>, <<"p2", "parent_child", "p1">>}
      \/ frozen.edge = "spouse" /\ <<x, r, y>> \in {<<"p1", "spouse", "p2">>, <<"p2", "spouse", "p1">>}
  BY <1>1, <1>3 DEF GroundedTriples
<1>5. /\ x \in {"p1", "p2"} /\ y \in {"p1", "p2"}
      /\ \/ frozen.edge = "spouse" /\ r = "spouse"
         \/ frozen.edge = "parent_child" /\ <<x, r>> \in {<<"p1", "parent">>, <<"p2", "child">>}
  BY <1>2, <1>4
<1>6. PersonMatches(d.tie[1]) = {x} /\ PersonMatches(d.tie[3]) = {y}
  BY <1>5, PersonNamed DEF x, y
<1> QED BY <1>5, <1>6 DEF r

LEMMA NamesStand ==
    ASSUME NEW d \in Drafts, Blockers(d) = {}, d.name[1] # "place", d.name[2] # "plain"
    PROVE  Cardinality(PersonMatches(d.name[1])) = 1
<1>1. ~ UnknownPlace(d) /\ ~ (UnknownPeople(d) /\ ~ UnknownPlace(d))
  BY DEF Blockers, NameBlockers
<1>2. d.name[1] # "word"
  BY DEF Drafts, NameWords
<1>3. ResolvePersonSurface(d.name[1]) # "none"
  BY <1>1, <1>2 DEF UnknownPeople
<1> QED BY <1>3, PersonNamed

-----------------------------------------------------------------------------
(* Facts and the writer's own report.                                      *)

LEMMA FactsStand ==
    ASSUME NEW d \in Drafts, Blockers(d) = {}
    PROVE  /\ d.clause.negated = d.clause.srcNegated
           /\ d.clause.order \in {"none", d.clause.srcOrder} /\ d.clause.order # "both"
<1>1. ClauseSupported(d.clause)
  BY DEF Blockers, SourceBlockers
<1> QED BY <1>1 DEF ClauseSupported, SemanticallyCompatible

LEMMA HonestReport ==
    ASSUME NEW d \in Drafts, Blockers(d) = {}
    PROVE  Blockers([d EXCEPT !.told = CleanDraft.told, !.usage = 0, !.unknown = FALSE]) = {}
<1> DEFINE h == [d EXCEPT !.told = CleanDraft.told, !.usage = 0, !.unknown = FALSE]
<1>1. /\ h.name = d.name /\ h.year = d.year /\ h.tie = d.tie /\ h.clause = d.clause /\ h.speech = d.speech
      /\ h.conflict = d.conflict /\ h.used = d.used /\ h.words = d.words /\ h.script = d.script
      /\ h.told = CleanDraft.told /\ h.unknown = FALSE
  BY DEF Drafts
<1> HIDE DEF h
<1>2. ~ ReportBlocked(h)
  <2>1. CleanDraft.told = <<"none", "none", "none">>
    BY DEF CleanDraft
  <2>2. h.told[2] = "none"
    BY <1>1, <2>1
  <2> QED BY <1>1, <2>2 DEF ReportBlocked
<1>3. /\ UnknownPeople(h) = UnknownPeople(d) /\ UnknownPlace(h) = UnknownPlace(d)
      /\ YearsRead(h) = YearsRead(d) /\ AmbiguousYear(h) = AmbiguousYear(d) /\ TieBlocked(h) = TieBlocked(d)
  BY <1>1 DEF UnknownPeople, UnknownPlace, YearsRead, AmbiguousYear, TieBlocked
<1>4. NameBlockers(h) \subseteq NameBlockers(d)
  BY <1>2, <1>3 DEF NameBlockers
<1>5. RejectedYear(h) = RejectedYear(d)
  BY <1>1 DEF RejectedYear
<1>6. SourceBlockers(h) = SourceBlockers(d)
  BY <1>1, <1>5 DEF SourceBlockers
<1>7. FormBlockers(h) = FormBlockers(d)
  BY <1>1 DEF FormBlockers, CoverageOf
<1> QED BY <1>4, <1>6, <1>7 DEF Blockers, h

-----------------------------------------------------------------------------
(* The steps.                                                              *)

LEMMA ChangeKeeps ==
    ASSUME GateIInv, NEW field, NEW value, Change(field, value),
           Put(chapter, field, value) \in Drafts, edits' \in 0..2
    PROVE  GateIInv'
<1>1. chapter' \in Drafts /\ verdict = NoReview /\ verdict' = verdict /\ frozen' = frozen
  BY DEF Change, Put
<1>2. ~ Approved'
  BY <1>1 DEF Approved, NoReview
<1> QED BY <1>1, <1>2 DEF GateIInv, GateTypeOK

LEMMA EditsBound ==
    ASSUME GateIInv, NEW field, NEW value, Change(field, value)
    PROVE  edits' \in 0..2
  BY DEF GateIInv, GateTypeOK, Change

LEMMA PutPair ==
    ASSUME NEW d, NEW c, NEW f, NEW v, c = <<f, v>>
    PROVE  Put(d, c[1], c[2]) = Put(d, f, v)
  OBVIOUS

LEMMA ChangesAreDrafts ==
    ASSUME NEW d \in Drafts, NEW c \in Changes
    PROVE  Put(d, c[1], c[2]) \in Drafts
<1> DEFINE C1 == {<<"name", <<n, w>>>> : n \in {"b", "c", "x", "place"}, w \in {"inside", "plain", "after_in"}}
           C2 == {<<"year", y>> : y \in {<<"four", 1924>>, <<"four", 1930>>, <<"short", 24>>, <<"short", 50>>,
                                 <<"words", 24>>, <<"decade", 20>>, <<"decade", 50>>}}
           C3 == {<<"tie", t>> : t \in {<<"a", "parent", "b">>, <<"b", "parent", "a">>, <<"b", "child", "a">>,
                                <<"a", "spouse", "b">>, <<"c", "parent", "b">>, <<"a", "parent", "he">>,
                                <<"a", "aunt_uncle", "b">>}}
           C4 == {<<"told", t>> : t \in {<<"p1", "parent", "p2">>, <<"p2", "parent", "p1">>}}
           C5 == {<<"speech", s>> : s \in {"verbatim", "invented"}}
           C6 == {<<"conflict", k>> : k \in {"open", "open_hedged"}}
           C7 == {<<"used", n>> : n \in 0..1}
           C8 == {<<"usage", 0>>, <<"unknown", TRUE>>, <<"words", "long">>, <<"script", "foreign">>, <<"script", "few">>}
<1>0. Changes = C1 \cup C2 \cup C3 \cup C4 \cup C5 \cup C6 \cup C7 \cup C8
  BY DEF Changes
<1>1. ASSUME c \in C1 PROVE Put(d, c[1], c[2]) \in Drafts
  <2>1. PICK v \in NameWords : c = <<"name", v>>
    BY <1>1 DEF NameWords
  <2> QED BY <2>1, PutPair, ChangedDraft
<1>2. ASSUME c \in C2 PROVE Put(d, c[1], c[2]) \in Drafts
  <2>1. PICK v \in YearWords : c = <<"year", v>>
    BY <1>2 DEF YearWords
  <2> QED BY <2>1, PutPair, ChangedDraft
<1>3. ASSUME c \in C3 PROVE Put(d, c[1], c[2]) \in Drafts
  <2>1. PICK v \in TieWords : c = <<"tie", v>>
    BY <1>3 DEF TieWords
  <2> QED BY <2>1, PutPair, ChangedDraft
<1>4. ASSUME c \in C4 PROVE Put(d, c[1], c[2]) \in Drafts
  <2>1. PICK v \in ToldWords : c = <<"told", v>>
    BY <1>4 DEF ToldWords
  <2> QED BY <2>1, PutPair, ChangedDraft
<1>5. ASSUME c \in C5 PROVE Put(d, c[1], c[2]) \in Drafts
  <2>1. PICK v \in {"none", "verbatim", "invented"} : c = <<"speech", v>>
    BY <1>5
  <2> QED BY <2>1, PutPair, ChangedDraft
<1>6. ASSUME c \in C6 PROVE Put(d, c[1], c[2]) \in Drafts
  <2>1. PICK v \in {"none", "open", "open_hedged"} : c = <<"conflict", v>>
    BY <1>6
  <2> QED BY <2>1, PutPair, ChangedDraft
<1>7. ASSUME c \in C7 PROVE Put(d, c[1], c[2]) \in Drafts
  <2>1. PICK v \in 0..2 : c = <<"used", v>>
    BY <1>7
  <2> QED BY <2>1, PutPair, ChangedDraft
<1>8. ASSUME c \in C8 PROVE Put(d, c[1], c[2]) \in Drafts
  <2>1. CASE c = <<"usage", 0>>
    BY <2>1, PutPair, ChangedDraft
  <2>2. CASE c = <<"unknown", TRUE>>
    <3>1. Put(d, "unknown", TRUE) \in Drafts
      BY ChangedDraft
    <3> QED BY <2>2, <3>1, PutPair, Zenon
  <2>3. CASE c = <<"words", "long">>
    BY <2>3, PutPair, ChangedDraft
  <2>4. CASE c = <<"script", "foreign">>
    BY <2>4, PutPair, ChangedDraft
  <2>5. CASE c = <<"script", "few">>
    BY <2>5, PutPair, ChangedDraft
  <2> QED BY <1>8, <2>1, <2>2, <2>3, <2>4, <2>5
<1> HIDE DEF C1, C2, C3, C4, C5, C6, C7, C8
<1> QED BY <1>0, <1>1, <1>2, <1>3, <1>4, <1>5, <1>6, <1>7, <1>8

LEMMA SameGates ==
    ASSUME UNCHANGED <<frozen, chapter>>
    PROVE  Blockers(chapter)' = Blockers(chapter)
  BY DEF Blockers, NameBlockers, SourceBlockers, FormBlockers, UnknownPeople, UnknownPlace, YearsRead, AmbiguousYear,
     RejectedYear, TieBlocked, ReportBlocked, ResolvePersonSurface, PersonMatches, Readings, GroundedTriples, CoverageOf

LEMMA GateStep == GateIInv /\ [GateNext]_gateVars => GateIInv'
<1> SUFFICES ASSUME GateIInv, [GateNext]_gateVars PROVE GateIInv'
  OBVIOUS
<1>1. ASSUME NEW s \in Snapshots, Freeze(s) PROVE GateIInv'
  <2>1. ~ Approved /\ verdict = NoReview
    BY <1>1 DEF Freeze, GateIInv, Approved, NoReview
  <2> QED BY <1>1, <2>1 DEF Freeze, GateIInv, GateTypeOK, Approved
<1>2. ASSUME NEW c \in Changes, Change(c[1], c[2]) PROVE GateIInv'
  <2>1. Put(chapter, c[1], c[2]) \in Drafts
    BY ChangesAreDrafts DEF GateIInv
  <2> QED BY <1>2, <2>1, ChangeKeeps, EditsBound
<1>3. ASSUME NEW c \in Clauses, Change("clause", c) PROVE GateIInv'
  <2>1. Put(chapter, "clause", c) \in Drafts
    BY ChangedDraft DEF GateIInv
  <2> QED BY <1>3, <2>1, ChangeKeeps, EditsBound
<1>4. ASSUME NEW llm \in {"approved", "repair_required", "fails"}, ReviewChapter(llm) PROVE GateIInv'
  <2>1. UNCHANGED <<frozen, chapter, edits>> /\ frozen # Unfrozen
    BY <1>4 DEF ReviewChapter
  <2>2. /\ verdict'.status = ReviewStatus(Blockers(chapter) = {}, llm)
    BY <1>4 DEF ReviewChapter
  <2>3. verdict'.status \in {"approved", "repair_required"} /\ (verdict'.status = "approved" => Blockers(chapter) = {})
    BY <2>2 DEF ReviewStatus
  <2> QED BY <2>1, <2>3, SameGates DEF GateIInv, GateTypeOK, Approved
<1>5. CASE UNCHANGED gateVars
  <2>1. UNCHANGED <<frozen, chapter, edits, verdict>>
    BY <1>5 DEF gateVars
  <2> QED BY <2>1, SameGates DEF GateIInv, GateTypeOK, Approved
<1> QED BY <1>1, <1>2, <1>3, <1>4, <1>5 DEF GateNext

\* Whatever the writer writes and reports, and however often the chapter is changed: a chapter is
\* approved only when every gate passes, and then its years, kinship, facts and names are those of
\* the sources (run_chapter_gates).
THEOREM GateCorrect == GateSpec => []GateInv
<1>1. GateIInv => GateInv
  <2> SUFFICES ASSUME GateIInv PROVE GateInv
    OBVIOUS
  <2>1. GatesDecide
    BY DEF GatesDecide, GateIInv
  <2>2. ASSUME Approved PROVE frozen \in Snapshots /\ chapter \in Drafts /\ Blockers(chapter) = {}
    BY <2>2 DEF GateIInv, Approved, NoReview
  <2>3. YearsAreOfTheSources
    BY <2>2, YearsStand DEF YearsAreOfTheSources
  <2>4. KinshipIsOfTheGraph
    BY <2>2, KinshipStands DEF KinshipIsOfTheGraph
  <2>5. FactsAreNotInverted
    BY <2>2, FactsStand DEF FactsAreNotInverted
  <2>6. NamesAreOfOnePerson
    BY <2>2, NamesStand DEF NamesAreOfOnePerson
  <2>7. ReportNeverHelps
    BY <2>2, HonestReport DEF ReportNeverHelps
  <2> QED BY <2>1, <2>3, <2>4, <2>5, <2>6, <2>7 DEF GateInv, GateIInv
<1> QED BY <1>1, GateStart, GateStep, PTL DEF GateSpec

-----------------------------------------------------------------------------
(* Dates and relationships as they were said (ClaimSemantics).             *)

ClaimSpec == ClaimInit /\ [][ClaimNext]_claimVars

PlainBond == [state |-> "current", doubt |-> "none"]
Undated1 == [e \in Births |-> NoDate]

\* The dates of the two events after the hardening, with what is reported of the first.
Mine(t) == CorrectDate(t, NormalizeEventDate(t))
DatesOf(t) == [e \in Births |-> IF e = 1 THEN Mine(t).date ELSE ParseTemporal(t.other.words).date]

SoundEvents(t) == {e \in Births : DateSound(DatesOf(t)[e])}

\* The births that are compared, and the conflict between them.
Compared(t) ==
    {e \in SoundEvents(t) : /\ DatesOf(t)[e] # NoDate
                            /\ e = 2 => t.other.type \in {"birth", "death"} /\ t.other.people = {"p"}}
Conflict(t) ==
    IF Cardinality({SignatureOf(DatesOf(t)[e]) : e \in Compared(t)}) > 1 THEN {Compared(t)} ELSE {}

NothingYet == /\ hardened = "no" /\ bond = PlainBond /\ dates = Undated1
              /\ eventsKept = Births /\ dateIssues = {} /\ temporal = {}

EventsHardened ==
    /\ told \in EventTales /\ bond = PlainBond /\ hardened \in {"hardened", "filtered", "compared"}
    /\ dates = DatesOf(told) /\ dateIssues = Mine(told).issues
    /\ eventsKept = IF hardened = "hardened" THEN Births ELSE SoundEvents(told)
    /\ temporal = IF hardened = "compared" THEN Conflict(told) ELSE {}

RelationshipHardened ==
    /\ told \in RelationshipTales /\ hardened = "hardened"
    /\ bond = [state |-> RelationshipState(told), doubt |-> InferUncertainty(told)]
    /\ dates = Undated1 /\ eventsKept = Births /\ dateIssues = {} /\ temporal = {}

ClaimIInv ==
    \/ told \in {NoTale} \cup EventTales \cup RelationshipTales /\ NothingYet
    \/ EventsHardened
    \/ RelationshipHardened

LEMMA EventTaleIs ==
    ASSUME NEW t \in EventTales
    PROVE  /\ t.kind = "events" /\ t.words.year = 1 /\ t.corrections \in SUBSET Correction
           /\ t.other \in OtherEvent
<1> DEFINE weddings == {o \in OtherEvent : o.type = "wedding"}
           few == {c \in SUBSET Correction : Cardinality(c) <= 2}
<1>1. weddings \subseteq OtherEvent /\ few \subseteq SUBSET Correction /\ {{}} \subseteq SUBSET Correction
  OBVIOUS
<1>2. \A mods : \A w \in Expressions(mods) : w.year = 1
  BY DEF Expressions, WordsOf
<1>3. CASE t \in PlainTales
  <2>1. t \in [kind : {"events"}, words : Expressions(Mods), spoken : BOOLEAN, proposesDay : BOOLEAN,
               corrections : {{}}, other : weddings]
    BY <1>3 DEF PlainTales
  <2> HIDE DEF weddings, few
  <2> QED BY <1>1, <1>2, <2>1
<1>4. CASE t \in CorrectedTales
  <2>1. t \in [kind : {"events"}, words : Expressions({"approx"}), spoken : {TRUE}, proposesDay : {FALSE},
               corrections : few, other : OtherEvent]
    BY <1>4 DEF CorrectedTales
  <2> HIDE DEF weddings, few
  <2> QED BY <1>1, <1>2, <2>1
<1> QED BY <1>3, <1>4 DEF EventTales

LEMMA RelationshipTaleIs ==
    ASSUME NEW t \in RelationshipTales
    PROVE  /\ t.kind = "relationship"
           /\ \E n \in {1, 2} : t.text \in [1..n -> Clause] /\ t.cites \in SUBSET (1..n)
<1>1. t.kind = "relationship"
  BY DEF RelationshipTales
<1>2. \/ t.text \in [1..2 -> Clause] /\ t.cites \in SUBSET {1, 2}
      \/ t.text \in [1..1 -> Clause] /\ t.cites \in {{}, {1}}
  BY DEF RelationshipTales
<1>3. 1..2 = {1, 2} /\ 1..1 = {1}
  OBVIOUS
<1> QED BY <1>1, <1>2, <1>3

-----------------------------------------------------------------------------
(* Dates.                                                                  *)

\* What is true of every date read from words.
DateOfWords(w, d) ==
    /\ d.kind # "none" /\ d.words = w
    /\ d.precision = "day" /\ d.value # NoYear => w.has \cap {"iso", "dayYear"} # {} /\ w.real
    /\ d.kind = "relative" => d.value = NoYear
    /\ d.kind = "exact" \/ d.precision = "day" => ~ d.approx

LEMMA DayIs ==
    ASSUME NEW w, w.has \cap {"iso", "dayYear"} # {}
    PROVE  \/ DayOf(w).date # NoDate /\ DateOfWords(w, DayOf(w).date)
           \/ DayOf(w).date = NoDate /\ DayOf(w).issues # {}
<1>1. CASE w.real
  BY <1>1 DEF DayOf, Parsed, Dated, NoDate, DateOfWords
<1>2. CASE ~ w.real
  BY <1>2 DEF DayOf, Noted, NoDate
<1> QED BY <1>1, <1>2

LEMMA VagueIs ==
    ASSUME NEW w, NEW kind \in {"relative", "unknown"}, NEW precision \in {"day", "unknown"}, NEW code
    PROVE  /\ Noted(Vague(w, kind, precision), code).date # NoDate
           /\ DateOfWords(w, Noted(Vague(w, kind, precision), code).date)
  BY DEF Noted, Vague, Dated, NoDate, DateOfWords, NoYear

LEMMA OthersAre ==
    ASSUME NEW w
    PROVE  /\ MonthOf(w).date # NoDate /\ DateOfWords(w, MonthOf(w).date)
           /\ YearOf(w).date # NoDate /\ DateOfWords(w, YearOf(w).date)
           /\ Undated(w).date # NoDate /\ DateOfWords(w, Undated(w).date)
           /\ Parsed(DecadeBounds(w)).date # NoDate /\ DateOfWords(w, Parsed(DecadeBounds(w)).date)
           /\ \/ RangeOf(w).date # NoDate /\ DateOfWords(w, RangeOf(w).date)
              \/ RangeOf(w).date = NoDate /\ RangeOf(w).issues # {}
<1>1. MonthOf(w).date # NoDate /\ DateOfWords(w, MonthOf(w).date)
  BY DEF MonthOf, Parsed, Dated, NoDate, DateOfWords
<1>2. YearOf(w).date # NoDate /\ DateOfWords(w, YearOf(w).date)
  <2>1. CASE "before" \in w.has
    <3>1. YearOf(w) = Noted(Dated(w, "relative", "year", NoYear, NoYear, w.year - 1, FALSE), "anchor_missing")
      BY <2>1, Zenon DEF YearOf
    <3> QED BY <3>1 DEF Noted, Dated, NoDate, DateOfWords
  <2>2. CASE "before" \notin w.has /\ "after" \in w.has
    <3>1. YearOf(w) = Noted(Dated(w, "relative", "year", NoYear, w.year + 1, NoYear, FALSE), "anchor_missing")
      BY <2>2 DEF YearOf
    <3> QED BY <3>1 DEF Noted, Dated, NoDate, DateOfWords
  <2>3. CASE w.has \cap {"before", "after"} = {} /\ "approx" \in w.has
    <3>1. YearOf(w) = Parsed(Dated(w, "approximate", "year", w.year, w.year - 1, w.year + 1, TRUE))
      BY <2>3 DEF YearOf
    <3> QED BY <3>1 DEF Parsed, Dated, NoDate, DateOfWords
  <2>4. CASE w.has \cap {"before", "after"} = {} /\ "approx" \notin w.has
    <3>1. YearOf(w) = Parsed(Dated(w, "year", "year", w.year, NoYear, NoYear, FALSE))
      BY <2>4 DEF YearOf
    <3> QED BY <3>1 DEF Parsed, Dated, NoDate, DateOfWords
  <2> QED BY <2>1, <2>2, <2>3, <2>4
<1>3. Undated(w).date # NoDate /\ DateOfWords(w, Undated(w).date)
  BY VagueIs DEF Undated
<1>4. Parsed(DecadeBounds(w)).date # NoDate /\ DateOfWords(w, Parsed(DecadeBounds(w)).date)
  BY DEF DecadeBounds, Parsed, Dated, NoDate, DateOfWords
<1>5. \/ RangeOf(w).date # NoDate /\ DateOfWords(w, RangeOf(w).date)
      \/ RangeOf(w).date = NoDate /\ RangeOf(w).issues # {}
  <2>1. CASE w.real
    BY <2>1 DEF RangeOf, Parsed, Dated, NoDate, DateOfWords
  <2>2. CASE ~ w.real
    BY <2>2 DEF RangeOf, Noted, NoDate
  <2> QED BY <2>1, <2>2
<1> QED BY <1>1, <1>2, <1>3, <1>4, <1>5

\* Words give a date that is theirs, or none and a reason.
LEMMA ParsedIs ==
    ASSUME NEW w
    PROVE  /\ ParseTemporal(w).date # NoDate => DateOfWords(w, ParseTemporal(w).date)
           /\ ParseTemporal(w).date = NoDate => ParseTemporal(w).issues # {}
<1> DEFINE p == ParseTemporal(w)
           Good == (p.date # NoDate /\ DateOfWords(w, p.date)) \/ (p.date = NoDate /\ p.issues # {})
<1>1. CASE "slashed" \in w.has
  BY <1>1, VagueIs DEF ParseTemporal
<1>2. CASE "slashed" \notin w.has /\ ("iso" \in w.has \/ "dayYear" \in w.has)
  <2>1. p = DayOf(w) /\ w.has \cap {"iso", "dayYear"} # {}
    BY <1>2 DEF ParseTemporal
  <2> HIDE DEF p
  <2>2. Good
    BY <2>1, DayIs
  <2> QED BY <2>2 DEF p
<1>3. CASE ~ ("slashed" \in w.has \/ "iso" \in w.has \/ "dayYear" \in w.has)
  <2>1. p \in {Noted(Vague(w, "relative", "day"), "anchor_missing"), MonthOf(w), RangeOf(w), Parsed(DecadeBounds(w)),
               Noted(Vague(w, "relative", "unknown"), "anchor_missing"), YearOf(w), Undated(w)}
    BY <1>3, Zenon DEF ParseTemporal
  <2> HIDE DEF p
  <2>2. Good
    <3>1. \A code : Noted(Vague(w, "relative", "day"), code).date # NoDate
                    /\ DateOfWords(w, Noted(Vague(w, "relative", "day"), code).date)
      BY VagueIs
    <3>2. \A code : Noted(Vague(w, "relative", "unknown"), code).date # NoDate
                    /\ DateOfWords(w, Noted(Vague(w, "relative", "unknown"), code).date)
      BY VagueIs
    <3> QED BY <2>1, <3>1, <3>2, OthersAre
  <2> QED BY <2>2 DEF p
<1> QED BY <1>1, <1>2, <1>3

LEMMA NormalIs ==
    ASSUME NEW t
    PROVE  /\ NormalizeEventDate(t).date # NoDate => t.spoken /\ NormalizeEventDate(t).date = ParseTemporal(t.words).date
           /\ NormalizeEventDate(t).date = NoDate => NormalizeEventDate(t).issues # {}
<1> DEFINE p == ParseTemporal(t.words)
           over == p.date # NoDate /\ t.proposesDay /\ (p.date.approx \/ p.date.kind = "relative")
           n == NormalizeEventDate(t)
<1>1. CASE ~ t.spoken
  <2>1. n = Noted(NoDate, "evidence_unsupported")
    BY <1>1 DEF NormalizeEventDate
  <2>2. n.date = NoDate /\ n.issues # {}
    BY <2>1 DEF Noted
  <2> QED BY <2>2
<1>2. CASE t.spoken
  <2>1. n = [p EXCEPT !.issues = @ \cup (IF over THEN {"overstated"} ELSE {})]
    BY <1>2 DEF NormalizeEventDate
  <2>2. \E d, i : p = [date |-> d, issues |-> i]
    BY DEF ParseTemporal, DayOf, MonthOf, RangeOf, YearOf, Undated, Parsed, Noted
  <2>3. n.date = p.date /\ p.issues \subseteq n.issues
    <3> HIDE DEF p, n, over
    <3> QED BY <2>1, <2>2
  <2> QED BY <1>2, <2>3, ParsedIs
<1> QED BY <1>1, <1>2

LEMMA CorrectionsAreFinite == IsFiniteSet(Correction)
<1> DEFINE W == {WordsOf({"year"}, {}, TRUE, 2), WordsOf({"iso", "year"}, {}, FALSE, 2),
                 WordsOf({"iso", "year"}, {"approx"}, TRUE, 2)}
           C(a, b) == {[ofDate |-> a, spoken |-> b, words |-> w] : w \in W}
<1>1. ASSUME NEW a, NEW b PROVE IsFiniteSet(C(a, b))
  <2>2. \E x, y, z : W = {x, y, z}
    OBVIOUS
  <2>3. PICK x, y, z : W = {x, y, z}
    BY <2>2
  <2> HIDE DEF W
  <2>4. C(a, b) = {[ofDate |-> a, spoken |-> b, words |-> x], [ofDate |-> a, spoken |-> b, words |-> y],
                   [ofDate |-> a, spoken |-> b, words |-> z]}
    BY <2>3
  <2>5. \E p, q, r : C(a, b) = {p, q, r}
    BY <2>4
  <2>6. ASSUME NEW S, \E p, q, r : S = {p, q, r} PROVE IsFiniteSet(S)
    <3>1. PICK p, q, r : S = {p, q, r}
      BY <2>6
    <3>2. IsFiniteSet({p}) /\ IsFiniteSet({p} \cup {q}) /\ IsFiniteSet(({p} \cup {q}) \cup {r})
      BY FS_Singleton, FS_AddElement
    <3>3. S = ({p} \cup {q}) \cup {r}
      BY <3>1
    <3> QED BY <3>2, <3>3
  <2> HIDE DEF C
  <2> QED BY <2>5, <2>6
<1>2. Correction = (C(TRUE, TRUE) \cup C(TRUE, FALSE)) \cup (C(FALSE, TRUE) \cup C(FALSE, FALSE))
  <2> HIDE DEF W
  <2>1. Correction = [ofDate : BOOLEAN, spoken : BOOLEAN, words : W]
    BY DEF Correction, W
  <2>2. ASSUME NEW x \in Correction
        PROVE  x \in (C(TRUE, TRUE) \cup C(TRUE, FALSE)) \cup (C(FALSE, TRUE) \cup C(FALSE, FALSE))
    <3>1. x = [ofDate |-> x.ofDate, spoken |-> x.spoken, words |-> x.words] /\ x.ofDate \in BOOLEAN
          /\ x.spoken \in BOOLEAN /\ x.words \in W
      BY <2>1
    <3>2. x \in C(x.ofDate, x.spoken)
      BY <3>1
    <3> HIDE DEF C
    <3> QED BY <3>1, <3>2
  <2>3. ASSUME NEW a \in BOOLEAN, NEW b \in BOOLEAN, NEW x \in C(a, b) PROVE x \in Correction
    BY <2>1
  <2> HIDE DEF C
  <2> QED BY <2>2, <2>3
<1> HIDE DEF C
<1> QED BY <1>1, <1>2, FS_Union

\* What the narrator took back.
TakenBack(t) == {c \in t.corrections : c.spoken /\ c.ofDate}

\* The first event's date is that of its one correction, or none and a reason, or its own.
LEMMA MineIs ==
    ASSUME NEW t \in EventTales
    PROVE  \/ \E c \in TakenBack(t) : /\ ParseTemporal(c.words).date # NoDate
                                      /\ Mine(t).date = ParseTemporal(c.words).date
           \/ Mine(t).date = NoDate /\ Mine(t).issues # {}
           \/ /\ t.spoken /\ Mine(t).date = ParseTemporal(t.words).date /\ Mine(t).date # NoDate
              /\ \/ TakenBack(t) = {}
                 \/ \E c \in TakenBack(t) : TakenBack(t) = {c} /\ ParseTemporal(c.words).date = NoDate
<1> DEFINE n == NormalizeEventDate(t)
           m == MatchingCorrections(t, n.date)
           p == ParseTemporal((CHOOSE c \in m : TRUE).words)
<1>1. Mine(t) = IF Cardinality(m) = 1 /\ p.date # NoDate
                THEN [date |-> p.date, issues |-> n.issues \cup {"correction_applied"}]
                ELSE IF Cardinality(m) > 1
                THEN [date |-> NoDate, issues |-> n.issues \cup {"correction_ambiguous"}]
                ELSE n
  BY DEF Mine, CorrectDate
<1>2. n.date = NoDate => m = {}
  BY DEF MatchingCorrections
<1>3. n.date # NoDate => m = TakenBack(t)
  BY DEF MatchingCorrections, TakenBack
<1>4. IsFiniteSet(m)
  <2>1. t.corrections \in SUBSET Correction
    BY EventTaleIs
  <2>2. IsFiniteSet(t.corrections)
    BY <2>1, CorrectionsAreFinite, FS_Subset
  <2> QED BY <2>2, FS_Subset DEF MatchingCorrections
<1>5. Cardinality(m) \in Nat
  BY <1>4, FS_CardinalityType
<1>6. n.date # NoDate => t.spoken /\ n.date = ParseTemporal(t.words).date
  BY NormalIs
<1>7. n.date = NoDate => n.issues # {}
  BY NormalIs
<1> HIDE DEF n, m
<1>8. CASE Cardinality(m) = 1
  <2>1. PICK c : m = {c}
    BY <1>4, <1>8, FS_Singleton
  <2>2. n.date # NoDate /\ m = TakenBack(t) /\ c \in TakenBack(t)
    BY <1>2, <1>3, <2>1
  <2>3. p = ParseTemporal(c.words)
    <3>1. (CHOOSE x \in m : TRUE) = c
      BY <2>1
    <3> QED BY <3>1
  <2> HIDE DEF p
  <2>4. CASE p.date # NoDate
    <3>1. Mine(t).date = p.date
      BY <1>1, <1>8, <2>4
    <3> QED BY <2>2, <2>3, <2>4, <3>1
  <2>5. CASE p.date = NoDate
    <3>1. Mine(t) = n
      BY <1>1, <1>8, <2>5
    <3> QED BY <1>6, <2>1, <2>2, <2>3, <2>5, <3>1
  <2> QED BY <2>4, <2>5
<1>9. CASE Cardinality(m) > 1
  <2>1. Mine(t) = [date |-> NoDate, issues |-> n.issues \cup {"correction_ambiguous"}]
    <3>1. Cardinality(m) # 1
      BY <1>5, <1>9
    <3> HIDE DEF p
    <3> QED BY <1>1, <1>9, <3>1
  <2> QED BY <2>1
<1>10. CASE Cardinality(m) = 0
  <2>1. m = {}
    BY <1>4, <1>10, FS_EmptySet
  <2>2. Mine(t) = n
    <3> HIDE DEF p
    <3> QED BY <1>1, <1>10
  <2> QED BY <1>3, <1>6, <1>7, <2>1, <2>2
<1> QED BY <1>5, <1>8, <1>9, <1>10

LEMMA DatesAreOfWords ==
    ASSUME NEW t \in EventTales, NEW e \in Births, DatesOf(t)[e] # NoDate
    PROVE  \E w : DateOfWords(w, DatesOf(t)[e])
<1>1. CASE e = 1
  <2>1. DatesOf(t)[e] = Mine(t).date
    BY <1>1 DEF DatesOf
  <2> QED BY <2>1, MineIs, ParsedIs
<1>2. CASE e = 2
  <2>1. DatesOf(t)[e] = ParseTemporal(t.other.words).date
    BY <1>2 DEF DatesOf
  <2> QED BY <2>1, ParsedIs
<1> QED BY <1>1, <1>2 DEF Births

-----------------------------------------------------------------------------
(* Relationships.                                                          *)

LEMMA CitedIs ==
    ASSUME NEW t \in RelationshipTales
    PROVE  \E n \in {1, 2} : CitedText(t) \in [1..n -> Clause]
<1>1. PICK n \in {1, 2} : t.text \in [1..n -> Clause] /\ t.cites \in SUBSET (1..n)
  BY RelationshipTaleIs
<1>2. CASE t.cites = {}
  BY <1>1, <1>2 DEF CitedText
<1>3. CASE t.cites # {}
  <2> DEFINE k == Cardinality(t.cites)
             At(i) == CHOOSE j \in t.cites : Cardinality({x \in t.cites : x <= j}) = i
  <2>1. CitedText(t) = [i \in 1..k |-> t.text[At(i)]]
    BY <1>3 DEF CitedText
  <2>2. k \in {1, 2} /\ \A i \in 1..k : \E j \in t.cites : Cardinality({x \in t.cites : x <= j}) = i
    <3>0. \A x : Cardinality({x}) = 1
      BY FS_Singleton
    <3>1. CASE t.cites = {1}
      <4>1. {x \in t.cites : x <= 1} = {1} /\ 1..1 = {1}
        BY <3>1
      <4>2. k = 1 /\ Cardinality({x \in t.cites : x <= 1}) = 1
        BY <3>0, <3>1, <4>1
      <4>3. ASSUME NEW i \in 1..k PROVE \E j \in t.cites : Cardinality({x \in t.cites : x <= j}) = i
        <5>1. i = 1 /\ 1 \in t.cites
          BY <3>1, <4>1, <4>2
        <5> QED BY <4>2, <5>1
      <4> QED BY <4>2, <4>3
    <3>2. CASE t.cites = {2}
      <4>1. {x \in t.cites : x <= 2} = {2} /\ 1..1 = {1}
        BY <3>2
      <4>2. k = 1 /\ Cardinality({x \in t.cites : x <= 2}) = 1
        BY <3>0, <3>2, <4>1
      <4>3. ASSUME NEW i \in 1..k PROVE \E j \in t.cites : Cardinality({x \in t.cites : x <= j}) = i
        <5>1. i = 1 /\ 2 \in t.cites
          BY <3>2, <4>1, <4>2
        <5> QED BY <4>2, <5>1
      <4> QED BY <4>2, <4>3
    <3>3. CASE t.cites = {1, 2}
      <4>1. {x \in t.cites : x <= 1} = {1} /\ {x \in t.cites : x <= 2} = {1, 2}
        BY <3>3
      <4>2. Cardinality({1, 2}) = 2
        <5>1. IsFiniteSet({1}) /\ Cardinality({1}) = 1
          BY FS_Singleton
        <5>2. Cardinality({1} \cup {2}) = IF 2 \in {1} THEN Cardinality({1}) ELSE Cardinality({1}) + 1
          BY <5>1, FS_AddElement
        <5>3. {1, 2} = {1} \cup {2}
          OBVIOUS
        <5> QED BY <5>1, <5>2, <5>3
      <4>3. 1..2 = {1, 2}
        OBVIOUS
      <4> QED BY <3>0, <3>3, <4>1, <4>2, <4>3
    <3>4. t.cites \in SUBSET {1, 2}
      BY <1>1
    <3> QED BY <1>3, <3>1, <3>2, <3>3, <3>4
  <2>3. ASSUME NEW i \in 1..k PROVE t.text[At(i)] \in Clause
    <3>1. At(i) \in t.cites
      BY <2>2
    <3> HIDE DEF At
    <3> QED BY <1>1, <3>1
  <2> HIDE DEF k, At
  <2>4. CitedText(t) \in [1..k -> Clause]
    BY <2>1, <2>3
  <2> QED BY <2>2, <2>4
<1> QED BY <1>2, <1>3

LEMMA CurrentIs ==
    ASSUME NEW cues
    PROVE  /\ InferState(cues) = "current" <=> cues \cap StateCues = {}
           /\ InferState(cues) \in {"current", "former", "ended", "negated", "figurative", "unresolved"}
  BY DEF InferState, StateCues

\* What a current relationship says.
LEMMA CurrentSays ==
    ASSUME NEW t, RelationshipState(t) = "current"
    PROVE  /\ \A i \in DOMAIN SemanticText(t) : SemanticText(t)[i].holds \notin StateCues
           /\ \A c \in RelevantCorrections(t) : c.holds \notin StateCues
<1> DEFINE said == {SemanticText(t)[i].holds : i \in DOMAIN SemanticText(t)}
           revised == {c.holds : c \in RelevantCorrections(t)}
<1>1. RelationshipState(t) = IF InferState(said) = "current" THEN InferState(said \cup revised) ELSE InferState(said)
  BY DEF RelationshipState
<1>2. InferState(said \cup revised) = "current"
  <2> HIDE DEF said, revised
  <2> QED BY <1>1
<1>3. (said \cup revised) \cap StateCues = {}
  <2> HIDE DEF said, revised
  <2> QED BY <1>2, CurrentIs
<1> QED BY <1>3

\* The clauses that a current relationship has to answer for.
LEMMA SaidPlainly ==
    ASSUME NEW t \in RelationshipTales, RelationshipState(t) = "current", NEW i \in DOMAIN CitedText(t),
           \/ CitedText(t)[i].names = 2
           \/ i > 1 /\ CitedText(t)[i].names = 0 /\ CitedText(t)[i - 1].names > 0
    PROVE  CitedText(t)[i].holds \notin StateCues
<1> DEFINE text == CitedText(t)
           best == BestClauses(text)
           at == CHOOSE j \in best : TRUE
           takenBack == at < Len(text) /\ text[at + 1].holds \in StateCues \cup {"revised"}
<1>1. PICK n \in {1, 2} : text \in [1..n -> Clause]
  BY CitedIs
<1>2. SemanticText(t) = IF Cardinality(best) # 1 THEN text
                        ELSE SubSeq(text, at, IF takenBack THEN at + 1 ELSE at)
  BY DEF SemanticText
<1>3. /\ Len(text) = n /\ DOMAIN text = 1..n /\ i \in 1..n
      /\ \A j \in 1..n : text[j].names \in {0, 1, 2}
  <2>1. \A j \in 1..n : text[j] \in Clause
    BY <1>1
  <2>2. \A j \in 1..n : text[j].names \in 0..2
    BY <2>1 DEF Clause
  <2>3. i \in DOMAIN CitedText(t)
    OBVIOUS
  <2> QED BY <1>1, <2>2, <2>3
<1>4. best = {j \in 1..n : text[j].names > 0 /\ \A l \in 1..n : text[l].names <= text[j].names}
  BY <1>3 DEF BestClauses
<1>5. text[i].names = 2 \/ (i > 1 /\ text[i].names = 0 /\ text[i - 1].names > 0)
  OBVIOUS
<1>6. \A j \in DOMAIN SemanticText(t) : SemanticText(t)[j].holds \notin StateCues
  BY CurrentSays
<1> HIDE DEF text, best
<1>7. CASE Cardinality(best) # 1
  BY <1>2, <1>3, <1>6, <1>7 DEF text
<1>8. CASE Cardinality(best) = 1
  <2>1. IsFiniteSet(best)
    <3>1. IsFiniteSet(1..n)
      BY FS_Interval
    <3> QED BY <1>4, <3>1, FS_Subset
  <2>2. PICK b : best = {b}
    BY <1>8, <2>1, FS_Singleton
  <2>3. at = b /\ b \in 1..n
    BY <1>4, <2>2
  <2>4. /\ text \in Seq(Clause)
        /\ takenBack <=> at < n /\ text[at + 1].holds \in StateCues \cup {"revised"}
    BY <1>1, <1>3
  <2>n. SemanticText(t) = SubSeq(text, at, IF takenBack THEN at + 1 ELSE at)
    <3> HIDE DEF at, takenBack
    <3> QED BY <1>2, <1>8
  <2> HIDE DEF at, takenBack
  <2>5. CASE text[i].names = 2
    <3>1. i \in best
      BY <1>3, <1>4, <2>5
    <3>2. i = b
      BY <2>2, <3>1
    <3>3. SemanticText(t) = SubSeq(text, b, IF takenBack THEN b + 1 ELSE b) /\ (takenBack => b < n)
      BY <2>3, <2>4, <2>n
    <3>4. 1 \in DOMAIN SemanticText(t) /\ SemanticText(t)[1] = text[b]
      <4>1. CASE takenBack
        <5>1. SemanticText(t) = SubSeq(text, 1, 2) /\ b = 1 /\ n = 2
          BY <1>3, <2>3, <3>3, <4>1
        <5> QED BY <1>3, <2>3, <2>4, <5>1
      <4>2. CASE ~ takenBack
        <5>1. SemanticText(t) = SubSeq(text, b, b)
          BY <3>3, <4>2
        <5>2. CASE b = 1
          <6>1. SemanticText(t) = SubSeq(text, 1, 1) /\ 1 <= Len(text)
            BY <1>3, <2>3, <5>1, <5>2
          <6> QED BY <2>4, <5>2, <6>1
        <5>3. CASE b = 2
          <6>1. SemanticText(t) = SubSeq(text, 2, 2) /\ 2 <= Len(text)
            BY <1>3, <2>3, <5>1, <5>3
          <6> QED BY <2>4, <5>3, <6>1
        <5> QED BY <2>3, <5>2, <5>3
      <4> QED BY <4>1, <4>2
    <3> QED BY <1>6, <3>2, <3>4 DEF text
  <2>6. CASE i > 1 /\ text[i].names = 0 /\ text[i - 1].names > 0
    <3>1. i = 2 /\ n = 2 /\ 1 \in best
      <4>1. i = 2 /\ n = 2
        BY <1>3, <2>6
      <4>2. text[1].names > 0 /\ text[2].names = 0 /\ text[1].names \in {0, 1, 2}
        BY <1>3, <2>6, <4>1
      <4>3. \A l \in 1..n : text[l].names <= text[1].names
        BY <4>1, <4>2
      <4> QED BY <1>4, <4>1, <4>2, <4>3
    <3>2. at = 1
      BY <2>2, <2>3, <3>1
    <3>3. CASE text[2].holds \in StateCues
      <4>1. takenBack
        BY <2>4, <3>1, <3>2, <3>3
      <4>2. SemanticText(t) = SubSeq(text, 1, 2)
        BY <2>n, <3>2, <4>1
      <4>3. 2 \in DOMAIN SemanticText(t) /\ SemanticText(t)[2] = text[2]
        BY <1>3, <2>4, <3>1, <4>2
      <4> QED BY <1>6, <3>3, <4>3
    <3>4. CASE text[2].holds \notin StateCues
      BY <3>1, <3>4 DEF text
    <3> QED BY <3>3, <3>4
  <2> QED BY <1>5, <2>5, <2>6
<1> QED BY <1>7, <1>8

LEMMA UndoubtedIs ==
    ASSUME NEW t, InferUncertainty(t) = "none"
    PROVE  /\ ~ (t.verb /\ t.quoted) /\ ~ t.declared
           /\ \A i \in DOMAIN t.text : t.text[i].names > 0 => t.text[i].holds \notin Markers
<1> DEFINE markers == FindMarkers(t.text)
           aimed == TargetClause(t.text)
           naming == {i \in DOMAIN t.text : t.text[i].names > 0}
<1>1. /\ ~ ReportedTarget(t) /\ ~ t.declared
      /\ markers = {} \/ (aimed # {} /\ aimed \cap markers = {})
  BY Zenon DEF InferUncertainty
<1>2. aimed = IF Cardinality(naming) = 1 THEN naming ELSE {}
  BY DEF TargetClause
<1>3. naming \cap markers = {}
  <2> HIDE DEF markers, aimed, naming
  <2> QED BY <1>1, <1>2
<1> QED BY <1>1, <1>3 DEF ReportedTarget, FindMarkers

-----------------------------------------------------------------------------
(* Steps.                                                                  *)

LEMMA ClaimStart == ClaimInit => ClaimIInv
  BY DEF ClaimInit, ClaimIInv, NothingYet, PlainBond, Undated1

\* Which of the three a tale is.
LEMMA TaleKinds ==
    /\ told = NoTale => told.kind = "none"
    /\ told \in EventTales => told.kind = "events"
    /\ told \in RelationshipTales => told.kind = "relationship"
  BY EventTaleIs, RelationshipTaleIs DEF NoTale

LEMMA ClaimStep == ClaimIInv /\ [ClaimNext]_claimVars => ClaimIInv'
<1> SUFFICES ASSUME ClaimIInv, [ClaimNext]_claimVars PROVE ClaimIInv'
  OBVIOUS
<1>1. CASE UNCHANGED claimVars
  <2>1. /\ told' = told /\ hardened' = hardened /\ bond' = bond /\ dates' = dates
        /\ eventsKept' = eventsKept /\ dateIssues' = dateIssues /\ temporal' = temporal
    BY <1>1 DEF claimVars
  <2> QED BY <2>1 DEF ClaimIInv, NothingYet, EventsHardened, RelationshipHardened
<1>2. ASSUME told = NoTale, NEW t \in EventTales \cup RelationshipTales, TellTale(t) PROVE ClaimIInv'
  <2>1. NothingYet
    BY <1>2, TaleKinds DEF ClaimIInv, EventsHardened, RelationshipHardened
  <2>2. told' = t /\ NothingYet'
    BY <1>2, <2>1 DEF TellTale, NothingYet
  <2> QED BY <1>2, <2>2 DEF ClaimIInv
<1>3. CASE HardenRelationship
  <2>1. told.kind = "relationship" /\ hardened = "no"
    BY <1>3 DEF HardenRelationship
  <2>2. told \in RelationshipTales /\ NothingYet
    BY <2>1, TaleKinds DEF ClaimIInv, EventsHardened, RelationshipHardened
  <2>3. RelationshipHardened'
    BY <1>3, <2>2 DEF HardenRelationship, RelationshipHardened, NothingYet
  <2> QED BY <2>3 DEF ClaimIInv
<1>4. CASE HardenEvents
  <2>1. told.kind = "events" /\ hardened = "no"
    BY <1>4 DEF HardenEvents
  <2>2. told \in EventTales /\ NothingYet
    BY <2>1, TaleKinds DEF ClaimIInv, EventsHardened, RelationshipHardened
  <2>3. /\ dates' = [e \in Births |-> IF e = 1 THEN Mine(told).date ELSE ParseTemporal(told.other.words).date]
        /\ dateIssues' = Mine(told).issues /\ hardened' = "hardened"
        /\ UNCHANGED <<told, bond, eventsKept, temporal>>
    BY <1>4 DEF HardenEvents, Mine
  <2>5. dates' = DatesOf(told)
    BY <2>3 DEF DatesOf
  <2> QED BY <2>2, <2>3, <2>5 DEF ClaimIInv, EventsHardened, NothingYet
<1>5. CASE FilterEvents
  <2>1. told.kind = "events" /\ hardened = "hardened"
    BY <1>5 DEF FilterEvents
  <2>2. EventsHardened
    BY <2>1, TaleKinds DEF ClaimIInv, NothingYet, RelationshipHardened
  <2>3. EventsHardened'
    BY <1>5, <2>1, <2>2 DEF FilterEvents, EventsHardened, SoundEvents
  <2> QED BY <2>3 DEF ClaimIInv
<1>6. CASE AddTemporalConflicts
  <2>1. told.kind = "events" /\ hardened = "filtered"
    BY <1>6 DEF AddTemporalConflicts
  <2>2. EventsHardened
    BY <2>1, TaleKinds DEF ClaimIInv, NothingYet, RelationshipHardened
  <2>3. eventsKept = SoundEvents(told) /\ dates = DatesOf(told) /\ temporal = {} /\ told \in EventTales
    BY <2>1, <2>2 DEF EventsHardened
  <2>4. SingletonGroup = Compared(told)
    BY <2>3, Zenon DEF SingletonGroup, Compared
  <2>5. temporal' = Conflict(told) /\ hardened' = "compared" /\ UNCHANGED <<told, bond, dates, eventsKept, dateIssues>>
    BY <1>6, <2>3, <2>4 DEF AddTemporalConflicts, Conflict
  <2>6. EventsHardened'
    BY <2>1, <2>2, <2>5 DEF EventsHardened
  <2> QED BY <2>6 DEF ClaimIInv
<1> QED BY <1>1, <1>2, <1>3, <1>4, <1>5, <1>6 DEF ClaimNext

-----------------------------------------------------------------------------
(* What holds after them.                                                  *)

LEMMA DayWasSaid ==
    ASSUME NEW d, NEW w, DateOfWords(w, d), d # NoDate, DateSound(d), d.precision = "day", d.value # NoYear
    PROVE  d.words.has \cap {"iso", "dayYear"} # {} /\ d.words.real /\ "approx" \notin d.words.has
  BY DEF DateOfWords, DateSound, SilentlyExactified

LEMMA VagueWasDropped ==
    ASSUME NEW d, NEW w, d # NoDate => DateOfWords(w, d), ~ DateSound(d)
    PROVE  "approx" \in d.words.has /\ ~ d.approx
<1>1. d # NoDate /\ DateOfWords(w, d)
  BY DEF DateSound
<1>2. d.words = w /\ (d.precision = "day" /\ d.value # NoYear => w.real) /\ (d.kind = "relative" => d.value = NoYear)
  BY <1>1 DEF DateOfWords
<1>3. SilentlyExactified(d)
  BY <1>1, <1>2 DEF DateSound, InvalidCalendarValue
<1> QED BY <1>1, <1>3 DEF SilentlyExactified, DateOfWords

LEMMA EventsAreSound == EventsHardened => ExactDatesWereSaid /\ OnlyVagueDaysAreDropped /\ LostDateIsReported
<1> SUFFICES ASSUME EventsHardened PROVE ExactDatesWereSaid /\ OnlyVagueDaysAreDropped /\ LostDateIsReported
  OBVIOUS
<1>0. told \in EventTales /\ dates = DatesOf(told) /\ dateIssues = Mine(told).issues
  BY DEF EventsHardened
<1>1. ASSUME hardened \in {"filtered", "compared"} PROVE eventsKept = {e \in Births : DateSound(dates[e])}
  BY <1>1 DEF EventsHardened, SoundEvents
<1>2. ExactDatesWereSaid
  <2> SUFFICES ASSUME hardened \in {"filtered", "compared"}, NEW e \in eventsKept,
                      dates[e] # NoDate, dates[e].precision = "day", dates[e].value # NoYear
               PROVE  /\ dates[e].words.has \cap {"iso", "dayYear"} # {}
                      /\ dates[e].words.real /\ "approx" \notin dates[e].words.has
    BY DEF ExactDatesWereSaid
  <2>1. e \in Births /\ DateSound(dates[e])
    BY <1>1
  <2>2. PICK w : DateOfWords(w, dates[e])
    BY <1>0, <2>1, DatesAreOfWords
  <2> QED BY <2>1, <2>2, DayWasSaid
<1>3. OnlyVagueDaysAreDropped
  <2> SUFFICES ASSUME hardened \in {"filtered", "compared"}, NEW e \in Births \ eventsKept
               PROVE  "approx" \in dates[e].words.has /\ ~ dates[e].approx
    BY DEF OnlyVagueDaysAreDropped
  <2>1. e \in Births /\ ~ DateSound(dates[e])
    BY <1>1
  <2>2. PICK w : dates[e] # NoDate => DateOfWords(w, dates[e])
    BY <1>0, <2>1, DatesAreOfWords
  <2> QED BY <2>1, <2>2, VagueWasDropped
<1>4. LostDateIsReported
  <2>1. dates[1] = Mine(told).date
    BY <1>0 DEF DatesOf, Births
  <2>2. Mine(told).date = NoDate => Mine(told).issues # {}
    BY <1>0, MineIs
  <2> QED BY <1>0, <2>1, <2>2 DEF LostDateIsReported
<1> QED BY <1>2, <1>3, <1>4

LEMMA DatesWereSpoken == EventsHardened => DateWordsWereSpoken /\ CorrectedDateIsGone
<1> SUFFICES ASSUME EventsHardened, dates[1] # NoDate
             PROVE  /\ \/ told.spoken /\ dates[1].words = told.words
                       \/ \E c \in told.corrections : c.spoken /\ dates[1].words = c.words
                    /\ dates[1].words = told.words =>
                          \/ TakenBack(told) = {}
                          \/ \E c \in TakenBack(told) : TakenBack(told) = {c} /\ ParseTemporal(c.words).date = NoDate
  BY DEF DateWordsWereSpoken, CorrectedDateIsGone, TakenBack
<1>1. told \in EventTales /\ dates[1] = Mine(told).date
  BY DEF EventsHardened, DatesOf, Births
<1>2. CASE \E c \in TakenBack(told) : ParseTemporal(c.words).date # NoDate /\ Mine(told).date = ParseTemporal(c.words).date
  <2>1. PICK c \in TakenBack(told) : ParseTemporal(c.words).date # NoDate /\ Mine(told).date = ParseTemporal(c.words).date
    BY <1>2
  <2>2. c \in told.corrections /\ c.spoken /\ c \in Correction
    BY <1>1, EventTaleIs DEF TakenBack
  <2>3. dates[1].words = c.words
    BY <1>1, <2>1, ParsedIs DEF DateOfWords
  <2>4. c.words.year = 2
    BY <2>2 DEF Correction, WordsOf
  <2>5. c.words # told.words
    BY <1>1, <2>4, EventTaleIs
  <2> QED BY <2>2, <2>3, <2>5
<1>3. CASE Mine(told).date = NoDate
  BY <1>1, <1>3
<1>4. CASE /\ told.spoken /\ Mine(told).date = ParseTemporal(told.words).date
           /\ \/ TakenBack(told) = {}
              \/ \E c \in TakenBack(told) : TakenBack(told) = {c} /\ ParseTemporal(c.words).date = NoDate
  <2>1. dates[1].words = told.words
    BY <1>1, <1>4, ParsedIs DEF DateOfWords
  <2> QED BY <1>4, <2>1
<1> QED BY <1>1, <1>2, <1>3, <1>4, MineIs

LEMMA ConflictIsShown == EventsHardened => DisagreementIsShown
<1> SUFFICES ASSUME EventsHardened, hardened = "compared" PROVE DisagreementIsShown
  BY DEF DisagreementIsShown
<1> DEFINE compared == /\ told.other.type = "birth" /\ told.other.people = {"p"}
                       /\ eventsKept = Births /\ NoDate \notin {dates[1], dates[2]}
           differ == \E f \in {"kind", "value", "lower", "upper"} : dates[1][f] # dates[2][f]
           group == Compared(told)
           signatures == {SignatureOf(dates[e]) : e \in group}
<1>0. /\ told \in EventTales /\ dates = DatesOf(told) /\ eventsKept = SoundEvents(told)
      /\ temporal = IF Cardinality(signatures) > 1 THEN {group} ELSE {}
  BY DEF EventsHardened, Conflict
<1>1. told.other.type \in {"birth", "death"} <=> told.other.type = "birth"
  <2>1. told.other \in OtherEvent
    BY <1>0, EventTaleIs
  <2>2. told.other.type \in {"birth", "wedding"}
    BY <2>1 DEF OtherEvent
  <2> QED BY <2>2
<1>2. group = Births <=> compared
  <2>1. group = {e \in eventsKept : dates[e] # NoDate /\ (e = 2 => told.other.type = "birth" /\ told.other.people = {"p"})}
    BY <1>0, <1>1 DEF Compared
  <2>2. eventsKept \subseteq Births
    BY <1>0 DEF SoundEvents
  <2> HIDE DEF group
  <2> QED BY <2>1, <2>2 DEF Births
<1>3. ASSUME group = Births PROVE Cardinality(signatures) > 1 <=> differ
  <2>1. signatures = {SignatureOf(dates[1]), SignatureOf(dates[2])}
    BY <1>3 DEF Births
  <2>2. SignatureOf(dates[1]) = SignatureOf(dates[2]) <=> ~ differ
    BY DEF SignatureOf
  <2>3. CASE SignatureOf(dates[1]) = SignatureOf(dates[2])
    <3>1. signatures = {SignatureOf(dates[1])}
      BY <2>1, <2>3
    <3>2. Cardinality(signatures) = 1
      <4> HIDE DEF signatures
      <4> QED BY <3>1, FS_Singleton
    <3> QED BY <2>2, <2>3, <3>2
  <2>4. CASE SignatureOf(dates[1]) # SignatureOf(dates[2])
    <3>1. signatures = {SignatureOf(dates[1])} \cup {SignatureOf(dates[2])}
      BY <2>1
    <3>2. IsFiniteSet({SignatureOf(dates[1])}) /\ Cardinality({SignatureOf(dates[1])}) = 1
      BY FS_Singleton
    <3>3. SignatureOf(dates[2]) \notin {SignatureOf(dates[1])}
      BY <2>4
    <3>4. Cardinality(signatures) = 2
      <4> HIDE DEF signatures
      <4>1. Cardinality({SignatureOf(dates[1])} \cup {SignatureOf(dates[2])}) = 1 + 1
        BY <3>2, <3>3, FS_AddElement
      <4> QED BY <3>1, <4>1
    <3> QED BY <2>2, <2>4, <3>4
  <2> QED BY <2>3, <2>4
<1>4. Births \in temporal <=> (group = Births /\ Cardinality(signatures) > 1)
  <2> HIDE DEF group, signatures
  <2> QED BY <1>0
<1>5. (Births \in temporal) <=> (compared /\ differ)
  <2> HIDE DEF group, signatures, compared, differ
  <2> QED BY <1>2, <1>3, <1>4
<1> QED BY <1>5 DEF DisagreementIsShown

LEMMA RelationshipIsPlain == RelationshipHardened => ActiveIsPlainlySaid /\ ActiveIsUndoubted
<1> SUFFICES ASSUME RelationshipHardened, ActiveCandidate(bond) PROVE ActiveIsPlainlySaid /\ ActiveIsUndoubted
  BY DEF ActiveIsPlainlySaid, ActiveIsUndoubted
<1>1. told \in RelationshipTales /\ RelationshipState(told) = "current" /\ InferUncertainty(told) = "none"
  BY DEF RelationshipHardened, ActiveCandidate
<1>2. \A i \in DOMAIN CitedText(told) : CitedText(told)[i].names = 2 => CitedText(told)[i].holds \notin StateCues
  BY <1>1, SaidPlainly
<1>3. \A i \in DOMAIN CitedText(told) :
         (i > 1 /\ CitedText(told)[i].names = 0 /\ CitedText(told)[i - 1].names > 0)
            => CitedText(told)[i].holds \notin StateCues
  BY <1>1, SaidPlainly
<1>4. \A r \in told.revisions : (r.shares /\ r.namesOne /\ r.oldInText) => r.holds \notin StateCues
  BY <1>1, CurrentSays DEF RelevantCorrections
<1> QED BY <1>1, <1>2, <1>3, <1>4, UndoubtedIs DEF ActiveIsPlainlySaid, ActiveIsUndoubted

\* Whatever is said of two people or of two events, in these words: no date is more exact than
\* what was said, what was taken back is gone, what is lost is reported, and a relationship that
\* may be used was said plainly and without doubt (harden_claim_semantics,
\* add_temporal_conflicts, validate_extraction_result).
THEOREM SemanticsCorrect == ClaimSpec => []SemanticsInv
<1>1. ClaimIInv => SemanticsInv
  <2> SUFFICES ASSUME ClaimIInv PROVE SemanticsInv
    OBVIOUS
  <2>1. CASE NothingYet
    BY <2>1 DEF NothingYet, PlainBond, SemanticsInv, ClaimTypeOK, ExactDatesWereSaid, DateWordsWereSpoken,
        OnlyVagueDaysAreDropped, CorrectedDateIsGone, LostDateIsReported, DisagreementIsShown,
        ActiveIsPlainlySaid, ActiveIsUndoubted
  <2>2. CASE EventsHardened
    <3>1. ClaimTypeOK
      <4>1. eventsKept \subseteq Births /\ bond.state = "current" /\ hardened \in {"hardened", "filtered", "compared"}
        BY <2>2 DEF EventsHardened, SoundEvents, PlainBond
      <4>2. temporal \subseteq SUBSET Births
        BY <2>2 DEF EventsHardened, Conflict, Compared, SoundEvents
      <4> QED BY <4>1, <4>2 DEF ClaimTypeOK
    <3>2. ActiveIsPlainlySaid /\ ActiveIsUndoubted
      <4>1. told.kind = "events"
        BY <2>2, EventTaleIs DEF EventsHardened
      <4> QED BY <4>1 DEF ActiveIsPlainlySaid, ActiveIsUndoubted
    <3> QED BY <2>2, <3>1, <3>2, EventsAreSound, DatesWereSpoken, ConflictIsShown DEF SemanticsInv
  <2>3. CASE RelationshipHardened
    <3>1. told.kind = "relationship" /\ hardened = "hardened" /\ bond.state = RelationshipState(told)
          /\ eventsKept = Births /\ temporal = {}
      BY <2>3, RelationshipTaleIs DEF RelationshipHardened
    <3>2. ClaimTypeOK
      BY <3>1, CurrentIs DEF ClaimTypeOK, RelationshipState
    <3>3. /\ ExactDatesWereSaid /\ OnlyVagueDaysAreDropped /\ DisagreementIsShown
          /\ DateWordsWereSpoken /\ CorrectedDateIsGone /\ LostDateIsReported
      BY <3>1 DEF ExactDatesWereSaid, OnlyVagueDaysAreDropped, DisagreementIsShown, DateWordsWereSpoken,
          CorrectedDateIsGone, LostDateIsReported
    <3> QED BY <2>3, <3>2, <3>3, RelationshipIsPlain DEF SemanticsInv
  <2> QED BY <2>1, <2>2, <2>3 DEF ClaimIInv
<1> QED BY <1>1, ClaimStart, ClaimStep, PTL DEF ClaimSpec

-----------------------------------------------------------------------------
(* Pronouns and quotations (Coreference).                                  *)

CorefSpec == CorefInit /\ [][CorefNext]_corefVars

\* The quotations that are open after n characters.
ScopesAt(f, t, n) == IF n = 0 THEN <<>> ELSE PushQuote(f[n - 1], t[n])

Scopes(f, t, m) == f = [n \in 0..m |-> ScopesAt(f, t, n)]

LEMMA OutsideIs ==
    ASSUME NEW t, NEW m PROVE Outside(t, m) <=> (CHOOSE f : Scopes(f, t, m))[m] = <<>>
  BY DEF Outside, Scopes, ScopesAt

LEMMA ScopeAt ==
    ASSUME NEW t, NEW m \in Nat, NEW f, Scopes(f, t, m), NEW n \in 0..m
    PROVE  f[n] = ScopesAt(f, t, n)
  BY DEF Scopes

LEMMA ScopesExist ==
    ASSUME NEW t, NEW m \in Nat
    PROVE  \E f : Scopes(f, t, m)
<1> DEFINE Bad == {n \in Nat : ~ \E f : Scopes(f, t, n)}
<1>1. Bad = {}
  <2> SUFFICES ASSUME Bad # {} PROVE FALSE
    OBVIOUS
  <2>1. PICK l \in Bad : \A n \in Bad : l <= n
    BY LeastNumber
  <2>2. CASE l = 0
    <3> DEFINE h == [n \in 0..0 |-> <<>>]
    <3>1. h = [n \in 0..0 |-> ScopesAt(h, t, n)]
      BY DEF ScopesAt
    <3>2. Scopes(h, t, 0)
      BY <3>1 DEF Scopes
    <3> QED BY <2>1, <2>2, <3>2
  <2>3. CASE l # 0
    <3>1. l \in Nat /\ l - 1 \in Nat /\ l - 1 \notin Bad
      <4>1. l \in Nat /\ l - 1 \in Nat /\ ~ (l <= l - 1)
        BY <2>1, <2>3
      <4> HIDE DEF Bad
      <4> QED BY <2>1, <4>1
    <3>2. PICK g : Scopes(g, t, l - 1)
      BY <3>1
    <3> DEFINE h == [n \in 0..l |-> ScopesAt(g, t, n)]
    <3>3. ASSUME NEW n \in 0..(l - 1) PROVE g[n] = h[n]
      <4>1. g[n] = ScopesAt(g, t, n)
        BY <3>1, <3>2, ScopeAt
      <4>2. n \in 0..l
        BY <3>1
      <4> QED BY <4>1, <4>2
    <3>4. ASSUME NEW n \in 0..l PROVE ScopesAt(g, t, n) = ScopesAt(h, t, n)
      <4>1. n # 0 => n - 1 \in 0..(l - 1)
        BY <3>1
      <4>2. n # 0 => g[n - 1] = h[n - 1]
        BY <3>3, <4>1
      <4> HIDE DEF h
      <4> QED BY <4>2 DEF ScopesAt
    <3>5. h = [n \in 0..l |-> ScopesAt(h, t, n)]
      <4> DEFINE v == [n \in 0..l |-> ScopesAt(h, t, n)]
      <4>1. v = [n \in 0..l |-> ScopesAt(g, t, n)]
        <5> HIDE DEF h
        <5> QED BY <3>4
      <4> QED BY <4>1
    <3>6. Scopes(h, t, l)
      <4> HIDE DEF h
      <4> QED BY <3>5 DEF Scopes
    <3> HIDE DEF h
    <3> QED BY <2>1, <3>6
  <2> QED BY <2>2, <2>3
<1> QED BY <1>1

-----------------------------------------------------------------------------
(* Marks are counted in the text and among the open quotations.            *)

Bump(a, b) == IF a = b THEN 1 ELSE 0

\* How often v is among the first n of s.
Times(s, v, n) == Cardinality({i \in 1..n : s[i] = v})

LEMMA TimesType == ASSUME NEW s, NEW v, NEW n \in Nat PROVE Times(s, v, n) \in Nat
<1>1. IsFiniteSet(1..n)
  BY FS_Interval
<1>2. IsFiniteSet({i \in 1..n : s[i] = v})
  BY <1>1, FS_Subset
<1> QED BY <1>2, FS_CardinalityType DEF Times

LEMMA TimesNone == ASSUME NEW s, NEW v PROVE Times(s, v, 0) = 0
<1>1. {i \in 1..0 : s[i] = v} = {}
  OBVIOUS
<1> QED BY <1>1, FS_EmptySet DEF Times

LEMMA TimesNext ==
    ASSUME NEW s, NEW v, NEW n \in Nat
    PROVE  Times(s, v, n + 1) = Times(s, v, n) + Bump(s[n + 1], v)
<1> DEFINE A == {i \in 1..n : s[i] = v}
           B == {i \in 1..(n + 1) : s[i] = v}
<1>1. IsFiniteSet(A) /\ n + 1 \notin A
  <2>1. IsFiniteSet(1..n) /\ A \subseteq 1..n
    BY FS_Interval
  <2> QED BY <2>1, FS_Subset
<1>2. CASE s[n + 1] = v
  <2>1. B = A \cup {n + 1}
    BY <1>2
  <2>2. Cardinality(B) = Cardinality(A) + 1
    <3> HIDE DEF A, B
    <3> QED BY <1>1, <2>1, FS_AddElement
  <2> QED BY <1>2, <2>2 DEF Times, Bump
<1>3. CASE s[n + 1] # v
  <2>1. B = A
    BY <1>3
  <2>2. Cardinality(A) \in Nat
    BY <1>1, FS_CardinalityType
  <2>3. Times(s, v, n + 1) = Cardinality(B) /\ Times(s, v, n) = Cardinality(A) /\ Bump(s[n + 1], v) = 0
    BY <1>3 DEF Times, Bump
  <2> HIDE DEF A, B
  <2> QED BY <2>1, <2>2, <2>3
<1> QED BY <1>2, <1>3

LEMMA TimesSame ==
    ASSUME NEW s, NEW r, NEW v, NEW n \in Nat, \A i \in 1..n : s[i] = r[i]
    PROVE  Times(s, v, n) = Times(r, v, n)
<1>1. {i \in 1..n : s[i] = v} = {i \in 1..n : r[i] = v}
  OBVIOUS
<1> QED BY <1>1 DEF Times

Marks == {"guillemetEnd", "highEnd", "high", "straight", "malformed"}

\* How often a mark is awaited.
Awaited(s, v) == Times(s, v, Len(s))

LEMMA AwaitedType == ASSUME NEW s \in Seq(Marks), NEW v PROVE Awaited(s, v) \in Nat
  BY TimesType DEF Awaited

LEMMA AwaitedNone == ASSUME NEW v PROVE Awaited(<<>>, v) = 0
<1>1. Len(<<>>) = 0
  OBVIOUS
<1> QED BY <1>1, TimesNone DEF Awaited

LEMMA AwaitedMore ==
    ASSUME NEW s \in Seq(Marks), NEW e \in Marks, NEW v
    PROVE  Append(s, e) \in Seq(Marks) /\ Awaited(Append(s, e), v) = Awaited(s, v) + Bump(e, v)
<1> DEFINE r == Append(s, e)
<1>1. Len(s) \in Nat /\ Len(r) = Len(s) + 1 /\ r[Len(s) + 1] = e /\ r \in Seq(Marks)
  OBVIOUS
<1>2. \A i \in 1..Len(s) : r[i] = s[i]
  OBVIOUS
<1> HIDE DEF r
<1>3. Times(r, v, Len(s) + 1) = Times(r, v, Len(s)) + Bump(e, v)
  BY <1>1, TimesNext
<1>4. Times(r, v, Len(s)) = Times(s, v, Len(s))
  BY <1>1, <1>2, TimesSame
<1>5. Awaited(r, v) = Awaited(s, v) + Bump(e, v) /\ r \in Seq(Marks)
  BY <1>1, <1>3, <1>4 DEF Awaited
<1> QED BY <1>5 DEF r

LEMMA AwaitedLess ==
    ASSUME NEW s \in Seq(Marks), s # <<>>, NEW v
    PROVE  /\ SubSeq(s, 1, Len(s) - 1) \in Seq(Marks)
           /\ Awaited(s, v) = Awaited(SubSeq(s, 1, Len(s) - 1), v) + Bump(s[Len(s)], v)
<1> DEFINE r == SubSeq(s, 1, Len(s) - 1)
           n == Len(s) - 1
<1>1. Len(s) \in Nat /\ n \in Nat /\ Len(s) = n + 1
  OBVIOUS
<1>2. r \in Seq(Marks) /\ Len(r) = n /\ \A i \in 1..n : r[i] = s[i]
  <2>1. \A i \in 1..n : s[i] \in Marks
    OBVIOUS
  <2> QED BY <1>1, <2>1
<1> HIDE DEF r, n
<1>3. Times(s, v, n + 1) = Times(s, v, n) + Bump(s[n + 1], v)
  BY <1>1, TimesNext
<1>4. Times(r, v, n) = Times(s, v, n)
  BY <1>1, <1>2, TimesSame
<1>5. Awaited(s, v) = Awaited(r, v) + Bump(s[Len(s)], v) /\ r \in Seq(Marks)
  BY <1>1, <1>2, <1>3, <1>4 DEF Awaited
<1> QED BY <1>5 DEF r, n

\* A scope that nothing closes.
NeverCloses(s) == \E i \in 1..Len(s) : s[i] \in {"malformed", "high"}

Balanced(t, n, s) ==
    /\ Times(t, "low", n) = 0
    /\ Times(t, "guillemet", n) = Times(t, "guillemetEnd", n) + Awaited(s, "guillemetEnd")
    /\ Times(t, "high", n) = Times(t, "highEnd", n) + Awaited(s, "highEnd")
    /\ \E k \in Nat : Times(t, "straight", n) + Awaited(s, "straight") = 2 * k

LEMMA ClosingIs == Closing = {"guillemetEnd", "highEnd", "high"}
  BY DEF Closing, Opening, Closer

LEMMA CharIs ==
    ASSUME NEW c \in QuoteChars
    PROVE  c \in {"guillemet", "high", "low", "guillemetEnd", "highEnd", "straight", "letter"}
  BY ClosingIs DEF QuoteChars, Opening

LEMMA PushIs ==
    ASSUME NEW s, NEW c \in QuoteChars
    PROVE  /\ c = "guillemet" => PushQuote(s, c) = Append(s, "guillemetEnd")
           /\ c = "high" => PushQuote(s, c) = Append(s, "highEnd")
           /\ c = "low" => PushQuote(s, c) = Append(s, "high")
           /\ c \in {"guillemetEnd", "highEnd", "straight"} /\ s # <<>> /\ s[Len(s)] = c
                => PushQuote(s, c) = SubSeq(s, 1, Len(s) - 1)
           /\ c = "straight" /\ ~ (s # <<>> /\ s[Len(s)] = c) => PushQuote(s, c) = Append(s, "straight")
           /\ c \in {"guillemetEnd", "highEnd"} /\ ~ (s # <<>> /\ s[Len(s)] = c)
                => PushQuote(s, c) = Append(s, "malformed")
           /\ c = "letter" => PushQuote(s, c) = s
<1>1. Closer("guillemet") = "guillemetEnd" /\ Closer("high") = "highEnd" /\ Closer("low") = "high"
  BY DEF Closer
<1> QED BY <1>1, ClosingIs DEF PushQuote, Opening

LEMMA StuckStays ==
    ASSUME NEW s \in Seq(Marks), NeverCloses(s), NEW c \in QuoteChars
    PROVE  PushQuote(s, c) \in Seq(Marks) /\ NeverCloses(PushQuote(s, c))
<1>1. PICK i \in 1..Len(s) : s[i] \in {"malformed", "high"}
  BY DEF NeverCloses
<1>2. ASSUME NEW e \in Marks PROVE Append(s, e) \in Seq(Marks) /\ NeverCloses(Append(s, e))
  <2>1. Append(s, e) \in Seq(Marks) /\ i \in 1..Len(Append(s, e)) /\ Append(s, e)[i] = s[i]
    BY <1>1
  <2> QED BY <1>1, <2>1 DEF NeverCloses
<1>3. ASSUME s # <<>>, s[Len(s)] \notin {"malformed", "high"}
      PROVE  SubSeq(s, 1, Len(s) - 1) \in Seq(Marks) /\ NeverCloses(SubSeq(s, 1, Len(s) - 1))
  <2> DEFINE r == SubSeq(s, 1, Len(s) - 1)
  <2>1. i # Len(s)
    BY <1>1, <1>3
  <2>2. \A j \in 1..Len(s) : s[j] \in Marks
    OBVIOUS
  <2>3. r \in Seq(Marks) /\ i \in 1..Len(r) /\ r[i] = s[i]
    BY <1>1, <1>3, <2>1, <2>2
  <2> QED BY <1>1, <2>3 DEF NeverCloses
<1>4. "guillemetEnd" \in Marks /\ "highEnd" \in Marks /\ "high" \in Marks /\ "straight" \in Marks /\ "malformed" \in Marks
  BY DEF Marks
<1>5. CASE c \in {"guillemet", "high", "low"}
  BY <1>2, <1>4, <1>5, PushIs
<1>6. CASE c \in {"guillemetEnd", "highEnd", "straight"} /\ s # <<>> /\ s[Len(s)] = c
  <2>1. s[Len(s)] \notin {"malformed", "high"}
    BY <1>6
  <2> QED BY <1>3, <1>6, <2>1, PushIs
<1>7. CASE c \in {"guillemetEnd", "highEnd", "straight"} /\ ~ (s # <<>> /\ s[Len(s)] = c)
  BY <1>2, <1>4, <1>7, PushIs
<1>8. CASE c = "letter"
  BY <1>8, PushIs
<1> QED BY <1>5, <1>6, <1>7, <1>8, CharIs

LEMMA NewIsStuck ==
    ASSUME NEW s \in Seq(Marks), NEW e \in {"malformed", "high"}
    PROVE  Append(s, e) \in Seq(Marks) /\ NeverCloses(Append(s, e))
<1>1. e \in Marks
  BY DEF Marks
<1>2. Append(s, e) \in Seq(Marks) /\ Len(s) + 1 \in 1..Len(Append(s, e)) /\ Append(s, e)[Len(s) + 1] = e
  BY <1>1
<1> QED BY <1>2 DEF NeverCloses

\* One more character of the text, whose open quotations become r.
LEMMA CharKeeps ==
    ASSUME NEW t, NEW n \in Nat, t[n + 1] \in QuoteChars, NEW s \in Seq(Marks), Balanced(t, n, s)
    PROVE  /\ PushQuote(s, t[n + 1]) \in Seq(Marks)
           /\ NeverCloses(PushQuote(s, t[n + 1])) \/ Balanced(t, n + 1, PushQuote(s, t[n + 1]))
<1> DEFINE c == t[n + 1]
           r == PushQuote(s, c)
<1>0. c \in QuoteChars
  OBVIOUS
<1> HIDE DEF c
<1>a. ASSUME NEW v PROVE Times(t, v, n) \in Nat /\ Times(t, v, n + 1) = Times(t, v, n) + Bump(c, v)
  BY TimesType, TimesNext DEF c
<1>b. ASSUME NEW v PROVE Awaited(s, v) \in Nat
  BY AwaitedType
<1>d. PICK k \in Nat : Times(t, "straight", n) + Awaited(s, "straight") = 2 * k
  BY DEF Balanced
<1> DEFINE T(v) == Times(t, v, n)
           S(v) == Awaited(s, v)
           U(v) == Times(t, v, n + 1)
           R(v) == Awaited(r, v)
<1>e. /\ T("low") = 0 /\ T("guillemet") = T("guillemetEnd") + S("guillemetEnd")
      /\ T("high") = T("highEnd") + S("highEnd") /\ T("straight") + S("straight") = 2 * k
  BY <1>d DEF Balanced
<1>f. ASSUME NEW x \in {"guillemet", "high", "low", "guillemetEnd", "highEnd", "straight"}
      PROVE  U(x) = T(x) + Bump(c, x) /\ T(x) \in Nat /\ S(x) \in Nat
  BY <1>a, <1>b
<1> HIDE DEF T, S, U, R
<1>g. /\ T("low") \in Nat /\ T("guillemet") \in Nat /\ T("guillemetEnd") \in Nat /\ T("high") \in Nat
      /\ T("highEnd") \in Nat /\ T("straight") \in Nat
      /\ S("guillemetEnd") \in Nat /\ S("highEnd") \in Nat /\ S("straight") \in Nat
  BY <1>f
<1>h. ASSUME U("low") = 0, U("guillemet") = U("guillemetEnd") + R("guillemetEnd"),
             U("high") = U("highEnd") + R("highEnd"), \E q \in Nat : U("straight") + R("straight") = 2 * q
      PROVE  Balanced(t, n + 1, r)
  BY <1>h, Zenon DEF Balanced, U, R
<1>i. "guillemetEnd" \in Marks /\ "highEnd" \in Marks /\ "straight" \in Marks
  BY DEF Marks
<1>p. T("low") = 0
  BY <1>e
<1>q. T("guillemet") = T("guillemetEnd") + S("guillemetEnd")
  BY <1>e
<1>r. T("high") = T("highEnd") + S("highEnd")
  BY <1>e
<1>s. T("straight") + S("straight") = 2 * k
  BY <1>e
<1>1. CASE c \in {"guillemet", "high"} \/ (c = "straight" /\ ~ (s # <<>> /\ s[Len(s)] = c))
  <2> DEFINE e == IF c = "guillemet" THEN "guillemetEnd" ELSE IF c = "high" THEN "highEnd" ELSE "straight"
  <2>1. e \in Marks /\ r = Append(s, e)
    BY <1>0, <1>1, <1>i, PushIs
  <2>2. r \in Seq(Marks) /\ \A v : Awaited(r, v) = Awaited(s, v) + Bump(e, v)
    BY <2>1, AwaitedMore
  <2>3. ASSUME NEW x PROVE R(x) = S(x) + Bump(e, x)
    BY <2>2 DEF R, S
  <2>4. CASE c = "guillemet"
    <3>1. /\ Bump(c, "low") = 0 /\ Bump(c, "guillemet") = 1 /\ Bump(c, "guillemetEnd") = 0
          /\ Bump(c, "high") = 0 /\ Bump(c, "highEnd") = 0 /\ Bump(c, "straight") = 0
          /\ Bump(e, "guillemetEnd") = 1 /\ Bump(e, "highEnd") = 0 /\ Bump(e, "straight") = 0
      BY <2>4 DEF Bump
    <3>2. /\ U("low") = T("low") + 0 /\ U("guillemet") = T("guillemet") + 1 /\ U("guillemetEnd") = T("guillemetEnd") + 0
          /\ U("high") = T("high") + 0 /\ U("highEnd") = T("highEnd") + 0 /\ U("straight") = T("straight") + 0
      BY <1>f, <3>1
    <3>3. R("guillemetEnd") = S("guillemetEnd") + 1 /\ R("highEnd") = S("highEnd") + 0 /\ R("straight") = S("straight") + 0
      BY <2>3, <3>1
    <3>4. U("straight") + R("straight") = 2 * k
      BY <1>s, <1>g, <3>2, <3>3
    <3>5. U("low") = 0
      BY <1>p, <1>g, <3>2, <3>3
    <3>6. U("guillemet") = U("guillemetEnd") + R("guillemetEnd")
      BY <1>q, <1>g, <3>2, <3>3
    <3>7. U("high") = U("highEnd") + R("highEnd")
      BY <1>r, <1>g, <3>2, <3>3
    <3> QED BY <1>h, <2>2, <3>4, <3>5, <3>6, <3>7 DEF c
  <2>5. CASE c = "high"
    <3>1. /\ Bump(c, "low") = 0 /\ Bump(c, "guillemet") = 0 /\ Bump(c, "guillemetEnd") = 0
          /\ Bump(c, "high") = 1 /\ Bump(c, "highEnd") = 0 /\ Bump(c, "straight") = 0
          /\ Bump(e, "guillemetEnd") = 0 /\ Bump(e, "highEnd") = 1 /\ Bump(e, "straight") = 0
      BY <2>5 DEF Bump
    <3>2. /\ U("low") = T("low") + 0 /\ U("guillemet") = T("guillemet") + 0 /\ U("guillemetEnd") = T("guillemetEnd") + 0
          /\ U("high") = T("high") + 1 /\ U("highEnd") = T("highEnd") + 0 /\ U("straight") = T("straight") + 0
      BY <1>f, <3>1
    <3>3. R("guillemetEnd") = S("guillemetEnd") + 0 /\ R("highEnd") = S("highEnd") + 1 /\ R("straight") = S("straight") + 0
      BY <2>3, <3>1
    <3>4. U("straight") + R("straight") = 2 * k
      BY <1>s, <1>g, <3>2, <3>3
    <3>5. U("low") = 0
      BY <1>p, <1>g, <3>2, <3>3
    <3>6. U("guillemet") = U("guillemetEnd") + R("guillemetEnd")
      BY <1>q, <1>g, <3>2, <3>3
    <3>7. U("high") = U("highEnd") + R("highEnd")
      BY <1>r, <1>g, <3>2, <3>3
    <3> QED BY <1>h, <2>2, <3>4, <3>5, <3>6, <3>7 DEF c
  <2>6. CASE c = "straight"
    <3>1. /\ Bump(c, "low") = 0 /\ Bump(c, "guillemet") = 0 /\ Bump(c, "guillemetEnd") = 0
          /\ Bump(c, "high") = 0 /\ Bump(c, "highEnd") = 0 /\ Bump(c, "straight") = 1
          /\ Bump(e, "guillemetEnd") = 0 /\ Bump(e, "highEnd") = 0 /\ Bump(e, "straight") = 1
      BY <2>6 DEF Bump
    <3>2. /\ U("low") = T("low") + 0 /\ U("guillemet") = T("guillemet") + 0 /\ U("guillemetEnd") = T("guillemetEnd") + 0
          /\ U("high") = T("high") + 0 /\ U("highEnd") = T("highEnd") + 0 /\ U("straight") = T("straight") + 1
      BY <1>f, <3>1
    <3>3. R("guillemetEnd") = S("guillemetEnd") + 0 /\ R("highEnd") = S("highEnd") + 0 /\ R("straight") = S("straight") + 1
      BY <2>3, <3>1
    <3>3a. k + 1 \in Nat
      OBVIOUS
    <3>4. U("straight") + R("straight") = 2 * (k + 1)
      <4>1. U("straight") = T("straight") + 1 /\ R("straight") = S("straight") + 1
        BY <3>2, <3>3
      <4>2. T("straight") + S("straight") = 2 * k /\ T("straight") \in Nat /\ S("straight") \in Nat
        BY <1>s, <1>g
      <4>3. ASSUME NEW x \in Nat, NEW y \in Nat, x + y = 2 * k PROVE (x + 1) + (y + 1) = 2 * (k + 1)
        BY <4>3
      <4> QED BY <4>1, <4>2, <4>3
    <3>5. U("low") = 0
      BY <1>p, <1>g, <3>2, <3>3
    <3>6. U("guillemet") = U("guillemetEnd") + R("guillemetEnd")
      BY <1>q, <1>g, <3>2, <3>3
    <3>7. U("high") = U("highEnd") + R("highEnd")
      BY <1>r, <1>g, <3>2, <3>3
    <3> QED BY <1>h, <2>2, <3>3a, <3>4, <3>5, <3>6, <3>7 DEF c
  <2> QED BY <1>1, <2>4, <2>5, <2>6
<1>2. CASE c \in {"guillemetEnd", "highEnd", "straight"} /\ s # <<>> /\ s[Len(s)] = c
  <2>1. r = SubSeq(s, 1, Len(s) - 1)
    BY <1>0, <1>2, PushIs
  <2>2. r \in Seq(Marks) /\ \A v : Awaited(s, v) = Awaited(r, v) + Bump(c, v)
    BY <1>2, <2>1, AwaitedLess
  <2>3. ASSUME NEW x PROVE S(x) = R(x) + Bump(c, x)
    BY <2>2 DEF R, S
  <2>n. R("guillemetEnd") \in Nat /\ R("highEnd") \in Nat /\ R("straight") \in Nat
    BY <2>2, AwaitedType DEF R
  <2>4. CASE c = "guillemetEnd"
    <3>1. /\ Bump(c, "low") = 0 /\ Bump(c, "guillemet") = 0 /\ Bump(c, "guillemetEnd") = 1
          /\ Bump(c, "high") = 0 /\ Bump(c, "highEnd") = 0 /\ Bump(c, "straight") = 0
      BY <2>4 DEF Bump
    <3>2. /\ U("low") = T("low") + 0 /\ U("guillemet") = T("guillemet") + 0 /\ U("guillemetEnd") = T("guillemetEnd") + 1
          /\ U("high") = T("high") + 0 /\ U("highEnd") = T("highEnd") + 0 /\ U("straight") = T("straight") + 0
      BY <1>f, <3>1
    <3>3. S("guillemetEnd") = R("guillemetEnd") + 1 /\ S("highEnd") = R("highEnd") + 0 /\ S("straight") = R("straight") + 0
      BY <2>3, <3>1
    <3>4. U("straight") + R("straight") = 2 * k
      BY <1>s, <1>g, <2>n, <3>2, <3>3
    <3>5. U("low") = 0
      BY <1>p, <1>g, <2>n, <3>2, <3>3
    <3>6. U("guillemet") = U("guillemetEnd") + R("guillemetEnd")
      BY <1>q, <1>g, <2>n, <3>2, <3>3
    <3>7. U("high") = U("highEnd") + R("highEnd")
      BY <1>r, <1>g, <2>n, <3>2, <3>3
    <3> QED BY <1>h, <2>2, <3>4, <3>5, <3>6, <3>7 DEF c
  <2>5. CASE c = "highEnd"
    <3>1. /\ Bump(c, "low") = 0 /\ Bump(c, "guillemet") = 0 /\ Bump(c, "guillemetEnd") = 0
          /\ Bump(c, "high") = 0 /\ Bump(c, "highEnd") = 1 /\ Bump(c, "straight") = 0
      BY <2>5 DEF Bump
    <3>2. /\ U("low") = T("low") + 0 /\ U("guillemet") = T("guillemet") + 0 /\ U("guillemetEnd") = T("guillemetEnd") + 0
          /\ U("high") = T("high") + 0 /\ U("highEnd") = T("highEnd") + 1 /\ U("straight") = T("straight") + 0
      BY <1>f, <3>1
    <3>3. S("guillemetEnd") = R("guillemetEnd") + 0 /\ S("highEnd") = R("highEnd") + 1 /\ S("straight") = R("straight") + 0
      BY <2>3, <3>1
    <3>4. U("straight") + R("straight") = 2 * k
      BY <1>s, <1>g, <2>n, <3>2, <3>3
    <3>5. U("low") = 0
      BY <1>p, <1>g, <2>n, <3>2, <3>3
    <3>6. U("guillemet") = U("guillemetEnd") + R("guillemetEnd")
      BY <1>q, <1>g, <2>n, <3>2, <3>3
    <3>7. U("high") = U("highEnd") + R("highEnd")
      BY <1>r, <1>g, <2>n, <3>2, <3>3
    <3> QED BY <1>h, <2>2, <3>4, <3>5, <3>6, <3>7 DEF c
  <2>6. CASE c = "straight"
    <3>1. /\ Bump(c, "low") = 0 /\ Bump(c, "guillemet") = 0 /\ Bump(c, "guillemetEnd") = 0
          /\ Bump(c, "high") = 0 /\ Bump(c, "highEnd") = 0 /\ Bump(c, "straight") = 1
      BY <2>6 DEF Bump
    <3>2. /\ U("low") = T("low") + 0 /\ U("guillemet") = T("guillemet") + 0 /\ U("guillemetEnd") = T("guillemetEnd") + 0
          /\ U("high") = T("high") + 0 /\ U("highEnd") = T("highEnd") + 0 /\ U("straight") = T("straight") + 1
      BY <1>f, <3>1
    <3>3. S("guillemetEnd") = R("guillemetEnd") + 0 /\ S("highEnd") = R("highEnd") + 0 /\ S("straight") = R("straight") + 1
      BY <2>3, <3>1
    <3>4. U("straight") + R("straight") = 2 * k
      BY <1>s, <1>g, <2>n, <3>2, <3>3
    <3>5. U("low") = 0
      BY <1>p, <1>g, <2>n, <3>2, <3>3
    <3>6. U("guillemet") = U("guillemetEnd") + R("guillemetEnd")
      BY <1>q, <1>g, <2>n, <3>2, <3>3
    <3>7. U("high") = U("highEnd") + R("highEnd")
      BY <1>r, <1>g, <2>n, <3>2, <3>3
    <3> QED BY <1>h, <2>2, <3>4, <3>5, <3>6, <3>7 DEF c
  <2> QED BY <1>2, <2>4, <2>5, <2>6
<1>3. CASE c = "low" \/ (c \in {"guillemetEnd", "highEnd"} /\ ~ (s # <<>> /\ s[Len(s)] = c))
  <2> DEFINE e == IF c = "low" THEN "high" ELSE "malformed"
  <2>1. r = Append(s, e)
    BY <1>0, <1>3, PushIs
  <2>2. r \in Seq(Marks) /\ NeverCloses(r)
    BY <2>1, NewIsStuck
  <2> QED BY <2>2 DEF c
<1>4. CASE c = "letter"
  <2>1. r = s
    BY <1>0, <1>4, PushIs
  <2>2. /\ Bump(c, "low") = 0 /\ Bump(c, "guillemet") = 0 /\ Bump(c, "guillemetEnd") = 0
        /\ Bump(c, "high") = 0 /\ Bump(c, "highEnd") = 0 /\ Bump(c, "straight") = 0
    BY <1>4 DEF Bump
  <2>3. /\ U("low") = T("low") + 0 /\ U("guillemet") = T("guillemet") + 0 /\ U("guillemetEnd") = T("guillemetEnd") + 0
        /\ U("high") = T("high") + 0 /\ U("highEnd") = T("highEnd") + 0 /\ U("straight") = T("straight") + 0
    BY <1>f, <2>2
  <2>4. R("guillemetEnd") = S("guillemetEnd") /\ R("highEnd") = S("highEnd") /\ R("straight") = S("straight")
    BY <2>1 DEF R, S
  <2>5. U("straight") + R("straight") = 2 * k
    BY <1>s, <1>g, <2>3, <2>4
  <2>6. U("low") = 0
    BY <1>p, <1>g, <2>3, <2>4
  <2>7. U("guillemet") = U("guillemetEnd") + R("guillemetEnd")
    BY <1>q, <1>g, <2>3, <2>4
  <2>8. U("high") = U("highEnd") + R("highEnd")
    BY <1>r, <1>g, <2>3, <2>4
  <2> QED BY <1>h, <2>1, <2>5, <2>6, <2>7, <2>8 DEF c
<1> QED BY <1>0, <1>1, <1>2, <1>3, <1>4, CharIs

LEMMA OpenAreBalanced ==
    ASSUME NEW t, NEW m \in Nat, \A i \in 1..m : t[i] \in QuoteChars, NEW f, Scopes(f, t, m)
    PROVE  f[m] \in Seq(Marks) /\ (NeverCloses(f[m]) \/ Balanced(t, m, f[m]))
<1> DEFINE Good(n) == f[n] \in Seq(Marks) /\ (NeverCloses(f[n]) \/ Balanced(t, n, f[n]))
           Bad == {n \in Nat : n <= m /\ ~ Good(n)}
<1>1. Good(0)
  <2>1. f[0] = <<>>
    BY ScopeAt DEF ScopesAt
  <2>2. <<>> \in Seq(Marks)
    OBVIOUS
  <2>3. \E k \in Nat : 0 + 0 = 2 * k
    <3>1. 0 + 0 = 2 * 0
      OBVIOUS
    <3> QED BY <3>1
  <2>4. Balanced(t, 0, <<>>)
    BY <2>3, AwaitedNone, TimesNone DEF Balanced
  <2> QED BY <2>1, <2>2, <2>4
<1>2. ASSUME NEW n \in Nat, n + 1 <= m, Good(n) PROVE Good(n + 1)
  <2>1. n + 1 \in 0..m /\ n + 1 # 0 /\ (n + 1) - 1 = n /\ n + 1 \in 1..m
    BY <1>2
  <2>2. f[n + 1] = PushQuote(f[n], t[n + 1])
    BY <2>1, ScopeAt DEF ScopesAt
  <2>3. t[n + 1] \in QuoteChars
    BY <2>1
  <2>4. CASE NeverCloses(f[n])
    BY <1>2, <2>2, <2>3, <2>4, StuckStays
  <2>5. CASE Balanced(t, n, f[n])
    BY <1>2, <2>2, <2>3, <2>5, CharKeeps
  <2> QED BY <1>2, <2>4, <2>5
<1> HIDE DEF Good
<1>3. Bad = {}
  <2> SUFFICES ASSUME Bad # {} PROVE FALSE
    OBVIOUS
  <2>1. PICK l \in Bad : \A n \in Bad : l <= n
    BY LeastNumber
  <2>2. l # 0 /\ l - 1 \in Nat /\ (l - 1) + 1 = l /\ (l - 1) + 1 <= m /\ ~ (l <= l - 1) /\ l - 1 <= m
    BY <1>1, <2>1
  <2>3. Good(l - 1)
    BY <2>1, <2>2
  <2> QED BY <1>2, <2>1, <2>2, <2>3
<1>4. Good(m)
  BY <1>3
<1> QED BY <1>4 DEF Good

\* Outside of quotations every mark is paired.
LEMMA OutsideIsPaired ==
    ASSUME NEW t, NEW m \in Nat, \A i \in 1..m : t[i] \in QuoteChars, Outside(t, m)
    PROVE  /\ Times(t, "guillemet", m) = Times(t, "guillemetEnd", m)
           /\ Times(t, "high", m) = Times(t, "highEnd", m)
           /\ Times(t, "straight", m) % 2 = 0 /\ Times(t, "low", m) = 0
<1> DEFINE f == CHOOSE g : Scopes(g, t, m)
<1>1. Scopes(f, t, m)
  BY ScopesExist
<1>2. f[m] = <<>>
  BY OutsideIs
<1> HIDE DEF f
<1>3. ~ NeverCloses(f[m])
  BY <1>2 DEF NeverCloses
<1>4. Balanced(t, m, <<>>)
  BY <1>1, <1>2, <1>3, OpenAreBalanced
<1>5. PICK k \in Nat : Times(t, "straight", m) + Awaited(<<>>, "straight") = 2 * k
  BY <1>4 DEF Balanced
<1>6. /\ Times(t, "straight", m) \in Nat /\ Times(t, "guillemetEnd", m) \in Nat /\ Times(t, "highEnd", m) \in Nat
      /\ Awaited(<<>>, "straight") = 0 /\ Awaited(<<>>, "guillemetEnd") = 0 /\ Awaited(<<>>, "highEnd") = 0
  BY TimesType, AwaitedNone
<1>7. Times(t, "straight", m) = 2 * k
  BY <1>5, <1>6
<1>8. (2 * k) % 2 = 0
  OBVIOUS
<1> QED BY <1>4, <1>6, <1>7, <1>8 DEF Balanced

-----------------------------------------------------------------------------
(* The pronoun: what the completion leaves of an utterance.                *)

Claimed(u) ==
    [links |-> IF u.link = "none" THEN <<>> ELSE <<ModelLink(u)>>,
     claimLinks |-> IF u.link = "none" THEN {} ELSE {"model"}, segs |-> u.claim.cites]

Cleaned(u) == CleanLinks(Claimed(u))

Augmented(u) == AugmentCoreference(u, Claimed(u))

Completed(u) == CompleteRelationship(u, Augmented(u))

CorefIInv ==
    \/ utterance = NoUtterance /\ grounding = NoGrounding /\ passes = 0
    \/ /\ utterance.kind = "quotes" /\ utterance.text \in [1..MaxQuoteChars -> QuoteChars]
       /\ grounding = NoGrounding /\ passes = 0
    \/ /\ utterance \in Utterance /\ passes \in 0..2
       /\ grounding = IF passes = 0 THEN Claimed(utterance) ELSE Completed(utterance)

LEMMA UtteranceIs ==
    ASSUME NEW u \in Utterance
    PROVE  /\ u.kind = "pronoun" /\ u.link \in {"none", "model", "labelled"} /\ u.speaker \in {"none", "a"}
           /\ u.claim.from \in {"a", "b"} /\ u.claim.cites \subseteq {1, 2}
<1>1. u.kind = "pronoun" /\ u.link \in {"none", "model", "labelled"} /\ u.speaker \in {"none", "a"}
      /\ u.claim \in AnyClaim \cup OneClaim
  BY DEF Utterance
<1>2. ASSUME NEW c \in AnyClaim \cup OneClaim PROVE c.from \in {"a", "b"} /\ c.cites \subseteq {1, 2}
  <2>1. ASSUME NEW f, NEW k, NEW d, NEW x
        PROVE  ClaimOf(f, k, d, x).from = f /\ ClaimOf(f, k, d, x).cites = x
    BY DEF ClaimOf
  <2>2. CASE c \in ParentClaim
    <3>1. PICK f \in {"a", "b"}, d \in {"right", "reversed"} : c = ClaimOf(f, "parent", d, {2})
      BY <2>2 DEF ParentClaim
    <3> QED BY <2>1, <3>1
  <2>3. CASE c \in OddClaim
    BY <2>1, <2>3 DEF OddClaim
  <2>4. CASE c \in OneClaim
    BY <2>1, <2>4 DEF OneClaim
  <2> QED BY <2>2, <2>3, <2>4 DEF AnyClaim
<1> QED BY <1>1, <1>2

\* What is known of the two links, as one fact of the utterance.
LinkFacts(u) ==
    /\ BuildLink(u).id = "pronoun" /\ BuildLink(u).method = "discourse" /\ BuildLink(u).status = StatusFor(u)
    /\ BuildLink(u).antecedents = IF StatusFor(u) = "resolved" THEN CandidateIds(u) ELSE {}
    /\ BuildLink(u).segs \subseteq {1, 2}
    /\ ModelLink(u).id = "model" /\ ModelLink(u).status = "resolved"
    /\ ModelLink(u).method = IF u.link = "labelled" THEN "discourse" ELSE "model"

LEMMA LinkIds == ASSUME NEW u PROVE LinkFacts(u)
  BY DEF LinkFacts, BuildLink, ModelLink, SegmentOf

\* A resolved link is trusted only where the rules resolved it.
LEMMA TrustedIs ==
    ASSUME NEW links, NEW x
    PROVE  x \in TrustedLinks(links) <=>
              \E i \in DOMAIN links : /\ links[i].id = x
                                      /\ links[i].status # "resolved" \/ links[i].method \in {"discourse", "human"}
  BY DEF TrustedLinks

LEMMA CleanedIs ==
    ASSUME NEW u \in Utterance
    PROVE  Cleaned(u) = [links |-> Claimed(u).links,
                         claimLinks |-> IF u.link = "labelled" THEN {"model"} ELSE {}, segs |-> u.claim.cites]
<1> DEFINE g == Claimed(u)
<1>1. Cleaned(u) = [links |-> g.links, claimLinks |-> g.claimLinks \cap TrustedLinks(g.links), segs |-> g.segs]
  <2>1. g = [links |-> g.links, claimLinks |-> g.claimLinks, segs |-> g.segs]
    BY DEF Claimed
  <2> HIDE DEF g
  <2>2. CleanLinks(g) = [g EXCEPT !.claimLinks = g.claimLinks \cap TrustedLinks(g.links)]
    BY DEF CleanLinks
  <2>3. ASSUME NEW l, NEW m, NEW x, NEW y, g = [links |-> l, claimLinks |-> m, segs |-> x]
        PROVE  [g EXCEPT !.claimLinks = y] = [links |-> l, claimLinks |-> y, segs |-> x]
    BY <2>3
  <2>4. CleanLinks(g) = [links |-> g.links, claimLinks |-> g.claimLinks \cap TrustedLinks(g.links), segs |-> g.segs]
    BY <2>1, <2>2, <2>3
  <2> QED BY <2>4 DEF Cleaned, g
<1>2. CASE u.link = "none"
  BY <1>1, <1>2 DEF Claimed
<1>3. CASE u.link # "none"
  <2>1. g.links = <<ModelLink(u)>> /\ g.claimLinks = {"model"} /\ g.segs = u.claim.cites
    BY <1>3 DEF Claimed
  <2>2. DOMAIN g.links = {1} /\ g.links[1] = ModelLink(u)
    BY <2>1
  <2>3. "model" \in TrustedLinks(g.links) <=> u.link = "labelled"
    <3>1. "model" \in TrustedLinks(g.links) <=>
             \E i \in DOMAIN g.links : /\ g.links[i].id = "model"
                                       /\ g.links[i].status # "resolved" \/ g.links[i].method \in {"discourse", "human"}
      BY TrustedIs
    <3>2. LinkFacts(u)
      BY LinkIds
    <3> HIDE DEF g
    <3> QED BY <2>2, <3>1, <3>2 DEF LinkFacts
  <2>4. g.claimLinks \cap TrustedLinks(g.links) = IF u.link = "labelled" THEN {"model"} ELSE {}
    <3> HIDE DEF g
    <3> QED BY <2>1, <2>3
  <2> QED BY <1>1, <2>1, <2>4
<1> QED BY <1>2, <1>3

\* The links with the rules' own added.
LinkedAfter(u) == Append(Claimed(u).links, BuildLink(u))

\* Which links there are before and after, as one fact of the utterance.
LinksAre(u) ==
    /\ \A i \in DOMAIN Claimed(u).links : Claimed(u).links[i] = ModelLink(u) /\ u.link # "none"
    /\ u.link # "none" => \E i \in DOMAIN Claimed(u).links : Claimed(u).links[i] = ModelLink(u)
    /\ Len(Claimed(u).links) <= 1
    /\ \A i \in DOMAIN LinkedAfter(u) : LinkedAfter(u)[i] \in {BuildLink(u), ModelLink(u)}
    /\ \E i \in DOMAIN LinkedAfter(u) : LinkedAfter(u)[i] = BuildLink(u)
    /\ u.link # "none" => \E i \in DOMAIN LinkedAfter(u) : LinkedAfter(u)[i] = ModelLink(u)
    /\ Len(LinkedAfter(u)) <= 2

LEMMA LinkedAre == ASSUME NEW u PROVE LinksAre(u)
<1> DEFINE b == BuildLink(u)
           m == ModelLink(u)
<1> HIDE DEF b, m
<1>1. CASE u.link = "none"
  <2>1. Claimed(u).links = <<>>
    BY <1>1 DEF Claimed
  <2>2. LinkedAfter(u) = <<b>>
    BY <2>1 DEF LinkedAfter, b
  <2>3. /\ DOMAIN Claimed(u).links = {} /\ Len(Claimed(u).links) = 0
        /\ DOMAIN LinkedAfter(u) = {1} /\ LinkedAfter(u)[1] = b /\ Len(LinkedAfter(u)) = 1
    BY <2>1, <2>2
  <2> QED BY <1>1, <2>3 DEF b, m, LinksAre
<1>2. CASE u.link # "none"
  <2>0. Claimed(u).links = <<m>>
    BY <1>2 DEF Claimed, m
  <2>1. LinkedAfter(u) = Append(<<m>>, b)
    BY <2>0 DEF LinkedAfter, b
  <2>a. <<m>> \in Seq({m, b}) /\ Len(<<m>>) = 1 /\ <<m>>[1] = m
    OBVIOUS
  <2>c. ASSUME NEW q \in Seq({m, b}), Len(q) = 1
        PROVE  /\ DOMAIN Append(q, b) = 1..2 /\ Append(q, b)[1] = q[1] /\ Append(q, b)[2] = b
               /\ Len(Append(q, b)) = 2 /\ DOMAIN q = 1..1
    <3>1. Len(Append(q, b)) = Len(q) + 1 /\ DOMAIN q = 1..Len(q) /\ Append(q, b) \in Seq({m, b})
      OBVIOUS
    <3>2. DOMAIN Append(q, b) = 1..Len(Append(q, b))
      BY <3>1
    <3>3. Append(q, b)[Len(q) + 1] = b /\ \A i \in 1..Len(q) : Append(q, b)[i] = q[i]
      OBVIOUS
    <3> QED BY <2>c, <3>1, <3>2, <3>3
  <2>d. 1..2 = {1, 2} /\ 1..1 = {1}
    OBVIOUS
  <2>2. /\ DOMAIN Claimed(u).links = {1} /\ Claimed(u).links[1] = m /\ Len(Claimed(u).links) = 1
        /\ DOMAIN LinkedAfter(u) = {1, 2} /\ LinkedAfter(u)[1] = m /\ LinkedAfter(u)[2] = b /\ Len(LinkedAfter(u)) = 2
    BY <2>0, <2>1, <2>a, <2>c, <2>d
  <2> QED BY <1>2, <2>2 DEF b, m, LinksAre
<1> QED BY <1>1, <1>2

\* What augmenting does: nothing, or the link, and the link with its segments for the claim that
\* it fits.
LEMMA AugmentedIs ==
    ASSUME NEW u \in Utterance
    PROVE  \/ /\ Augmented(u) = Cleaned(u)
              /\ ~ HasContext(u) \/ (StatusFor(u) # "resolved" /\ ~ Matches(u, Cleaned(u)))
           \/ /\ HasContext(u) /\ Matches(u, Cleaned(u))
              /\ Augmented(u) = [links |-> LinkedAfter(u), claimLinks |-> Cleaned(u).claimLinks \cup {"pronoun"},
                                 segs |-> Cleaned(u).segs \cup BuildLink(u).segs]
           \/ /\ HasContext(u) /\ StatusFor(u) = "resolved" /\ ~ Matches(u, Cleaned(u))
              /\ Augmented(u) = [links |-> LinkedAfter(u), claimLinks |-> Cleaned(u).claimLinks, segs |-> Cleaned(u).segs]
<1> DEFINE g == Cleaned(u)
           linked == [g EXCEPT !.links = Append(@, BuildLink(u))]
<1>1. g = [links |-> Claimed(u).links, claimLinks |-> g.claimLinks, segs |-> g.segs]
  BY CleanedIs
<1>2. linked = [links |-> LinkedAfter(u), claimLinks |-> g.claimLinks, segs |-> g.segs]
  <2> HIDE DEF g
  <2> QED BY <1>1 DEF LinkedAfter
<1>3. UpdateRelationship(linked, BuildLink(u))
         = [links |-> LinkedAfter(u), claimLinks |-> g.claimLinks \cup {"pronoun"}, segs |-> g.segs \cup BuildLink(u).segs]
  <2> HIDE DEF g, linked
  <2>1. BuildLink(u).id = "pronoun"
    BY LinkIds DEF LinkFacts
  <2>2. linked.links = LinkedAfter(u) /\ linked.claimLinks = g.claimLinks /\ linked.segs = g.segs
    BY <1>2
  <2> QED BY <2>1, <2>2 DEF UpdateRelationship
<1>4. ~ AlreadyLinked(g, BuildLink(u))
  <2>1. \A i \in DOMAIN Claimed(u).links : Claimed(u).links[i].id # "pronoun"
    <3>1. LinksAre(u) /\ LinkFacts(u)
      BY LinkedAre, LinkIds
    <3> QED BY <3>1 DEF LinksAre, LinkFacts
  <2>2. g.links = Claimed(u).links /\ BuildLink(u).id = "pronoun"
    BY <1>1, LinkIds DEF LinkFacts
  <2> HIDE DEF g
  <2> QED BY <2>1, <2>2 DEF AlreadyLinked
<1>5. Augmented(u) = IF ~HasContext(u) \/ (StatusFor(u) # "resolved" /\ ~Matches(u, g)) \/ AlreadyLinked(g, BuildLink(u))
                     THEN g ELSE IF Matches(u, g) THEN UpdateRelationship(linked, BuildLink(u)) ELSE linked
  BY DEF Augmented, AugmentCoreference, Cleaned
<1> HIDE DEF g, linked
<1>6. CASE ~HasContext(u) \/ (StatusFor(u) # "resolved" /\ ~Matches(u, g))
  BY <1>5, <1>6 DEF g
<1>7. CASE HasContext(u) /\ Matches(u, g)
  BY <1>3, <1>4, <1>5, <1>7 DEF g
<1>8. CASE HasContext(u) /\ StatusFor(u) = "resolved" /\ ~Matches(u, g)
  BY <1>2, <1>4, <1>5, <1>8 DEF g
<1> QED BY <1>6, <1>7, <1>8

\* The speaker's own segment is added to what the claim cites.
Adds(u, segs) ==
    /\ u.claim.from = u.speaker /\ ~NamedIn(u, u.claim.from, segs)
    /\ ~SpeakerStands(u, u.claim.from, segs)

LEMMA CompletingIs ==
    ASSUME NEW u, NEW links, NEW mine, NEW segs
    PROVE  CompleteRelationship(u, [links |-> links, claimLinks |-> mine, segs |-> segs])
              = [links |-> links, claimLinks |-> mine, segs |-> segs \cup (IF Adds(u, segs) THEN {1} ELSE {})]
<1> DEFINE g == [links |-> links, claimLinks |-> mine, segs |-> segs]
<1>1. g.segs = segs
  OBVIOUS
<1>2. CompleteRelationship(u, g) = [g EXCEPT !.segs = g.segs \cup (IF Adds(u, g.segs) THEN {1} ELSE {})]
  <2> HIDE DEF g
  <2> QED BY Zenon DEF CompleteRelationship, Adds
<1>3. ASSUME NEW x PROVE [g EXCEPT !.segs = x] = [links |-> links, claimLinks |-> mine, segs |-> x]
  OBVIOUS
<1>4. CompleteRelationship(u, g) = [links |-> links, claimLinks |-> mine,
                                    segs |-> g.segs \cup (IF Adds(u, g.segs) THEN {1} ELSE {})]
  BY <1>2, <1>3
<1> HIDE DEF g
<1>5. CompleteRelationship(u, g) = [links |-> links, claimLinks |-> mine,
                                    segs |-> segs \cup (IF Adds(u, segs) THEN {1} ELSE {})]
  BY <1>1, <1>4
<1> QED BY <1>5 DEF g

\* The completion is a record with these fields, of which all that follows is derived.
CompletedAs(u, links, mine, segs) ==
    /\ Completed(u) = [links |-> links, claimLinks |-> mine, segs |-> segs \cup (IF Adds(u, segs) THEN {1} ELSE {})]
    /\ \/ /\ links = Claimed(u).links /\ mine = Cleaned(u).claimLinks /\ segs = Cleaned(u).segs
          /\ ~ HasContext(u) \/ (StatusFor(u) # "resolved" /\ ~ Matches(u, Cleaned(u)))
       \/ /\ HasContext(u) /\ Matches(u, Cleaned(u)) /\ links = LinkedAfter(u)
          /\ mine = Cleaned(u).claimLinks \cup {"pronoun"} /\ segs = Cleaned(u).segs \cup BuildLink(u).segs
       \/ /\ HasContext(u) /\ StatusFor(u) = "resolved" /\ ~ Matches(u, Cleaned(u)) /\ links = LinkedAfter(u)
          /\ mine = Cleaned(u).claimLinks /\ segs = Cleaned(u).segs

LEMMA CompletedIs ==
    ASSUME NEW u \in Utterance
    PROVE  \E links, mine, segs : CompletedAs(u, links, mine, segs)
<1>1. Cleaned(u) = [links |-> Claimed(u).links, claimLinks |-> Cleaned(u).claimLinks, segs |-> Cleaned(u).segs]
  BY CleanedIs
<1>2. CASE /\ Augmented(u) = Cleaned(u)
           /\ ~ HasContext(u) \/ (StatusFor(u) # "resolved" /\ ~ Matches(u, Cleaned(u)))
  <2>1. CompletedAs(u, Claimed(u).links, Cleaned(u).claimLinks, Cleaned(u).segs)
    <3>1. CompleteRelationship(u, [links |-> Claimed(u).links, claimLinks |-> Cleaned(u).claimLinks, segs |-> Cleaned(u).segs])
             = [links |-> Claimed(u).links, claimLinks |-> Cleaned(u).claimLinks,
                segs |-> Cleaned(u).segs \cup (IF Adds(u, Cleaned(u).segs) THEN {1} ELSE {})]
      BY CompletingIs
    <3>2. Completed(u) = CompleteRelationship(u, Cleaned(u))
      BY <1>2 DEF Completed
    <3> QED BY <1>1, <1>2, <3>1, <3>2 DEF CompletedAs
  <2> QED BY <2>1
<1>3. CASE /\ HasContext(u) /\ Matches(u, Cleaned(u))
           /\ Augmented(u) = [links |-> LinkedAfter(u), claimLinks |-> Cleaned(u).claimLinks \cup {"pronoun"},
                              segs |-> Cleaned(u).segs \cup BuildLink(u).segs]
  <2>1. CompletedAs(u, LinkedAfter(u), Cleaned(u).claimLinks \cup {"pronoun"}, Cleaned(u).segs \cup BuildLink(u).segs)
    BY <1>3, CompletingIs DEF CompletedAs, Completed
  <2> QED BY <2>1
<1>4. CASE /\ HasContext(u) /\ StatusFor(u) = "resolved" /\ ~ Matches(u, Cleaned(u))
           /\ Augmented(u) = [links |-> LinkedAfter(u), claimLinks |-> Cleaned(u).claimLinks, segs |-> Cleaned(u).segs]
  <2>1. CompletedAs(u, LinkedAfter(u), Cleaned(u).claimLinks, Cleaned(u).segs)
    BY <1>4, CompletingIs DEF CompletedAs, Completed
  <2> QED BY <2>1
<1> QED BY <1>2, <1>3, <1>4, AugmentedIs

LEMMA CleanedFields ==
    ASSUME NEW u \in Utterance
    PROVE  /\ Cleaned(u).claimLinks = IF u.link = "labelled" THEN {"model"} ELSE {}
           /\ Cleaned(u).segs = u.claim.cites
<1>1. Cleaned(u) = [links |-> Claimed(u).links,
                    claimLinks |-> IF u.link = "labelled" THEN {"model"} ELSE {}, segs |-> u.claim.cites]
  BY CleanedIs
<1> QED BY <1>1

\* A fit does not depend on the first segment.
LEMMA MatchesBySecond ==
    ASSUME NEW u, NEW g, NEW h, 2 \in g.segs <=> 2 \in h.segs
    PROVE  Matches(u, g) <=> Matches(u, h)
  BY DEF Matches

\* The links of the claim are trusted.
LEMMA CompletedIsTrusted ==
    ASSUME NEW u \in Utterance, NEW links, NEW mine, NEW segs, CompletedAs(u, links, mine, segs)
    PROVE  mine \subseteq TrustedLinks(links)
<1>0. LinksAre(u) /\ LinkFacts(u)
  BY LinkedAre, LinkIds
<1>t. ASSUME NEW all, NEW i \in DOMAIN all, all[i].method = "discourse" PROVE all[i].id \in TrustedLinks(all)
  BY <1>t, TrustedIs
<1>1. ASSUME u.link = "labelled" PROVE "model" \in TrustedLinks(Claimed(u).links) /\ "model" \in TrustedLinks(LinkedAfter(u))
  <2>1. PICK i \in DOMAIN Claimed(u).links : Claimed(u).links[i] = ModelLink(u)
    BY <1>0, <1>1 DEF LinksAre
  <2>2. PICK j \in DOMAIN LinkedAfter(u) : LinkedAfter(u)[j] = ModelLink(u)
    BY <1>0, <1>1 DEF LinksAre
  <2>3. ModelLink(u).id = "model" /\ ModelLink(u).method = "discourse"
    BY <1>0, <1>1 DEF LinkFacts
  <2> QED BY <1>t, <2>1, <2>2, <2>3
<1>2. "pronoun" \in TrustedLinks(LinkedAfter(u))
  <2>1. PICK j \in DOMAIN LinkedAfter(u) : LinkedAfter(u)[j] = BuildLink(u)
    BY <1>0 DEF LinksAre
  <2> QED BY <1>0, <1>t, <2>1 DEF LinkFacts
<1> QED BY <1>1, <1>2, CleanedFields DEF CompletedAs

\* Completing again changes nothing.
LEMMA CompletedStays ==
    ASSUME NEW u \in Utterance
    PROVE  CompleteRelationship(u, AugmentCoreference(u, Completed(u))) = Completed(u)
<1>1. PICK links, mine, segs : CompletedAs(u, links, mine, segs)
  BY CompletedIs
<1> DEFINE g == Completed(u)
           more == IF Adds(u, segs) THEN {1} ELSE {}
<1>2. g = [links |-> links, claimLinks |-> mine, segs |-> segs \cup more]
  BY <1>1 DEF CompletedAs
<1>3. CleanLinks(g) = g
  <2>1. mine \cap TrustedLinks(links) = mine
    BY <1>1, CompletedIsTrusted
  <2> HIDE DEF g, more
  <2> QED BY <1>2, <2>1 DEF CleanLinks
<1>4. AugmentCoreference(u, g) = g
  <2>1. ~HasContext(u) \/ (StatusFor(u) # "resolved" /\ ~Matches(u, g)) \/ AlreadyLinked(g, BuildLink(u))
    <3>1. CASE ~HasContext(u)
      BY <3>1
    <3>2. CASE StatusFor(u) # "resolved" /\ ~ Matches(u, Cleaned(u)) /\ segs = Cleaned(u).segs
      <4>1. 2 \in g.segs <=> 2 \in Cleaned(u).segs
        BY <1>2, <3>2
      <4> QED BY <3>2, <4>1, MatchesBySecond
    <3>3. CASE links = LinkedAfter(u)
      <4>1. \E i \in DOMAIN g.links : g.links[i].id = BuildLink(u).id
        <5>1. LinksAre(u) /\ g.links = LinkedAfter(u)
          BY <1>2, <3>3, LinkedAre
        <5> HIDE DEF g
        <5> QED BY <5>1 DEF LinksAre
      <4> QED BY <4>1 DEF AlreadyLinked
    <3> QED BY <1>1, <3>1, <3>2, <3>3 DEF CompletedAs
  <2> HIDE DEF g, more
  <2> QED BY <1>3, <2>1 DEF AugmentCoreference
<1>5. CompleteRelationship(u, g) = [links |-> links, claimLinks |-> mine,
                                    segs |-> (segs \cup more) \cup (IF Adds(u, segs \cup more) THEN {1} ELSE {})]
  <2> HIDE DEF more
  <2> QED BY <1>2, CompletingIs
<1>6. (segs \cup more) \cup (IF Adds(u, segs \cup more) THEN {1} ELSE {}) = segs \cup more
  <2>1. CASE Adds(u, segs)
    BY <2>1
  <2>2. CASE ~ Adds(u, segs)
    <3>1. segs \cup more = segs
      BY <2>2
    <3> QED BY <2>2, <3>1
  <2> QED BY <2>1, <2>2
<1> HIDE DEF more
<1> QED BY <1>2, <1>4, <1>5, <1>6 DEF g

LEMMA CorefStart == CorefInit => CorefIInv
  BY DEF CorefInit, CorefIInv

LEMMA CorefStep == CorefIInv /\ [CorefNext]_corefVars => CorefIInv'
<1> SUFFICES ASSUME CorefIInv, [CorefNext]_corefVars PROVE CorefIInv'
  OBVIOUS
<1>1. CASE UNCHANGED corefVars
  <2>1. utterance' = utterance /\ grounding' = grounding /\ passes' = passes
    BY <1>1 DEF corefVars
  <2> QED BY <2>1, Zenon DEF CorefIInv
<1>2. ASSUME utterance = NoUtterance, NEW u \in Utterance, Utter(u) PROVE CorefIInv'
  <2>1. grounding = NoGrounding /\ passes = 0
    <3>1. utterance.kind = "none"
      BY <1>2 DEF NoUtterance
    <3> QED BY <3>1, UtteranceIs DEF CorefIInv
  <2>2. utterance' = u /\ grounding' = Claimed(u) /\ passes' = 0
    BY <1>2, <2>1 DEF Utter, Claimed
  <2> QED BY <2>2 DEF CorefIInv
<1>3. ASSUME utterance = NoUtterance, NEW text \in [1..MaxQuoteChars -> QuoteChars], Quote(text) PROVE CorefIInv'
  <2>1. grounding = NoGrounding /\ passes = 0
    <3>1. utterance.kind = "none"
      BY <1>3 DEF NoUtterance
    <3> QED BY <3>1, UtteranceIs DEF CorefIInv
  <2>2. utterance' = [kind |-> "quotes", text |-> text] /\ grounding' = NoGrounding /\ passes' = 0
    BY <1>3, <2>1 DEF Quote
  <2>3. utterance'.kind = "quotes" /\ utterance'.text = text
    BY <2>2
  <2> QED BY <2>2, <2>3 DEF CorefIInv
<1>4. CASE CompleteEvidence
  <2>1. utterance.kind = "pronoun" /\ passes < 2 /\ passes' = passes + 1 /\ utterance' = utterance
        /\ grounding' = CompleteRelationship(utterance, AugmentCoreference(utterance, grounding))
    BY <1>4 DEF CompleteEvidence
  <2>2. utterance \in Utterance /\ passes \in 0..2
        /\ grounding = IF passes = 0 THEN Claimed(utterance) ELSE Completed(utterance)
    <3>1. utterance # NoUtterance /\ utterance.kind # "quotes"
      BY <2>1 DEF NoUtterance
    <3> QED BY <3>1 DEF CorefIInv
  <2>3. passes' \in 0..2 /\ passes' # 0
    BY <2>1, <2>2
  <2>4. grounding' = Completed(utterance)
    <3>1. CASE passes = 0
      BY <2>1, <2>2, <3>1 DEF Completed, Augmented
    <3>2. CASE passes # 0
      BY <2>1, <2>2, <3>2, CompletedStays
    <3> QED BY <3>1, <3>2
  <2> QED BY <2>1, <2>2, <2>3, <2>4 DEF CorefIInv
<1> QED BY <1>1, <1>2, <1>3, <1>4 DEF CorefNext

-----------------------------------------------------------------------------
(* What holds of every completion.                                         *)

LEMMA ClaimedType ==
    ASSUME NEW u \in Utterance
    PROVE  /\ Claimed(u).segs \subseteq {1, 2} /\ Claimed(u).claimLinks \subseteq {"pronoun", "model"}
           /\ "pronoun" \notin Claimed(u).claimLinks /\ Len(Claimed(u).links) <= 2
<1>1. Claimed(u).segs = u.claim.cites /\ Claimed(u).claimLinks \subseteq {"model"}
  BY DEF Claimed
<1>2. Len(Claimed(u).links) <= 2
  <2>1. CASE u.link = "none"
    BY <2>1 DEF Claimed
  <2>2. CASE u.link # "none"
    BY <2>2 DEF Claimed
  <2> QED BY <2>1, <2>2
<1> QED BY <1>1, <1>2, UtteranceIs

LEMMA CompletedType ==
    ASSUME NEW u \in Utterance
    PROVE  /\ Completed(u).segs \subseteq {1, 2} /\ Completed(u).claimLinks \subseteq {"pronoun", "model"}
           /\ Len(Completed(u).links) <= 2
<1>1. PICK links, mine, segs : CompletedAs(u, links, mine, segs)
  BY CompletedIs
<1>2. segs \subseteq {1, 2}
  <2>1. Cleaned(u).segs \subseteq {1, 2} /\ BuildLink(u).segs \subseteq {1, 2}
    BY CleanedFields, UtteranceIs, LinkIds DEF LinkFacts
  <2> QED BY <1>1, <2>1 DEF CompletedAs
<1>3. mine \subseteq {"pronoun", "model"}
  BY <1>1, CleanedFields DEF CompletedAs
<1>4. Len(links) <= 2
  <2>1. Len(Claimed(u).links) <= 2 /\ Len(LinkedAfter(u)) <= 2
    BY ClaimedType, LinkedAre DEF LinksAre
  <2> QED BY <1>1, <2>1 DEF CompletedAs
<1>5. /\ Completed(u).links = links /\ Completed(u).claimLinks = mine
      /\ Completed(u).segs = segs \cup (IF Adds(u, segs) THEN {1} ELSE {})
  BY <1>1 DEF CompletedAs
<1> QED BY <1>2, <1>3, <1>4, <1>5

\* A link of the rules supports a claim only if it fits it.
LEMMA PronounFits ==
    ASSUME NEW u \in Utterance, "pronoun" \in Completed(u).claimLinks
    PROVE  /\ HasContext(u) /\ Matches(u, Cleaned(u)) /\ BuildLink(u).segs \subseteq Completed(u).segs
           /\ Completed(u).links = LinkedAfter(u)
<1>1. PICK links, mine, segs : CompletedAs(u, links, mine, segs)
  BY CompletedIs
<1>2. /\ Completed(u).links = links /\ Completed(u).claimLinks = mine
      /\ Completed(u).segs = segs \cup (IF Adds(u, segs) THEN {1} ELSE {})
  BY <1>1 DEF CompletedAs
<1>3. "pronoun" \notin Cleaned(u).claimLinks
  BY CleanedFields
<1> QED BY <1>1, <1>2, <1>3 DEF CompletedAs

LEMMA ResolvedIsPronoun ==
    ASSUME NEW u \in Utterance, u.link # "labelled", NEW p \in ResolvedAntecedents(Completed(u))
    PROVE  HasContext(u) /\ StatusFor(u) = "resolved" /\ p \in CandidateIds(u)
<1>1. PICK i \in DOMAIN Completed(u).links :
         /\ Completed(u).links[i].id \in Completed(u).claimLinks /\ Completed(u).links[i].status = "resolved"
         /\ p \in Completed(u).links[i].antecedents
  BY DEF ResolvedAntecedents
<1>2. PICK links, mine, segs : CompletedAs(u, links, mine, segs)
  BY CompletedIs
<1>3. Completed(u).links = links /\ Completed(u).claimLinks = mine
  BY <1>2 DEF CompletedAs
<1>4. Completed(u).claimLinks \subseteq {"pronoun"}
  BY <1>2, <1>3, CleanedFields DEF CompletedAs
<1>5. "pronoun" \in Completed(u).claimLinks
  BY <1>1, <1>4
<1>6. Completed(u).links = LinkedAfter(u) /\ HasContext(u)
  BY <1>5, PronounFits
<1>7. Completed(u).links[i] = BuildLink(u)
  <2>1. LinksAre(u) /\ LinkFacts(u)
    BY LinkedAre, LinkIds
  <2>2. Completed(u).links[i] \in {BuildLink(u), ModelLink(u)}
    BY <1>6, <2>1 DEF LinksAre
  <2>3. Completed(u).links[i].id = "pronoun" /\ ModelLink(u).id = "model"
    BY <1>1, <1>4, <2>1 DEF LinkFacts
  <2> QED BY <2>2, <2>3
<1>8. /\ BuildLink(u).status = StatusFor(u)
      /\ BuildLink(u).antecedents = IF StatusFor(u) = "resolved" THEN CandidateIds(u) ELSE {}
  BY LinkIds DEF LinkFacts
<1> QED BY <1>1, <1>6, <1>7, <1>8

LEMMA NobodyElse == CorefIInv => NobodyElseWasMeant
<1> SUFFICES ASSUME CorefIInv, utterance.kind = "pronoun", passes > 0, utterance.link # "labelled",
                    NEW p \in ResolvedAntecedents(grounding)
             PROVE  LET near == Named(utterance, "before") \ TargetIds(utterance)
                        far == Named(utterance, "previous") \ TargetIds(utterance)
                        meant == IF near # {} THEN near ELSE far
                    IN  /\ p \in meant
                        /\ Cardinality(meant) = IF utterance.pronoun = "pair" THEN 2 ELSE 1
  BY DEF NobodyElseWasMeant
<1> DEFINE u == utterance
           near == Named(u, "before") \ TargetIds(u)
           far == Named(u, "previous") \ TargetIds(u)
           meant == IF near # {} THEN near ELSE far
<1>1. u \in Utterance /\ grounding = Completed(u)
  <2>1. utterance # NoUtterance /\ utterance.kind # "quotes" /\ passes # 0
    BY DEF NoUtterance
  <2> QED BY <2>1 DEF CorefIInv
<1>2. HasContext(u) /\ StatusFor(u) = "resolved" /\ p \in CandidateIds(u)
  BY <1>1, ResolvedIsPronoun
<1>3. CandidateIds(u) = meant
  BY <1>2 DEF CandidateIds
<1>4. Cardinality(CandidateIds(u)) = IF u.pronoun = "pair" THEN 2 ELSE 1
  BY <1>2 DEF StatusFor, ResolvedContext, HasContext
<1> QED BY <1>2, <1>3, <1>4

LEMMA SpeakerStandsThere ==
    ASSUME NEW u \in Utterance, u.speaker = u.claim.from
    PROVE  Completed(u).segs \cap PersonSegments(u, u.claim.from) # {}
<1>1. PICK links, mine, segs : CompletedAs(u, links, mine, segs)
  BY CompletedIs
<1>2. Completed(u).segs = segs \cup (IF Adds(u, segs) THEN {1} ELSE {})
  BY <1>1 DEF CompletedAs
<1>3. u.claim.from = "a" /\ 1 \in PersonSegments(u, u.claim.from)
  BY UtteranceIs DEF PersonSegments
<1>4. CASE Adds(u, segs)
  BY <1>2, <1>3, <1>4
<1>5. CASE NamedIn(u, u.claim.from, segs)
  <2>1. PICK s \in Spots : u.names[u.claim.from][s] # "no" /\ SegmentOf(u, s) \in segs
    BY <1>5 DEF NamedIn
  <2>2. SegmentOf(u, s) \in PersonSegments(u, u.claim.from)
    BY <2>1 DEF PersonSegments
  <2> QED BY <1>2, <2>1, <2>2
<1>6. CASE SpeakerStands(u, u.claim.from, segs)
  BY <1>2, <1>6 DEF SpeakerStands
<1> QED BY <1>4, <1>5, <1>6 DEF Adds

LEMMA QuotesArePaired == CorefIInv => QuotesFailClosed
<1> SUFFICES ASSUME CorefIInv, utterance.kind = "quotes", NEW n \in 0..Len(utterance.text), Outside(utterance.text, n)
             PROVE  LET text == utterance.text
                        HowMany(char, m) == Cardinality({i \in 1..m : text[i] = char})
                    IN  /\ HowMany("guillemet", n) = HowMany("guillemetEnd", n)
                        /\ HowMany("high", n) = HowMany("highEnd", n)
                        /\ HowMany("straight", n) % 2 = 0 /\ HowMany("low", n) = 0
  BY DEF QuotesFailClosed
<1>1. utterance.text \in [1..MaxQuoteChars -> QuoteChars]
  <2>1. utterance # NoUtterance /\ utterance \notin Utterance
    BY UtteranceIs DEF NoUtterance
  <2> QED BY <2>1 DEF CorefIInv
<1>2. Len(utterance.text) = MaxQuoteChars
  BY <1>1, QuoteAssumption
<1>3. n \in Nat /\ \A i \in 1..n : utterance.text[i] \in QuoteChars
  BY <1>1, <1>2, QuoteAssumption
<1> QED BY <1>3, OutsideIsPaired DEF Times

\* For texts of any length with quotation marks, and every utterance: a pronoun grounds a claim
\* only on whom alone it can mean, in the direction of the words and outside of quotations, and
\* completing the evidence again changes nothing (augment_bounded_coreference,
\* complete_relationship_evidence, quote_scope_at).
THEOREM CorefCorrect == CorefSpec => []CorefInv
<1>1. CorefIInv => CorefInv
  <2> SUFFICES ASSUME CorefIInv PROVE CorefInv
    OBVIOUS
  <2>1. CASE utterance.kind # "pronoun"
    <3>1. grounding = NoGrounding /\ passes = 0
      BY <2>1, UtteranceIs DEF CorefIInv
    <3>2. CorefTypeOK
      BY <3>1 DEF CorefTypeOK, NoGrounding
    <3> QED BY <2>1, <3>2, QuotesArePaired
            DEF CorefInv, NobodyElseWasMeant, ResolvedPronounSupports, DirectionIsOfTheWords,
                SecondPassChangesNothing, SpeakerIsInTheSources
  <2>2. CASE utterance.kind = "pronoun"
    <3>1. utterance \in Utterance /\ passes \in 0..2
          /\ grounding = IF passes = 0 THEN Claimed(utterance) ELSE Completed(utterance)
      <4>1. utterance # NoUtterance /\ utterance.kind # "quotes"
        BY <2>2 DEF NoUtterance
      <4> QED BY <4>1 DEF CorefIInv
    <3>2. CorefTypeOK
      BY <3>1, ClaimedType, CompletedType DEF CorefTypeOK
    <3>3. ResolvedPronounSupports
      <4> SUFFICES ASSUME passes > 0, "pronoun" \in grounding.claimLinks, NEW i \in DOMAIN grounding.links,
                          grounding.links[i].id = "pronoun", grounding.links[i].status = "resolved"
                   PROVE  utterance.claim.from \in ResolvedAntecedents(grounding)
        BY DEF ResolvedPronounSupports
      <4>1. grounding = Completed(utterance)
        BY <3>1
      <4>2. /\ Matches(utterance, Cleaned(utterance)) /\ BuildLink(utterance).segs \subseteq grounding.segs
            /\ grounding.links = LinkedAfter(utterance)
        BY <3>1, <4>1, PronounFits
      <4>3. grounding.links[i] = BuildLink(utterance)
        <5>1. LinksAre(utterance) /\ LinkFacts(utterance)
          BY LinkedAre, LinkIds
        <5>2. grounding.links[i] \in {BuildLink(utterance), ModelLink(utterance)}
          BY <4>2, <5>1 DEF LinksAre
        <5>3. ModelLink(utterance).id = "model"
          BY <5>1 DEF LinkFacts
        <5> QED BY <5>2, <5>3
      <4>4. utterance.claim.from \in BuildLink(utterance).antecedents
        <5>1. /\ BuildLink(utterance).status = StatusFor(utterance)
              /\ BuildLink(utterance).antecedents
                    = IF StatusFor(utterance) = "resolved" THEN CandidateIds(utterance) ELSE {}
          BY LinkIds DEF LinkFacts
        <5> QED BY <4>2, <4>3, <5>1 DEF Matches
      <4> QED BY <4>2, <4>3, <4>4 DEF ResolvedAntecedents
    <3>4. DirectionIsOfTheWords
      <4> SUFFICES ASSUME "pronoun" \in grounding.claimLinks PROVE EdgeMatches(utterance.claim)
        BY DEF DirectionIsOfTheWords, EdgeMatches
      <4>1. passes # 0
        BY <3>1, ClaimedType
      <4> QED BY <3>1, <4>1, PronounFits DEF Matches
    <3>5. SecondPassChangesNothing
      BY <3>1, CompletedStays DEF SecondPassChangesNothing
    <3>6. SpeakerIsInTheSources
      BY <3>1, SpeakerStandsThere DEF SpeakerIsInTheSources
    <3> QED BY <3>2, <3>3, <3>4, <3>5, <3>6, NobodyElse, QuotesArePaired DEF CorefInv
  <2> QED BY <2>1, <2>2
<1> QED BY <1>1, CorefStart, CorefStep, PTL DEF CorefSpec

-----------------------------------------------------------------------------
(* The budget guard (CostGuard): first the lock and the status of          *)
(* reservations, then the money, by the laws of sums.                      *)

USE DEF rowVars, Statements, Goto

\* reserve_budget is serialised: a caller between two of its statements has the
\* advisory lock.
ReserversSerialised ==
    \A c \in Callers : pc[c] \in Statements => lock = c

\* The part of the state that the lock and the statuses depend on.
GuardTypes ==
    /\ status \in [Holds -> ReservationStatus \cup {"none"}]
    /\ pc     \in [Callers -> {"idle", "calling"} \cup Statements]
    /\ held   \in [Callers -> Holds \cup {NoHold}]
    /\ lock   \in Callers \cup {NoCaller}
    /\ swept  \in SUBSET Holds

\* A caller with something to settle knows the row.
CallsCovered == \A c \in Callers : pc[c] = "calling" => held[c] \in Holds

GuardInv == GuardTypes /\ ReserversSerialised /\ CallsCovered

\* Only a sweep takes a reservation out of COMMITTED.
KeepsCommitted ==
    \A h \in Holds : status[h] = "COMMITTED" /\ h \notin swept => status'[h] = "COMMITTED"

\* Each statement and each settlement keeps the lock with its reserver and the
\* committed rows committed.
LEMMA GuardStep == GuardInv /\ [Next]_vars => GuardInv' /\ KeepsCommitted
<1> SUFFICES ASSUME GuardInv, [Next]_vars PROVE GuardInv' /\ KeepsCommitted
  OBVIOUS
<1> USE NameAssumption
    DEF GuardInv, GuardTypes, ReserversSerialised, CallsCovered, KeepsCommitted,
        ReservationStatus
<1>1. ASSUME NEW c \in Callers, NEW cost \in Costs, NEW k \in Keys \cup {NoKey},
             BeginReserve(c, cost, k)
      PROVE  GuardInv' /\ KeepsCommitted
  <2>1. CASE \E h \in OpenUnder(k) : /\ held' = [held EXCEPT ![c] = h]
                                     /\ pc' = [pc EXCEPT ![c] = "calling"]
    BY <1>1, <2>1 DEF BeginReserve, OpenUnder
  <2>2. CASE OpenUnder(k) = {} /\ pc' = [pc EXCEPT ![c] = "sum_committed"] /\ UNCHANGED held
    BY <1>1, <2>2 DEF BeginReserve
  <2> QED BY <1>1, <2>1, <2>2 DEF BeginReserve, Enter
<1>2. ASSUME NEW c \in Callers, SumCommitted(c)
      PROVE  GuardInv' /\ KeepsCommitted
  BY <1>2 DEF SumCommitted
<1>3. ASSUME NEW c \in Callers, SumEvents(c)
      PROVE  GuardInv' /\ KeepsCommitted
  BY <1>3 DEF SumEvents
<1>4. ASSUME NEW c \in Callers, SumActive(c)
      PROVE  GuardInv' /\ KeepsCommitted
  BY <1>4 DEF SumActive
<1>5. ASSUME NEW c \in Callers, NEW h \in Holds, Admit(c, h)
      PROVE  GuardInv' /\ KeepsCommitted
  BY <1>5 DEF Admit, EndTxn
<1>6. ASSUME NEW c \in Callers, Refuse(c)
      PROVE  GuardInv' /\ KeepsCommitted
  BY <1>6 DEF Refuse, EndTxn
<1>7. ASSUME NEW c \in Callers, NEW cost \in Costs \cup {0}, CommitReservation(c, cost)
      PROVE  GuardInv' /\ KeepsCommitted
  BY <1>7 DEF CommitReservation, Settled
<1>8. ASSUME NEW c \in Callers, ReleaseReservation(c)
      PROVE  GuardInv' /\ KeepsCommitted
  BY <1>8 DEF ReleaseReservation, Settled
<1>9. ASSUME NEW c \in Callers, Crash(c)
      PROVE  GuardInv' /\ KeepsCommitted
  BY <1>9 DEF Crash, EndTxn
<1>10. CASE ReadStale
  BY <1>10 DEF ReadStale
<1>11. CASE ExpireStale
  BY <1>11 DEF ExpireStale
<1>12. ASSUME NEW cost \in Costs, RecordUsage(cost)
       PROVE  GuardInv' /\ KeepsCommitted
  BY <1>12 DEF RecordUsage
<1>13. CASE Tick
  BY <1>13 DEF Tick
<1>14. CASE UNCHANGED vars
  BY <1>14 DEF vars
<1> QED
  BY <1>1, <1>2, <1>3, <1>4, <1>5, <1>6, <1>7, <1>8, <1>9, <1>10, <1>11, <1>12, <1>13, <1>14
  DEF Next, CallerStep, ReserveStep

\* No reservation is made yet and the lock is free.
LEMMA GuardInit == Init => GuardInv
BY NameAssumption DEF Init, GuardInv, GuardTypes, ReserversSerialised, CallsCovered,
   ReservationStatus

\* The advisory lock serialises reserve_budget for any number of callers.
THEOREM SerialisedCorrect == Spec => []ReserversSerialised
<1>1. GuardInv => ReserversSerialised
  BY DEF GuardInv
<1> QED BY <1>1, GuardInit, GuardStep, PTL DEF Spec

\* For any callers sharing any reservations, no call takes a settled cost out of
\* the accounts.
THEOREM CommittedCorrect == Spec => CommittedIsFinal
<1>1. KeepsCommitted =>
        \A h \in Holds :
            status[h] = "COMMITTED" /\ h \notin swept => status'[h] = "COMMITTED"
  BY DEF KeepsCommitted
<1> QED BY <1>1, GuardInit, GuardStep, PTL DEF Spec, CommittedIsFinal

-----------------------------------------------------------------------------
(* The money.                                                              *)

\* The sums of reserve_budget are totals.
LEMMA SumIsTotal == ASSUME NEW f, NEW S PROVE SumOver(f, S) = Total(f, S)
BY DEF SumOver, FoldFunctionOnSet, MapThenFoldSet, Total, SumTable, SumStep, Pick

TxnTypes == [cost : Costs \cup {0}, key : Keys \cup {NoKey}, now : 0 .. MaxClock,
             committed : Nat, events : Nat, active : Nat]

\* Amounts are natural numbers, and so are their sums.
LEMMA AmountsAreNat ==
    ASSUME TypeOK
    PROVE  /\ \A h \in Holds : reserved[h] \in Nat /\ SettledCost[h] \in Nat /\ SettledCost[h] \in Costs \cup {0}
           /\ \A S \in SUBSET Holds : IsFiniteSet(S) /\ Total(reserved, S) \in Nat /\ Total(SettledCost, S) \in Nat
           /\ \A t \in 0 .. MaxClock : CommittedCost(t) \in Nat /\ ActiveCost(t) \in Nat /\ LedgerCost(t) \in Nat
<1> USE NameAssumption, AmountAssumption
<1>0. Costs \cup {0} \subseteq Nat /\ MaxClock \in Nat /\ MaxLedger \in Nat
  OBVIOUS
<1>1. \A h \in Holds : reserved[h] \in Nat /\ SettledCost[h] \in Nat /\ SettledCost[h] \in Costs \cup {0}
  <2>1. \A h \in Holds : reserved[h] \in Costs \cup {0} /\ actual[h] \in Costs \cup {0}
    BY DEF TypeOK
  <2>2. \A h \in Holds : SettledCost[h] \in Costs \cup {0}
    BY <2>1 DEF SettledCost
  <2> QED BY <1>0, <2>1, <2>2
<1>2. \A S \in SUBSET Holds : IsFiniteSet(S) /\ Total(reserved, S) \in Nat /\ Total(SettledCost, S) \in Nat
  <2> SUFFICES ASSUME NEW S \in SUBSET Holds
               PROVE  IsFiniteSet(S) /\ Total(reserved, S) \in Nat /\ Total(SettledCost, S) \in Nat
    OBVIOUS
  <2>1. IsFiniteSet(S)
    BY FS_Subset
  <2>2. \A h \in S : reserved[h] \in Nat /\ SettledCost[h] \in Nat
    BY <1>1
  <2> QED BY <2>1, <2>2, TotalNat
<1>3. ASSUME NEW t \in 0 .. MaxClock
      PROVE  CommittedCost(t) \in Nat /\ ActiveCost(t) \in Nat /\ LedgerCost(t) \in Nat
  <2> DEFINE S == {u \in 0 .. MaxClock : u >= t - Day}
  <2>1. IsFiniteSet(S)
    <3>1. S \in SUBSET (0 .. MaxClock)
      OBVIOUS
    <3>2. IsFiniteSet(0 .. MaxClock)
      BY <1>0, FS_Interval
    <3> QED BY <3>1, <3>2, FS_Subset
  <2>2. \A u \in S : ledger[u] \in Nat
    <3>1. \A u \in 0 .. MaxClock : ledger[u] \in 0 .. MaxLedger
      BY DEF TypeOK
    <3> QED BY <1>0, <3>1
  <2>3. Total(ledger, S) \in Nat
    BY <2>1, <2>2, TotalNat
  <2>4. CommittedSince(t - Day) \in SUBSET Holds /\ ActiveAt(t) \in SUBSET Holds
    BY DEF CommittedSince, ActiveAt
  <2>5. /\ CommittedCost(t) = Total(SettledCost, CommittedSince(t - Day))
        /\ ActiveCost(t) = Total(reserved, ActiveAt(t)) /\ LedgerCost(t) = Total(ledger, S)
    BY SumIsTotal DEF CommittedCost, ActiveCost, LedgerCost
  <2> QED BY <1>2, <2>3, <2>4, <2>5
<1> QED BY <1>1, <1>2, <1>3

LEMMA TypeInit == Init => TypeOK
<1> SUFFICES ASSUME Init PROVE TypeOK
  OBVIOUS
<1> USE NameAssumption, AmountAssumption
<1>1. txn \in [Callers -> TxnTypes]
  <2>1. NoTxn \in TxnTypes
    BY DEF NoTxn, TxnTypes
  <2> QED BY <2>1 DEF Init
<1> QED BY <1>1 DEF Init, TypeOK, TxnTypes, ReservationStatus

LEMMA TypeStep == TypeOK /\ GuardInv /\ [Next]_vars => TypeOK'
<1> SUFFICES ASSUME TypeOK, GuardInv, [Next]_vars PROVE TypeOK'
  OBVIOUS
<1> USE NameAssumption, AmountAssumption
<1>t. txn \in [Callers -> TxnTypes] /\ NoTxn \in TxnTypes /\ clock \in 0 .. MaxClock
  BY DEF TypeOK, NoTxn, TxnTypes
<1>g. GuardTypes'
  BY GuardStep DEF GuardInv
\* A transaction's locals change, the rows and the ledger do not.
<1>l. ASSUME UNCHANGED <<reserved, actual, created, key, ledger, clock>>,
             txn' \in [Callers -> TxnTypes], unseen' \in [Callers -> SUBSET Holds]
      PROVE  TypeOK'
  BY <1>g, <1>l DEF TypeOK, GuardTypes, TxnTypes
<1>e. ASSUME NEW c \in Callers, EndTxn(c)
      PROVE  txn' \in [Callers -> TxnTypes] /\ unseen' \in [Callers -> SUBSET Holds]
  BY <1>e, <1>t DEF EndTxn, TypeOK
<1>u. unseen \in [Callers -> SUBSET Holds]
  BY DEF TypeOK
<1>1. ASSUME NEW c \in Callers, NEW cost \in Costs, NEW k \in Keys \cup {NoKey},
             BeginReserve(c, cost, k)
      PROVE  TypeOK'
  <2> DEFINE row == [NoTxn EXCEPT !.cost = cost, !.key = k, !.now = clock]
  <2>1. row \in TxnTypes
    BY <1>t DEF TxnTypes
  <2>2. txn' = txn \/ txn' = [txn EXCEPT ![c] = row]
    BY <1>1 DEF BeginReserve, Enter
  <2> HIDE DEF row
  <2>3. txn' \in [Callers -> TxnTypes]
    BY <1>t, <2>1, <2>2
  <2> QED BY <1>1, <1>l, <1>u, <2>3 DEF BeginReserve
<1>s. ASSUME NEW c \in Callers, NEW x \in Nat
      PROVE  /\ [txn[c] EXCEPT !.committed = x] \in TxnTypes
             /\ [txn[c] EXCEPT !.events = x] \in TxnTypes
             /\ [txn[c] EXCEPT !.active = x] \in TxnTypes
  BY <1>s, <1>t DEF TxnTypes
<1>n. ASSUME NEW c \in Callers
      PROVE  /\ txn[c].now \in 0 .. MaxClock /\ CommittedCost(txn[c].now) \in Nat
             /\ LedgerCost(txn[c].now) \in Nat /\ ActiveCost(txn[c].now) \in Nat
  <2>1. txn[c].now \in 0 .. MaxClock
    BY <1>t DEF TxnTypes
  <2> QED BY <2>1, AmountsAreNat
<1>2. ASSUME NEW c \in Callers, SumCommitted(c) PROVE TypeOK'
  <2> DEFINE x == CommittedCost(txn[c].now)
  <2>1. x \in Nat /\ txn' = [txn EXCEPT ![c].committed = x]
    BY <1>2, <1>n DEF SumCommitted
  <2> HIDE DEF x
  <2>2. txn' \in [Callers -> TxnTypes]
    BY <1>s, <1>t, <2>1
  <2> QED BY <1>2, <1>l, <1>u, <2>2 DEF SumCommitted
<1>3. ASSUME NEW c \in Callers, SumEvents(c) PROVE TypeOK'
  <2> DEFINE x == LedgerCost(txn[c].now)
  <2>1. x \in Nat /\ txn' = [txn EXCEPT ![c].events = x]
    BY <1>3, <1>n DEF SumEvents
  <2> HIDE DEF x
  <2>2. txn' \in [Callers -> TxnTypes]
    BY <1>s, <1>t, <2>1
  <2> QED BY <1>3, <1>l, <1>u, <2>2 DEF SumEvents
<1>4. ASSUME NEW c \in Callers, SumActive(c) PROVE TypeOK'
  <2> DEFINE x == ActiveCost(txn[c].now)
  <2>1. x \in Nat /\ txn' = [txn EXCEPT ![c].active = x]
    BY <1>4, <1>n DEF SumActive
  <2> HIDE DEF x
  <2>2. txn' \in [Callers -> TxnTypes]
    BY <1>s, <1>t, <2>1
  <2> QED BY <1>4, <1>l, <1>u, <2>2 DEF SumActive
<1>5. ASSUME NEW c \in Callers, NEW h \in Holds, Admit(c, h) PROVE TypeOK'
  <2>1. txn[c].cost \in Costs \cup {0} /\ txn[c].key \in Keys \cup {NoKey} /\ txn[c].now \in 0 .. MaxClock
    BY <1>t DEF TxnTypes
  <2>2. /\ reserved' \in [Holds -> Costs \cup {0}] /\ created' \in [Holds -> 0 .. MaxClock]
        /\ key' \in [Holds -> Keys \cup {NoKey}]
    BY <1>5, <2>1 DEF Admit, CreatedAt, TypeOK
  <2>3. txn' \in [Callers -> TxnTypes] /\ unseen' \in [Callers -> SUBSET Holds]
    BY <1>5, <1>e DEF Admit
  <2> QED BY <1>5, <1>g, <2>2, <2>3 DEF Admit, TypeOK, GuardTypes, TxnTypes
<1>6. ASSUME NEW c \in Callers, Refuse(c) PROVE TypeOK'
  BY <1>6, <1>e, <1>l DEF Refuse
<1>7. ASSUME NEW c \in Callers, NEW cost \in Costs \cup {0}, CommitReservation(c, cost) PROVE TypeOK'
  <2>1. held[c] \in Holds
    BY <1>7 DEF CommitReservation, GuardInv, CallsCovered
  <2>2. SettledCost[held[c]] \in Costs \cup {0}
    BY <2>1, AmountsAreNat
  <2> DEFINE x == IF cost # 0 THEN cost ELSE SettledCost[held[c]]
  <2>3. x \in Costs \cup {0} /\ actual' = [actual EXCEPT ![held[c]] = x]
    BY <1>7, <2>2 DEF CommitReservation
  <2> HIDE DEF x
  <2>4. actual' \in [Holds -> Costs \cup {0}]
    BY <2>3 DEF TypeOK
  <2>5. unseen' \in [Callers -> SUBSET Holds]
    BY <1>7, <1>u, <2>1 DEF CommitReservation
  <2> QED BY <1>7, <1>g, <2>4, <2>5 DEF CommitReservation, Settled, TypeOK, GuardTypes
<1>8. ASSUME NEW c \in Callers, ReleaseReservation(c) PROVE TypeOK'
  BY <1>8, <1>l, <1>t, <1>u DEF ReleaseReservation, Settled
<1>9. ASSUME NEW c \in Callers, Crash(c) PROVE TypeOK'
  BY <1>9, <1>e, <1>l DEF Crash
<1>10. CASE ReadStale
  BY <1>10, <1>l, <1>t, <1>u DEF ReadStale
<1>11. CASE ExpireStale
  BY <1>11, <1>l, <1>t, <1>u DEF ExpireStale
<1>12. ASSUME NEW cost \in Costs, RecordUsage(cost) PROVE TypeOK'
  <2>1. ledger' \in [0 .. MaxClock -> 0 .. MaxLedger]
    <3>1. ledger[clock] + cost \in 0 .. MaxLedger
      BY <1>12, <1>t DEF RecordUsage, TypeOK
    <3> QED BY <1>12, <1>t, <3>1 DEF RecordUsage, TypeOK
  <2> QED BY <1>12, <1>g, <1>t, <2>1 DEF RecordUsage, TypeOK, GuardTypes
<1>13. CASE Tick
  <2>1. clock' \in 0 .. MaxClock
    BY <1>13, <1>t DEF Tick
  <2> QED BY <1>13, <1>g, <2>1 DEF Tick, TypeOK, GuardTypes
<1>14. CASE UNCHANGED vars
  BY <1>14, <1>l, <1>t, <1>u DEF vars
<1> QED
  BY <1>1, <1>2, <1>3, <1>4, <1>5, <1>6, <1>7, <1>8, <1>9, <1>10, <1>11, <1>12, <1>13, <1>14
  DEF Next, CallerStep, ReserveStep

\* The moment a transaction refers to has passed.
Timely == \A c \in Callers : txn[c].now <= clock

\* What a reserver saw of the holds in force is no less than what is in force when it decides:
\* they grow only by an admission, and the lock keeps the others from one.
ActiveSeen == \A c \in Callers : pc[c] = "decide" => ActiveCost(clock) <= txn[c].active

\* What it saw as committed covers all that is committed now, but what was committed since.
CommittedSeen ==
    \A c \in PastCommittedSum :
        Total(SettledCost, CommittedSince(clock - Day) \ unseen[c]) <= txn[c].committed

MoneyInv == GuardInv /\ TypeOK /\ Timely /\ ActiveSeen /\ CommittedSeen /\ ActiveWithinBudget

\* Unless a row is admitted, the holds in force only shrink.
LEMMA ActiveShrinks ==
    ASSUME TypeOK, clock' \in 0 .. MaxClock, clock <= clock', reserved' = reserved, created' = created,
           \A h \in Holds : status'[h] = "RESERVED" => status[h] = "RESERVED"
    PROVE  ActiveCost(clock)' <= ActiveCost(clock)
<1> USE AmountAssumption
<1>1. ActiveAt(clock)' \in SUBSET ActiveAt(clock)
  <2> SUFFICES ASSUME NEW h \in Holds, status'[h] = "RESERVED", created'[h] + Ttl > clock'
               PROVE  status[h] = "RESERVED" /\ created[h] + Ttl > clock
    BY DEF ActiveAt
  <2>1. created[h] \in 0 .. MaxClock /\ clock \in 0 .. MaxClock /\ MaxClock \in Nat /\ Ttl \in Nat
    BY DEF TypeOK
  <2> QED BY <2>1
<1>2. ActiveAt(clock) \in SUBSET Holds
  BY DEF ActiveAt
<1>3. IsFiniteSet(ActiveAt(clock)) /\ \A h \in ActiveAt(clock) : reserved[h] \in Nat
  BY <1>2, AmountsAreNat
<1>4. \A h \in ActiveAt(clock)' : reserved[h] \in Nat /\ reserved[h] <= reserved[h]
  BY <1>1, <1>3
<1>5. Total(reserved, ActiveAt(clock)') <= Total(reserved, ActiveAt(clock))
  BY <1>1, <1>3, <1>4, TotalGrows
<1>6. ActiveCost(clock) = Total(reserved, ActiveAt(clock))
  BY SumIsTotal DEF ActiveCost
<1>7. ActiveCost(clock)' = Total(reserved, ActiveAt(clock)')
  BY SumIsTotal DEF ActiveCost
<1> QED BY <1>5, <1>6, <1>7

\* Less is committed, but for what unseen names: a row enters the accounts, or its amount
\* changes, only by a commit.
LEMMA CommittedShrinks ==
    ASSUME TypeOK, TypeOK', clock <= clock', created' = created, NEW U \in SUBSET Holds, NEW V \in SUBSET Holds,
           \A h \in Holds \ V : /\ h \notin U
                                /\ status'[h] = "COMMITTED" => status[h] = "COMMITTED"
                                /\ SettledCost'[h] = SettledCost[h]
    PROVE  Total(SettledCost', CommittedSince(clock - Day)' \ V) <= Total(SettledCost, CommittedSince(clock - Day) \ U)
<1> USE AmountAssumption
<1> DEFINE S == CommittedSince(clock - Day)' \ V
           T == CommittedSince(clock - Day) \ U
<1>1. S \in SUBSET T
  <2> SUFFICES ASSUME NEW h \in Holds, h \notin V, status'[h] = "COMMITTED", created'[h] >= clock' - Day
               PROVE  h \notin U /\ status[h] = "COMMITTED" /\ created[h] >= clock - Day
    BY DEF CommittedSince
  <2>1. created[h] \in 0 .. MaxClock /\ clock \in 0 .. MaxClock /\ clock' \in 0 .. MaxClock /\ Day \in Nat
        /\ MaxClock \in Nat
    BY DEF TypeOK
  <2>2. created[h] >= clock - Day
    BY <2>1
  <2> QED BY <2>2
<1>2. T \in SUBSET Holds /\ \A h \in S : h \in Holds \ V
  BY DEF CommittedSince
<1>3. IsFiniteSet(T) /\ \A h \in T : SettledCost[h] \in Nat
  BY <1>2, AmountsAreNat
<1>4. \A h \in S : SettledCost'[h] \in Nat /\ SettledCost'[h] <= SettledCost[h]
  <2>1. \A h \in S : SettledCost'[h] = SettledCost[h] /\ SettledCost[h] \in Nat
    BY <1>1, <1>2, <1>3
  <2> QED BY <2>1
<1> HIDE DEF S, T
<1>5. Total(SettledCost', S) <= Total(SettledCost, T)
  BY <1>1, <1>3, <1>4, TotalGrows
<1> QED BY <1>5 DEF S, T

\* Seen from a later moment no more is in force and no more is committed.
LEMMA LaterIsLess ==
    ASSUME TypeOK, NEW t \in 0 .. MaxClock, t <= clock, NEW U
    PROVE  /\ ActiveCost(clock) <= ActiveCost(t)
           /\ Total(SettledCost, CommittedSince(clock - Day) \ U) <= CommittedCost(t)
<1> USE AmountAssumption
<1>0. clock \in 0 .. MaxClock /\ MaxClock \in Nat /\ Ttl \in Nat /\ Day \in Nat
      /\ \A h \in Holds : created[h] \in 0 .. MaxClock
  BY DEF TypeOK
<1>1. ActiveAt(clock) \in SUBSET ActiveAt(t)
  <2>1. \A h \in Holds : created[h] + Ttl > clock => created[h] + Ttl > t
    BY <1>0
  <2> QED BY <2>1 DEF ActiveAt
<1>2. CommittedSince(clock - Day) \ U \in SUBSET CommittedSince(t - Day)
  <2>1. \A h \in Holds : created[h] >= clock - Day => created[h] >= t - Day
    BY <1>0
  <2> QED BY <2>1 DEF CommittedSince
<1>3. ActiveAt(t) \in SUBSET Holds /\ CommittedSince(t - Day) \in SUBSET Holds
  BY DEF ActiveAt, CommittedSince
<1>4. /\ IsFiniteSet(ActiveAt(t)) /\ IsFiniteSet(CommittedSince(t - Day))
      /\ \A h \in ActiveAt(t) : reserved[h] \in Nat /\ reserved[h] <= reserved[h]
      /\ \A h \in CommittedSince(t - Day) : SettledCost[h] \in Nat /\ SettledCost[h] <= SettledCost[h]
  BY <1>3, AmountsAreNat
<1>5. Total(reserved, ActiveAt(clock)) <= Total(reserved, ActiveAt(t))
  BY <1>1, <1>4, TotalGrows
<1>6. Total(SettledCost, CommittedSince(clock - Day) \ U) <= Total(SettledCost, CommittedSince(t - Day))
  BY <1>2, <1>4, TotalGrows
<1> QED BY <1>5, <1>6, SumIsTotal DEF ActiveCost, CommittedCost

\* An admission adds to the holds in force no more than the amount it was checked with.
LEMMA AdmitAdds ==
    ASSUME MoneyInv, TypeOK', NEW c \in Callers, NEW h \in Holds, Admit(c, h)
    PROVE  /\ ActiveCost(clock)' <= txn[c].cost + txn[c].active
           /\ CommittedCost(clock)' = CommittedCost(clock)
           /\ \A d \in Callers \ {c} : pc[d] \notin Statements
           /\ txn[c].cost \in Nat /\ txn[c].active \in Nat /\ txn[c].committed \in Nat /\ txn[c].events \in Nat
           /\ ActiveCost(clock)' \in Nat /\ CommittedCost(clock) \in Nat
<1> USE AmountAssumption, NameAssumption
<1>0. TypeOK /\ GuardInv /\ ActiveSeen /\ clock \in 0 .. MaxClock /\ clock' = clock
  BY DEF MoneyInv, TypeOK, Admit
<1>1. /\ txn[c].cost \in Nat /\ txn[c].active \in Nat /\ txn[c].committed \in Nat /\ txn[c].events \in Nat
  <2>1. txn[c] \in TxnTypes
    BY <1>0 DEF TypeOK, TxnTypes
  <2>2. txn[c].cost \in Costs \cup {0} /\ txn[c].active \in Nat /\ txn[c].committed \in Nat /\ txn[c].events \in Nat
    BY ONLY <2>1 DEF TxnTypes
  <2>3. Costs \cup {0} \subseteq Nat
    OBVIOUS
  <2> QED BY ONLY <2>2, <2>3
<1>2. \A d \in Callers \ {c} : pc[d] \notin Statements
  BY <1>0 DEF Admit, GuardInv, ReserversSerialised
<1>3. /\ status[h] = "none" /\ status' = [status EXCEPT ![h] = "RESERVED"]
      /\ reserved' = [reserved EXCEPT ![h] = txn[c].cost]
      /\ created' = [created EXCEPT ![h] = txn[c].now] /\ actual' = actual /\ pc[c] = "decide"
  BY DEF Admit, CreatedAt
<1>4. /\ status'[h] = "RESERVED" /\ reserved'[h] = txn[c].cost
      /\ \A g \in Holds \ {h} : /\ status'[g] = status[g] /\ reserved'[g] = reserved[g]
                                /\ created'[g] = created[g] /\ SettledCost'[g] = SettledCost[g]
  BY <1>0, <1>3 DEF TypeOK, SettledCost
<1> DEFINE A == ActiveAt(clock)
           C == CommittedSince(clock - Day)
<1>5. A \in SUBSET Holds /\ h \notin A /\ C \in SUBSET Holds /\ h \notin C
  BY <1>3 DEF ActiveAt, CommittedSince
<1>6. ActiveAt(clock)' \in SUBSET (A \cup {h})
  BY <1>0, <1>4 DEF ActiveAt
<1>7. CommittedSince(clock - Day)' = C
  BY <1>0, <1>3, <1>4 DEF CommittedSince
<1>8. /\ IsFiniteSet(A) /\ IsFiniteSet(C) /\ IsFiniteSet(A \cup {h})
      /\ \A g \in A : reserved[g] \in Nat /\ reserved'[g] = reserved[g]
      /\ \A g \in C : SettledCost[g] \in Nat /\ SettledCost'[g] = SettledCost[g]
  <2>1. IsFiniteSet(A) /\ IsFiniteSet(C)
    BY <1>0, <1>5, AmountsAreNat
  <2>2. IsFiniteSet(A \cup {h})
    BY <2>1, FS_AddElement
  <2> HIDE DEF A, C
  <2> QED BY <1>0, <1>4, <1>5, <2>1, <2>2, AmountsAreNat
<1> HIDE DEF A, C
<1>9. \A g \in A \cup {h} : reserved'[g] \in Nat /\ reserved'[g] <= reserved'[g]
  <2>1. \A g \in A \cup {h} : reserved'[g] \in Nat
    BY <1>1, <1>4, <1>8
  <2> QED BY <2>1
<1>10. Total(reserved', ActiveAt(clock)') <= Total(reserved', A \cup {h})
  BY <1>6, <1>8, <1>9, TotalGrows
<1>11. Total(reserved', A \cup {h}) = reserved'[h] + Total(reserved', A)
  BY <1>5, <1>8, <1>9, TotalWith
<1>12. Total(reserved', A) = Total(reserved, A)
  BY <1>8, TotalSame
<1>13. Total(SettledCost', C) = Total(SettledCost, C)
  BY <1>8, TotalSame
<1>14. /\ ActiveCost(clock) = Total(reserved, A) /\ CommittedCost(clock) = Total(SettledCost, C)
  BY SumIsTotal DEF ActiveCost, CommittedCost, A, C
<1>15. ActiveCost(clock)' = Total(reserved', ActiveAt(clock)')
  BY SumIsTotal DEF ActiveCost
<1>16. CommittedCost(clock)' = Total(SettledCost', CommittedSince(clock - Day)')
  BY SumIsTotal DEF CommittedCost
<1>17. ActiveCost(clock) <= txn[c].active /\ ActiveCost(clock) \in Nat /\ CommittedCost(clock) \in Nat
  BY <1>0, <1>3, AmountsAreNat DEF ActiveSeen
<1>18. ActiveCost(clock)' \in Nat
  <2>1. ActiveAt(clock)' \in SUBSET (A \cup {h}) /\ IsFiniteSet(ActiveAt(clock)')
    BY <1>6, <1>8, FS_Subset
  <2>2. \A g \in ActiveAt(clock)' : reserved'[g] \in Nat
    BY <1>9, <2>1
  <2> QED BY <1>15, <2>1, <2>2, TotalNat
<1>19. ActiveCost(clock)' <= txn[c].cost + ActiveCost(clock)
  BY <1>4, <1>10, <1>11, <1>12, <1>14, <1>15
<1>20. ActiveCost(clock)' <= txn[c].cost + txn[c].active
  BY <1>1, <1>17, <1>18, <1>19
<1> QED BY <1>1, <1>2, <1>7, <1>13, <1>14, <1>16, <1>17, <1>18, <1>20

LEMMA MoneyInit == Init => MoneyInv
<1> SUFFICES ASSUME Init PROVE MoneyInv
  OBVIOUS
<1> USE AmountAssumption
<1>1. ActiveWithinBudget
  <2>1. ActiveAt(clock) = {}
    BY DEF Init, ActiveAt
  <2>2. ActiveCost(clock) = 0
    BY <2>1, SumIsTotal, TotalEmpty DEF ActiveCost
  <2>3. Budget \in Nat
    OBVIOUS
  <2> QED BY <2>2, <2>3 DEF ActiveWithinBudget
<1>2. Timely /\ ActiveSeen /\ CommittedSeen
  BY DEF Init, Timely, ActiveSeen, CommittedSeen, PastCommittedSum, NoTxn
<1> QED BY <1>1, <1>2, GuardInit, TypeInit DEF MoneyInv

LEMMA MoneyStep == MoneyInv /\ [Next]_vars => MoneyInv'
<1> SUFFICES ASSUME MoneyInv, [Next]_vars PROVE MoneyInv'
  OBVIOUS
<1> USE NameAssumption, AmountAssumption
<1>g. GuardInv' /\ TypeOK'
  BY GuardStep, TypeStep DEF MoneyInv
<1>t. /\ GuardInv /\ TypeOK /\ Timely /\ ActiveSeen /\ CommittedSeen /\ ActiveWithinBudget
      /\ clock \in 0 .. MaxClock /\ clock' \in 0 .. MaxClock /\ MaxClock \in Nat /\ Budget \in Nat
      /\ ActiveCost(clock) \in Nat
  <2>1. clock \in 0 .. MaxClock /\ clock' \in 0 .. MaxClock
    BY <1>g DEF MoneyInv, TypeOK
  <2> QED BY <2>1, AmountsAreNat DEF MoneyInv
<1>m. \A c \in Callers : txn[c] \in TxnTypes /\ txn[c].now \in 0 .. MaxClock /\ txn[c].active \in Nat
                         /\ txn[c].committed \in Nat
  <2>1. \A c \in Callers : txn[c] \in TxnTypes
    BY <1>t DEF TypeOK, TxnTypes
  <2> QED BY <2>1 DEF TxnTypes
\* Steps that admit nothing.
<1>q. ASSUME clock <= clock', UNCHANGED <<reserved, created>>,
             \A h \in Holds : status'[h] = "RESERVED" => status[h] = "RESERVED",
             \A c \in Callers : txn'[c].now = txn[c].now \/ txn'[c].now <= clock,
             \A c \in Callers : pc'[c] = "decide" =>
                \/ pc[c] = "decide" /\ txn'[c].active = txn[c].active
                \/ ActiveCost(clock) <= txn'[c].active /\ txn'[c].active \in Nat,
             \A c \in PastCommittedSum' :
                \/ /\ c \in PastCommittedSum /\ txn'[c].committed = txn[c].committed
                   /\ \A h \in Holds \ unseen'[c] :
                         /\ h \notin unseen[c]
                         /\ status'[h] = "COMMITTED" => status[h] = "COMMITTED"
                         /\ SettledCost'[h] = SettledCost[h]
                \/ Total(SettledCost', CommittedSince(clock - Day)' \ unseen'[c]) <= txn'[c].committed
      PROVE  MoneyInv'
  <2>1. ActiveCost(clock)' <= ActiveCost(clock) /\ ActiveCost(clock)' \in Nat
    <3>1. ActiveCost(clock)' <= ActiveCost(clock)
      BY <1>q, <1>t, ActiveShrinks
    <3>2. ActiveAt(clock)' \in SUBSET Holds
      BY DEF ActiveAt
    <3>3. Total(reserved, ActiveAt(clock)') \in Nat
      BY <1>t, <3>2, AmountsAreNat
    <3>4. ActiveCost(clock)' = Total(reserved, ActiveAt(clock)')
      BY <1>q, SumIsTotal DEF ActiveCost
    <3> QED BY <3>1, <3>3, <3>4
  <2>2. ActiveWithinBudget'
    <3>1. ActiveCost(clock)' <= Budget
      BY <1>t, <2>1 DEF ActiveWithinBudget
    <3> QED BY <3>1 DEF ActiveWithinBudget
  <2>3. Timely'
    <3> SUFFICES ASSUME NEW c \in Callers PROVE txn'[c].now <= clock'
      BY DEF Timely
    <3>1. txn[c].now <= clock /\ txn[c].now \in 0 .. MaxClock
      BY <1>m, <1>t DEF Timely
    <3>2. txn'[c].now \in 0 .. MaxClock
      BY <1>g DEF TypeOK
    <3> QED BY <1>q, <1>t, <3>1, <3>2
  <2>4. ActiveSeen'
    <3> SUFFICES ASSUME NEW c \in Callers, pc'[c] = "decide" PROVE ActiveCost(clock)' <= txn'[c].active
      BY DEF ActiveSeen
    <3>1. ActiveCost(clock) <= txn'[c].active /\ txn'[c].active \in Nat
      BY <1>m, <1>q, <1>t DEF ActiveSeen
    <3> QED BY <1>t, <2>1, <3>1
  <2>5. CommittedSeen'
    <3> SUFFICES ASSUME NEW c \in PastCommittedSum'
                 PROVE  Total(SettledCost', CommittedSince(clock - Day)' \ unseen'[c]) <= txn'[c].committed
      BY DEF CommittedSeen
    <3>1. CASE /\ c \in PastCommittedSum /\ txn'[c].committed = txn[c].committed
               /\ \A h \in Holds \ unseen'[c] :
                     /\ h \notin unseen[c]
                     /\ status'[h] = "COMMITTED" => status[h] = "COMMITTED"
                     /\ SettledCost'[h] = SettledCost[h]
      <4>1. c \in Callers /\ unseen[c] \in SUBSET Holds /\ unseen'[c] \in SUBSET Holds
        BY <1>g, <1>t, <3>1 DEF PastCommittedSum, TypeOK
      <4>2. Total(SettledCost', CommittedSince(clock - Day)' \ unseen'[c])
               <= Total(SettledCost, CommittedSince(clock - Day) \ unseen[c])
        BY <1>g, <1>q, <1>t, <3>1, <4>1, CommittedShrinks
      <4>3. Total(SettledCost, CommittedSince(clock - Day) \ unseen[c]) <= txn[c].committed
        BY <1>t, <3>1 DEF CommittedSeen
      <4>4. Total(SettledCost, CommittedSince(clock - Day) \ unseen[c]) \in Nat
        <5>1. CommittedSince(clock - Day) \ unseen[c] \in SUBSET Holds
          BY DEF CommittedSince
        <5> QED BY <1>t, <5>1, AmountsAreNat
      <4>5. Total(SettledCost', CommittedSince(clock - Day)' \ unseen'[c]) \in Nat
        <5>1. \A S \in SUBSET Holds : Total(SettledCost', S) \in Nat
          <6> SUFFICES ASSUME NEW S \in SUBSET Holds PROVE Total(SettledCost', S) \in Nat
            OBVIOUS
          <6>1. IsFiniteSet(S) /\ \A h \in S : SettledCost'[h] \in Nat
            <7>1. \A h \in Holds : /\ reserved'[h] \in Costs \cup {0} /\ actual'[h] \in Costs \cup {0}
                                   /\ SettledCost'[h] = IF actual'[h] # 0 THEN actual'[h] ELSE reserved'[h]
              BY <1>g DEF TypeOK, SettledCost
            <7>2. Costs \cup {0} \subseteq Nat
              OBVIOUS
            <7>3. IsFiniteSet(S)
              BY <1>t, AmountsAreNat
            <7> QED BY <7>1, <7>2, <7>3
          <6> QED BY <6>1, TotalNat
        <5>2. CommittedSince(clock - Day)' \ unseen'[c] \in SUBSET Holds
          BY DEF CommittedSince
        <5> QED BY <5>1, <5>2
      <4> QED BY <1>m, <3>1, <4>1, <4>2, <4>3, <4>4, <4>5
    <3> QED BY <1>q, <3>1
  <2> QED BY <1>g, <2>2, <2>3, <2>4, <2>5 DEF MoneyInv
<1>k. ASSUME UNCHANGED <<reserved, actual>> PROVE SettledCost' = SettledCost
  BY <1>k DEF SettledCost
<1>f. clock <= clock
  BY <1>t
<1>z. 0 <= clock /\ NoTxn.now = 0
  BY <1>t DEF NoTxn
\* Steps that leave the rows, the clock and the unseen as they are.
<1>c. ASSUME UNCHANGED <<status, reserved, actual, created, clock, unseen>>,
             \A d \in Callers : txn'[d].now = txn[d].now \/ txn'[d].now <= clock,
             \A d \in Callers : pc'[d] = "decide" =>
                \/ pc[d] = "decide" /\ txn'[d].active = txn[d].active
                \/ ActiveCost(clock) <= txn'[d].active /\ txn'[d].active \in Nat,
             \A d \in PastCommittedSum' :
                \/ d \in PastCommittedSum /\ txn'[d].committed = txn[d].committed
                \/ Total(SettledCost, CommittedSince(clock - Day) \ unseen[d]) <= txn'[d].committed
      PROVE  MoneyInv'
  <2>1. SettledCost' = SettledCost
    BY <1>c, <1>k
  <2>2. CommittedSince(clock - Day)' = CommittedSince(clock - Day)
    BY <1>c DEF CommittedSince
  <2> QED BY <1>c, <1>f, <1>q, <2>1, <2>2
<1>1. ASSUME NEW c \in Callers, NEW cost \in Costs, NEW k \in Keys \cup {NoKey},
             BeginReserve(c, cost, k)
      PROVE  MoneyInv'
  <2>1. /\ pc[c] = "idle" /\ UNCHANGED <<status, reserved, actual, created, clock, unseen>>
        /\ pc' \in {[pc EXCEPT ![c] = "calling"], [pc EXCEPT ![c] = "sum_committed"]}
    BY <1>1 DEF BeginReserve, Enter
  <2> DEFINE row == [NoTxn EXCEPT !.cost = cost, !.key = k, !.now = clock]
  <2>2. txn' = txn \/ txn' = [txn EXCEPT ![c] = row]
    BY <1>1 DEF BeginReserve, Enter
  <2>3. row.now = clock
    BY DEF NoTxn
  <2> HIDE DEF row
  <2>4. /\ \A d \in Callers \ {c} : txn'[d] = txn[d] /\ pc'[d] = pc[d]
        /\ txn'[c] = txn[c] \/ txn'[c] = row
        /\ pc'[c] \in {"calling", "sum_committed"}
    BY <1>t, <2>1, <2>2 DEF TypeOK
  <2>5. PastCommittedSum' \subseteq PastCommittedSum \ {c}
    BY <2>1, <2>4 DEF PastCommittedSum
  <2>6. \A d \in PastCommittedSum : d \in Callers
    BY DEF PastCommittedSum
  <2> QED BY <1>c, <1>f, <2>1, <2>3, <2>4, <2>5, <2>6
<1>2. ASSUME NEW c \in Callers, SumCommitted(c) PROVE MoneyInv'
  <2>1. /\ UNCHANGED <<status, reserved, actual, created, clock, unseen>>
        /\ pc' = [pc EXCEPT ![c] = "sum_events"]
        /\ txn' = [txn EXCEPT ![c].committed = CommittedCost(txn[c].now)]
    BY <1>2 DEF SumCommitted
  <2>2. /\ \A d \in Callers \ {c} : txn'[d] = txn[d] /\ pc'[d] = pc[d]
        /\ txn'[c].now = txn[c].now /\ txn'[c].committed = CommittedCost(txn[c].now)
        /\ pc'[c] = "sum_events"
    <3>1. txn'[c] = [txn[c] EXCEPT !.committed = CommittedCost(txn[c].now)] /\ txn[c] \in TxnTypes
      BY <1>m, <1>t, <2>1 DEF TypeOK
    <3>2. txn'[c].now = txn[c].now /\ txn'[c].committed = CommittedCost(txn[c].now)
      BY <3>1 DEF TxnTypes
    <3> QED BY <1>t, <2>1, <3>2 DEF TypeOK
  <2>3. \A d \in PastCommittedSum' : d = c \/ d \in PastCommittedSum \ {c}
    BY <2>2 DEF PastCommittedSum
  <2>4. Total(SettledCost, CommittedSince(clock - Day) \ unseen[c]) <= txn'[c].committed
    BY <1>m, <1>t, <2>2, LaterIsLess DEF Timely
  <2>5. \A d \in PastCommittedSum : d \in Callers
    BY DEF PastCommittedSum
  <2> QED BY <1>c, <2>1, <2>2, <2>3, <2>4, <2>5
<1>3. ASSUME NEW c \in Callers, SumEvents(c) PROVE MoneyInv'
  <2>1. /\ UNCHANGED <<status, reserved, actual, created, clock, unseen>> /\ pc[c] = "sum_events"
        /\ pc' = [pc EXCEPT ![c] = "sum_active"]
        /\ txn' = [txn EXCEPT ![c].events = LedgerCost(txn[c].now)]
    BY <1>3 DEF SumEvents
  <2>2. /\ \A d \in Callers \ {c} : txn'[d] = txn[d] /\ pc'[d] = pc[d]
        /\ txn'[c].now = txn[c].now /\ txn'[c].committed = txn[c].committed
        /\ pc'[c] = "sum_active"
    <3>1. txn'[c] = [txn[c] EXCEPT !.events = LedgerCost(txn[c].now)] /\ txn[c] \in TxnTypes
      BY <1>m, <1>t, <2>1 DEF TypeOK
    <3>2. txn'[c].now = txn[c].now /\ txn'[c].committed = txn[c].committed
      BY <3>1 DEF TxnTypes
    <3> QED BY <1>t, <2>1, <3>2 DEF TypeOK
  <2>3. \A d \in PastCommittedSum' : d \in Callers /\ d \in PastCommittedSum
    BY <2>1, <2>2 DEF PastCommittedSum
  <2> QED BY <1>c, <2>1, <2>2, <2>3
<1>4. ASSUME NEW c \in Callers, SumActive(c) PROVE MoneyInv'
  <2>1. /\ UNCHANGED <<status, reserved, actual, created, clock, unseen>> /\ pc[c] = "sum_active"
        /\ pc' = [pc EXCEPT ![c] = "decide"]
        /\ txn' = [txn EXCEPT ![c].active = ActiveCost(txn[c].now)]
    BY <1>4 DEF SumActive
  <2>2. /\ \A d \in Callers \ {c} : txn'[d] = txn[d] /\ pc'[d] = pc[d]
        /\ txn'[c].now = txn[c].now /\ txn'[c].committed = txn[c].committed
        /\ txn'[c].active = ActiveCost(txn[c].now) /\ pc'[c] = "decide"
    <3>1. txn'[c] = [txn[c] EXCEPT !.active = ActiveCost(txn[c].now)] /\ txn[c] \in TxnTypes
      BY <1>m, <1>t, <2>1 DEF TypeOK
    <3>2. /\ txn'[c].now = txn[c].now /\ txn'[c].committed = txn[c].committed
          /\ txn'[c].active = ActiveCost(txn[c].now)
      BY <3>1 DEF TxnTypes
    <3> QED BY <1>t, <2>1, <3>2 DEF TypeOK
  <2>3. \A d \in PastCommittedSum' : d \in Callers /\ d \in PastCommittedSum
    BY <2>1, <2>2 DEF PastCommittedSum
  <2>4. ActiveCost(clock) <= txn'[c].active /\ txn'[c].active \in Nat
    BY <1>m, <1>t, <2>2, LaterIsLess, AmountsAreNat DEF Timely
  <2> QED BY <1>c, <2>1, <2>2, <2>3, <2>4
<1>5. ASSUME NEW c \in Callers, NEW h \in Holds, Admit(c, h) PROVE MoneyInv'
  <2>1. /\ pc' = [pc EXCEPT ![c] = "calling"] /\ txn' = [txn EXCEPT ![c] = NoTxn] /\ clock' = clock
        /\ Projected(txn[c]) <= Budget
    BY <1>5 DEF Admit, EndTxn
  <2>2. /\ pc'[c] = "calling" /\ txn'[c] = NoTxn
        /\ \A d \in Callers \ {c} : pc'[d] = pc[d] /\ txn'[d] = txn[d]
    BY <1>t, <2>1 DEF TypeOK
  <2>3. /\ ActiveCost(clock)' <= txn[c].cost + txn[c].active /\ ActiveCost(clock)' \in Nat
        /\ \A d \in Callers \ {c} : pc[d] \notin Statements
        /\ txn[c].cost \in Nat /\ txn[c].active \in Nat /\ txn[c].committed \in Nat /\ txn[c].events \in Nat
    BY <1>5, <1>g, AdmitAdds
  <2>4. ActiveSeen' /\ CommittedSeen'
    BY <2>2, <2>3 DEF ActiveSeen, CommittedSeen, PastCommittedSum
  <2>5. Timely'
    BY <1>t, <1>z, <2>1, <2>2 DEF Timely
  <2>6. ActiveCost(clock)' <= Budget
    BY <1>t, <2>1, <2>3 DEF Projected
  <2>7. ActiveWithinBudget'
    BY <2>6 DEF ActiveWithinBudget
  <2> QED BY <1>g, <2>4, <2>5, <2>7 DEF MoneyInv
\* A transaction ends without a row.
<1>e. ASSUME NEW c \in Callers, EndTxn(c), pc' = [pc EXCEPT ![c] = "idle"],
             UNCHANGED <<status, reserved, actual, created, clock>>
      PROVE  MoneyInv'
  <2>1. /\ pc'[c] = "idle" /\ txn'[c] = NoTxn
        /\ \A d \in Callers \ {c} : pc'[d] = pc[d] /\ txn'[d] = txn[d] /\ unseen'[d] = unseen[d]
    BY <1>e, <1>t DEF TypeOK, EndTxn
  <2>2. \A d \in PastCommittedSum' : d \in Callers \ {c} /\ d \in PastCommittedSum
    BY <2>1 DEF PastCommittedSum
  <2>3. SettledCost' = SettledCost
    BY <1>e, <1>k
  <2>4. \A d \in Callers : pc'[d] = "decide" => pc[d] = "decide" /\ txn'[d].active = txn[d].active
    BY <2>1
  <2>5. \A d \in Callers : txn'[d].now = txn[d].now \/ txn'[d].now <= clock
    BY <1>z, <2>1
  <2> QED BY <1>e, <1>f, <1>q, <2>1, <2>2, <2>3, <2>4, <2>5
<1>6. ASSUME NEW c \in Callers, Refuse(c) PROVE MoneyInv'
  BY <1>6, <1>e DEF Refuse
<1>9. ASSUME NEW c \in Callers, Crash(c) PROVE MoneyInv'
  BY <1>9, <1>e DEF Crash
\* The status of a row or the clock changes, no transaction does.
<1>s. ASSUME UNCHANGED <<reserved, actual, created, txn, unseen>>, clock <= clock',
             \A h \in Holds : /\ status'[h] = "RESERVED" => status[h] = "RESERVED"
                              /\ status'[h] = "COMMITTED" => status[h] = "COMMITTED",
             \A d \in Callers : pc'[d] \in Statements => pc'[d] = pc[d]
      PROVE  MoneyInv'
  <2>1. \A d \in PastCommittedSum' : d \in Callers /\ d \in PastCommittedSum
    BY <1>s DEF PastCommittedSum
  <2>2. SettledCost' = SettledCost
    BY <1>k, <1>s
  <2> QED BY <1>q, <1>s, <2>1, <2>2
<1>7. ASSUME NEW c \in Callers, NEW cost \in Costs \cup {0}, CommitReservation(c, cost) PROVE MoneyInv'
  <2> DEFINE h == held[c]
  <2>1. /\ pc[c] = "calling" /\ status' = [status EXCEPT ![h] = "COMMITTED"]
        /\ UNCHANGED <<reserved, created, txn, clock>> /\ pc' = [pc EXCEPT ![c] = "idle"]
        /\ unseen' = [d \in Callers |-> IF d \in PastCommittedSum THEN unseen[d] \cup {h} ELSE unseen[d]]
    BY <1>7 DEF CommitReservation, Settled
  <2>2. h \in Holds
    BY <1>t, <2>1 DEF GuardInv, CallsCovered
  <2> HIDE DEF h
  <2>3. \A g \in Holds \ {h} : actual'[g] = actual[g] /\ status'[g] = status[g]
    BY <1>7, <1>t, <2>1 DEF CommitReservation, TypeOK, h
  <2>4. \A g \in Holds \ {h} : SettledCost'[g] = SettledCost[g]
    BY <2>1, <2>3 DEF SettledCost
  <2>5. /\ pc'[c] = "idle" /\ \A d \in Callers \ {c} : pc'[d] = pc[d]
        /\ status'[h] = "COMMITTED"
    BY <1>t, <2>1, <2>2 DEF TypeOK
  <2>6. \A d \in PastCommittedSum' : d \in PastCommittedSum /\ d \in Callers /\ unseen'[d] = unseen[d] \cup {h}
    BY <2>1, <2>5 DEF PastCommittedSum
  <2>7. \A g \in Holds : status'[g] = "RESERVED" => status[g] = "RESERVED"
    BY <2>3, <2>5
  <2>8. \A d \in PastCommittedSum' :
           \A g \in Holds \ unseen'[d] : /\ g \notin unseen[d]
                                         /\ status'[g] = "COMMITTED" => status[g] = "COMMITTED"
                                         /\ SettledCost'[g] = SettledCost[g]
    BY <2>3, <2>4, <2>6
  <2>9. \A d \in Callers : pc'[d] = "decide" => pc[d] = "decide"
    BY <2>5
  <2> QED BY <1>f, <1>q, <2>1, <2>6, <2>7, <2>8, <2>9
<1>8. ASSUME NEW c \in Callers, ReleaseReservation(c) PROVE MoneyInv'
  <2>1. /\ UNCHANGED <<reserved, actual, created, txn, unseen, clock>> /\ pc' = [pc EXCEPT ![c] = "idle"]
        /\ status' = [status EXCEPT ![held[c]] = IF status[held[c]] = "RESERVED" THEN "RELEASED" ELSE status[held[c]]]
    BY <1>8 DEF ReleaseReservation, Settled
  <2>2. \A h \in Holds : status'[h] = status[h] \/ status'[h] = "RELEASED"
    BY <1>t, <2>1 DEF TypeOK
  <2>3. \A d \in Callers : pc'[d] = pc[d] \/ pc'[d] = "idle"
    BY <1>t, <2>1 DEF TypeOK
  <2> QED BY <1>f, <1>s, <2>1, <2>2, <2>3
<1>10. CASE ReadStale
  BY <1>10, <1>f, <1>s DEF ReadStale
<1>11. CASE ExpireStale
  <2>1. \A h \in Holds : status'[h] = status[h] \/ status'[h] = "EXPIRED"
    BY <1>11 DEF ExpireStale
  <2> QED BY <1>11, <1>f, <1>s, <2>1 DEF ExpireStale
<1>12. ASSUME NEW cost \in Costs, RecordUsage(cost) PROVE MoneyInv'
  BY <1>12, <1>f, <1>s DEF RecordUsage
<1>13. CASE Tick
  <2>1. clock <= clock'
    BY <1>13, <1>t DEF Tick
  <2> QED BY <1>13, <1>s, <2>1 DEF Tick
<1>14. CASE UNCHANGED vars
  BY <1>14, <1>f, <1>s DEF vars
<1> QED
  BY <1>1, <1>2, <1>3, <1>4, <1>5, <1>6, <1>7, <1>8, <1>9, <1>10, <1>11, <1>12, <1>13, <1>14
  DEF Next, CallerStep, ReserveStep

\* For any callers, amounts, budget and TTL, the holds in force never exceed the daily budget
\* together: two callers cannot both be admitted on the strength of the same sums
\* (reserve_budget).
THEOREM BudgetCorrect == Spec => []BudgetInv
<1>1. MoneyInv => BudgetInv
  BY DEF MoneyInv, BudgetInv
<1> QED BY <1>1, MoneyInit, MoneyStep, PTL DEF Spec

\* Only an admission takes a caller from its decision to its call.
LEMMA OnlyAdmitCalls ==
    ASSUME TypeOK, [Next]_vars, NEW c \in Callers, pc[c] = "decide", pc'[c] = "calling"
    PROVE  \E h \in Holds : Admit(c, h)
<1>1. ASSUME NEW d \in Callers, NEW step, pc' = [pc EXCEPT ![d] = step], d # c \/ step # "calling"
      PROVE  FALSE
  BY <1>1 DEF TypeOK
<1>2. ASSUME NEW d \in Callers, CallerStep(d) PROVE \E h \in Holds : Admit(c, h)
  <2>1. ASSUME NEW cost \in Costs, NEW k \in Keys \cup {NoKey}, BeginReserve(d, cost, k) PROVE FALSE
    BY <2>1, <1>1 DEF BeginReserve, Enter
  <2>2. SumCommitted(d) => FALSE
    BY <1>1 DEF SumCommitted
  <2>3. SumEvents(d) => FALSE
    BY <1>1 DEF SumEvents
  <2>4. SumActive(d) => FALSE
    BY <1>1 DEF SumActive
  <2>5. Refuse(d) => FALSE
    BY <1>1 DEF Refuse
  <2>6. \A cost \in Costs \cup {0} : CommitReservation(d, cost) => FALSE
    BY <1>1 DEF CommitReservation, Settled
  <2>7. ReleaseReservation(d) => FALSE
    BY <1>1 DEF ReleaseReservation, Settled
  <2>8. Crash(d) => FALSE
    BY <1>1 DEF Crash
  <2>9. \A h \in Holds : Admit(d, h) => d = c
    BY <1>1 DEF Admit
  <2> QED BY <1>2, <2>1, <2>2, <2>3, <2>4, <2>5, <2>6, <2>7, <2>8, <2>9 DEF CallerStep, ReserveStep
<1>3. UNCHANGED pc => FALSE
  OBVIOUS
<1> QED BY <1>2, <1>3 DEF Next, ReadStale, ExpireStale, RecordUsage, Tick, vars

LEMMA OvershootStep ==
    ASSUME MoneyInv, [Next]_vars, NEW c \in Callers, pc[c] = "decide", pc'[c] = "calling"
    PROVE  Consumed(clock)' <= Budget + SumOver(SettledCost, unseen[c])
<1> USE NameAssumption, AmountAssumption
<1>0. TypeOK /\ TypeOK' /\ GuardInv /\ CommittedSeen /\ Budget \in Nat /\ clock \in 0 .. MaxClock
  BY TypeStep DEF MoneyInv, TypeOK
<1>1. PICK h \in Holds : Admit(c, h)
  BY <1>0, OnlyAdmitCalls
<1>2. /\ ActiveCost(clock)' <= txn[c].cost + txn[c].active
      /\ CommittedCost(clock)' = CommittedCost(clock)
      /\ txn[c].cost \in Nat /\ txn[c].active \in Nat /\ txn[c].committed \in Nat /\ txn[c].events \in Nat
      /\ ActiveCost(clock)' \in Nat /\ CommittedCost(clock) \in Nat
  BY <1>0, <1>1, AdmitAdds
<1> DEFINE C == CommittedSince(clock - Day)
           U == unseen[c]
<1>3. C \in SUBSET Holds /\ U \in SUBSET Holds /\ C \ U \in SUBSET Holds
  BY <1>0 DEF TypeOK, CommittedSince
<1> HIDE DEF C, U
<1>4. /\ IsFiniteSet(C) /\ IsFiniteSet(U) /\ Total(SettledCost, C \ U) \in Nat /\ Total(SettledCost, U) \in Nat
      /\ \A g \in C \cup U : SettledCost[g] \in Nat
  BY <1>0, <1>3, AmountsAreNat
<1>5. Total(SettledCost, C) <= Total(SettledCost, C \ U) + Total(SettledCost, U)
  BY <1>4, TotalSplit
<1>6. Total(SettledCost, C \ U) <= txn[c].committed
  BY <1>0 DEF CommittedSeen, PastCommittedSum, C, U
<1>7. CommittedCost(clock) = Total(SettledCost, C) /\ SumOver(SettledCost, unseen[c]) = Total(SettledCost, U)
  BY SumIsTotal DEF CommittedCost, C, U
<1>8. Projected(txn[c]) <= Budget
  BY <1>1 DEF Admit
<1>9. txn[c].committed + txn[c].active + txn[c].cost <= Budget
  BY <1>0, <1>2, <1>8 DEF Projected
<1>10. CommittedCost(clock) <= txn[c].committed + Total(SettledCost, U)
  BY <1>2, <1>4, <1>5, <1>6, <1>7
<1>11. CommittedCost(clock) + ActiveCost(clock)' <= Budget + Total(SettledCost, U)
  BY <1>0, <1>2, <1>4, <1>9, <1>10
<1>12. Consumed(clock)' = CommittedCost(clock) + ActiveCost(clock)'
  BY <1>2 DEF Consumed
<1> QED BY <1>7, <1>11, <1>12

\* Right after an admission, what is committed and in force exceeds the budget at most by what
\* other callers committed between the first of its sums and its insert: for any callers and
\* amounts, nothing else gets past the guard (reserve_budget at READ COMMITTED).
THEOREM OvershootCorrect == Spec => OvershootOnlyByUnseen
<1>1. MoneyInv /\ [Next]_vars =>
        \A c \in Callers :
            pc[c] = "decide" /\ pc'[c] = "calling" =>
                Consumed(clock)' <= Budget + SumOver(SettledCost, unseen[c])
  BY OvershootStep
<1> QED BY <1>1, MoneyInit, MoneyStep, PTL DEF Spec, OvershootOnlyByUnseen

=============================================================================
