-------------------------- MODULE OperationsProofs --------------------------
(***************************************************************************)
(* Proofs about the operation of the system, each part a specification of  *)
(* its own: the release control, the restore drill, the export of a        *)
(* family, the health report on the queues, a run of the extraction        *)
(* pipeline with the calls of providers, the cleanup queue, the windows of *)
(* a long recording, and the cutting and merging of its speech.  The       *)
(* constants are any that satisfy the assumption of their module.          *)
(*                                                                         *)
(* A part below has the specification, its inductive invariant where the   *)
(* property is not one itself, the start, the step with one case per       *)
(* action, and the theorem.                                                *)
(***************************************************************************)
EXTENDS StorageCleanup, ReleaseControl, RestoreDrill, FamilyExport, QueueHealth,
        ExtractionRun, Transcription, SpeechChunks, WindowMerge, Sums, SequenceTheorems

-----------------------------------------------------------------------------
(* The desired release (ReleaseControl).                                   *)

ReleaseSpec == ReleaseInit /\ [][ReleaseNext]_releaseVars

ReleaseRows == [active : Releases, previous : Releases, generation : 1..(MaxGeneration + 1)]

Requests == [op : {"none", "get", "activate", "rollback"}, to : Releases,
             at : {"idle", "read", "insert", "change"}, seen : {<<>>} \cup ReleaseRows]

ReleaseTypes ==
    /\ control \in {<<>>} \cup ReleaseRows
    /\ releaseLog \in Seq([action : {"activate", "rollback"}, from : Releases, to : Releases,
                           generation : Nat])
    /\ caller \in [Operators -> Requests]
    /\ \A t \in Operators : caller[t].at = "idle" <=> caller[t] = Idle

\* The row a request changes is the row that is there, or the first one when there is none.
SawTheRow ==
    \A t \in Operators :
       /\ caller[t].at = "change" => caller[t].seen \in ReleaseRows /\ caller[t].op # "none"
       /\ HoldsControl(t) => caller[t].seen = IF control = <<>> THEN FirstRow ELSE control

\* One transaction at a time has the row, and until it exists nobody has passed the insert.
OneHolder ==
    /\ \A t, u \in Operators : HoldsControl(t) /\ HoldsControl(u) => t = u
    /\ control = <<>> => releaseLog = <<>>

ReleaseIInv == ReleaseTypes /\ SawTheRow /\ OneHolder /\ ReleaseHistory

LEMMA RowIsNotEmpty == \A r \in ReleaseRows : r # <<>>
<1> SUFFICES ASSUME NEW r \in ReleaseRows, r = <<>> PROVE FALSE
  OBVIOUS
<1>1. "active" \in DOMAIN r
  BY DEF ReleaseRows
<1>2. DOMAIN r = {}
  OBVIOUS
<1> QED BY <1>1, <1>2

LEMMA ReleaseStart == ReleaseInit => ReleaseIInv
  BY ReleaseAssumption DEF ReleaseInit, ReleaseIInv, ReleaseTypes, SawTheRow, OneHolder, ReleaseHistory,
     HoldsControl, Idle, Requests

LEMMA FirstRowIsRow == FirstRow \in ReleaseRows
  BY ReleaseAssumption DEF FirstRow, ReleaseRows

LEMMA ReleaseStep == ReleaseIInv /\ [ReleaseNext]_releaseVars => ReleaseIInv'
<1> SUFFICES ASSUME ReleaseIInv, [ReleaseNext]_releaseVars PROVE ReleaseIInv'
  OBVIOUS
<1> USE ReleaseAssumption, RowIsNotEmpty, FirstRowIsRow
    DEF ReleaseIInv
<1>0. CASE UNCHANGED releaseVars
  BY <1>0 DEF releaseVars, ReleaseTypes, SawTheRow, OneHolder, ReleaseHistory, HoldsControl, FirstRow
<1>1. CASE Migrate
  <2>1. ReleaseTypes'
    BY <1>1 DEF Migrate, ReleaseTypes, Idle
  <2>2. SawTheRow' /\ OneHolder'
    BY <1>1 DEF Migrate, ReleaseTypes, SawTheRow, OneHolder, HoldsControl, Idle
  <2>3. ReleaseHistory'
    BY <1>1 DEF Migrate, OneHolder, ReleaseHistory, FirstRow
  <2> QED BY <2>1, <2>2, <2>3
<1>2. ASSUME NEW t \in Operators, NEW op \in {"get", "activate", "rollback"}, NEW to \in Releases,
             RequestRelease(t, op, to)
      PROVE  ReleaseIInv'
  <2>1. ReleaseTypes'
    BY <1>2 DEF RequestRelease, ReleaseTypes, Requests, Idle
  <2>2. SawTheRow' /\ OneHolder'
    BY <1>2 DEF RequestRelease, ReleaseTypes, Requests, SawTheRow, OneHolder, HoldsControl
  <2>3. ReleaseHistory'
    BY <1>2 DEF RequestRelease, ReleaseHistory
  <2> QED BY <2>1, <2>2, <2>3
<1>3. ASSUME NEW t \in Operators, GetOrCreate(t)
      PROVE  ReleaseIInv'
  <2>1. ReleaseTypes'
    BY <1>3 DEF GetOrCreate, ReleaseTypes, Requests, Idle
  <2>2. SawTheRow'
    BY <1>3 DEF GetOrCreate, ReleaseTypes, Requests, SawTheRow, HoldsControl, Idle
  <2>3. OneHolder'
    BY <1>3 DEF GetOrCreate, ReleaseTypes, Requests, OneHolder, HoldsControl
  <2>4. ReleaseHistory'
    BY <1>3 DEF GetOrCreate, ReleaseHistory
  <2> QED BY <2>1, <2>2, <2>3, <2>4
<1>4. ASSUME NEW t \in Operators, InsertControl(t)
      PROVE  ReleaseIInv'
  <2>1. ReleaseTypes'
    BY <1>4 DEF InsertControl, ReleaseTypes, Requests, Idle
  <2>2. SawTheRow'
    BY <1>4 DEF InsertControl, ReleaseTypes, Requests, SawTheRow, HoldsControl, Idle
  <2>3. OneHolder'
    BY <1>4 DEF InsertControl, ReleaseTypes, Requests, OneHolder, HoldsControl
  <2>4. ReleaseHistory'
    BY <1>4 DEF InsertControl, ReleaseHistory
  <2> QED BY <2>1, <2>2, <2>3, <2>4
\* A request that ends is idle, and lets the row go.
<1>e. ASSUME NEW t \in Operators, caller' = [caller EXCEPT ![t] = Idle]
      PROVE  /\ caller' \in [Operators -> Requests]
             /\ \A u \in Operators : caller'[u].at = "idle" <=> caller'[u] = Idle
             /\ \A u \in Operators : caller'[u].at = "change" => u # t /\ caller'[u] = caller[u]
  BY <1>e DEF ReleaseTypes, Requests, Idle
<1>l. ASSUME NEW t \in Operators, UNCHANGED <<control, releaseLog>>, caller' = [caller EXCEPT ![t] = Idle]
      PROVE  ReleaseIInv'
  <2>1. ReleaseTypes'
    BY <1>e, <1>l DEF ReleaseTypes
  <2>2. SawTheRow'
    BY <1>e, <1>l DEF SawTheRow, HoldsControl
  <2>3. OneHolder'
    <3>1. \A u \in Operators : HoldsControl(u)' => HoldsControl(u)
      BY <1>e, <1>l DEF HoldsControl
    <3> QED BY <1>l, <3>1 DEF OneHolder
  <2>4. ReleaseHistory'
    BY <1>l DEF ReleaseHistory
  <2> QED BY <2>1, <2>2, <2>3, <2>4
<1>5. ASSUME NEW t \in Operators, InsertConflict(t)
      PROVE  ReleaseIInv'
  <2>1. UNCHANGED <<control, releaseLog>> /\ caller' = [caller EXCEPT ![t] = Idle]
    BY <1>5 DEF InsertConflict
  <2> QED BY <1>l, <2>1
\* Nobody else has the row when its holder commits.
<1>c. ASSUME NEW t \in Operators, HoldsControl(t), caller' = [caller EXCEPT ![t] = Idle],
             control' \in ReleaseRows
      PROVE  /\ SawTheRow'
             /\ \A u \in Operators : ~ HoldsControl(u)'
  <2>1. \A u \in Operators : caller'[u].at = "change" => u # t /\ caller'[u] = caller[u]
    BY <1>c, <1>e
  <2>2. \A u \in Operators : ~ HoldsControl(u)'
    BY <1>c, <2>1 DEF OneHolder, HoldsControl
  <2> QED BY <2>1, <2>2 DEF SawTheRow
<1>6. ASSUME NEW t \in Operators, NEW action \in {"activate", "rollback"}, NEW to \in Releases,
             HoldsControl(t), caller[t].seen.generation <= MaxGeneration, Commit(t, action, to)
      PROVE  ReleaseIInv'
  <2> DEFINE held == caller[t].seen
             entry == [action |-> action, from |-> held.active, to |-> to, generation |-> held.generation + 1]
  <2>1. held \in ReleaseRows /\ held = IF control = <<>> THEN FirstRow ELSE control
    BY <1>6 DEF SawTheRow, HoldsControl
  <2>2. control' = [active |-> to, previous |-> held.active, generation |-> held.generation + 1]
    BY <1>6 DEF Commit
  <2>3. control' \in ReleaseRows
    BY <1>6, <2>1, <2>2 DEF ReleaseRows
  <2>4. releaseLog' = Append(releaseLog, entry)
    BY <1>6 DEF Commit
  <2>5. entry \in [action : {"activate", "rollback"}, from : Releases, to : Releases, generation : Nat]
    BY <2>1 DEF ReleaseRows
  <2>6. ReleaseTypes'
    <3>1. caller' = [caller EXCEPT ![t] = Idle]
      BY <1>6 DEF Commit
    <3>2. releaseLog' \in Seq([action : {"activate", "rollback"}, from : Releases, to : Releases,
                              generation : Nat])
      BY <2>4, <2>5 DEF ReleaseTypes
    <3> QED BY <1>e, <2>3, <3>1, <3>2 DEF ReleaseTypes
  <2>7. SawTheRow' /\ OneHolder'
    BY <1>6, <1>c, <2>3 DEF Commit, OneHolder
  <2>8. /\ held.generation = Len(releaseLog) + 1
        /\ held.active = IF Len(releaseLog) = 0 THEN CurrentRelease ELSE releaseLog[Len(releaseLog)].to
        /\ \A k \in 1..Len(releaseLog) :
              /\ releaseLog[k].from = IF k - 1 = 0 THEN CurrentRelease ELSE releaseLog[k - 1].to
              /\ releaseLog[k].generation = k + 1
    <3>1. CASE control = <<>>
      BY <2>1, <3>1 DEF OneHolder, FirstRow
    <3>2. CASE control # <<>>
      BY <2>1, <3>2 DEF ReleaseHistory
    <3> QED BY <3>1, <3>2
  <2>9. ReleaseHistory'
    <3>0. releaseLog \in Seq([action : {"activate", "rollback"}, from : Releases, to : Releases,
                              generation : Nat])
      BY DEF ReleaseTypes
    <3>1. /\ Len(releaseLog') = Len(releaseLog) + 1 /\ Len(releaseLog) \in Nat
          /\ \A k \in 1..Len(releaseLog) : releaseLog'[k] = releaseLog[k]
          /\ releaseLog'[Len(releaseLog) + 1] = entry
      BY <2>4, <2>5, <3>0
    <3> DEFINE n == Len(releaseLog)
               released(log, k) == IF k = 0 THEN CurrentRelease ELSE log[k].to
    <3>2. /\ control'.generation = n + 2 /\ control'.active = to /\ control'.previous = held.active
          /\ entry.to = to /\ entry.from = held.active /\ entry.generation = n + 2
      BY <2>2, <2>8
    <3>3. \A k \in 1..(n + 1) : /\ releaseLog'[k].from = released(releaseLog', k - 1)
                                /\ releaseLog'[k].generation = k + 1
      <4> SUFFICES ASSUME NEW k \in 1..(n + 1)
                   PROVE  /\ releaseLog'[k].from = released(releaseLog', k - 1)
                          /\ releaseLog'[k].generation = k + 1
        OBVIOUS
      <4>1. CASE k = n + 1
        BY <2>8, <3>1, <3>2, <4>1
      <4>2. CASE k # n + 1
        <5>1. k \in 1..n /\ (k - 1 # 0 => k - 1 \in 1..n)
          BY <3>1, <4>2
        <5> HIDE DEF entry, held
        <5> QED BY <2>8, <3>1, <5>1
      <4> QED BY <4>1, <4>2
    <3> HIDE DEF entry, held
    <3>4. /\ Len(releaseLog') = n + 1 /\ n + 1 # 0 /\ control'.generation = (n + 1) + 1
          /\ releaseLog'[n + 1].to = to /\ releaseLog'[n + 1].from = held.active
      BY <3>1, <3>2
    <3> QED BY <3>2, <3>3, <3>4 DEF ReleaseHistory
  <2> QED BY <2>6, <2>7, <2>9
<1>7. ASSUME NEW t \in Operators, Activate(t)
      PROVE  ReleaseIInv'
  <2>1. HoldsControl(t)
    BY <1>7 DEF Activate, HoldsControl
  <2>2. CASE caller[t].seen.active # caller[t].to
    BY <1>6, <1>7, <2>1, <2>2 DEF Activate, ReleaseTypes, Requests
  <2>3. CASE caller[t].seen.active = caller[t].to
    <3>1. control' = caller[t].seen /\ UNCHANGED releaseLog /\ caller' = [caller EXCEPT ![t] = Idle]
      BY <1>7, <2>3 DEF Activate
    <3>2. control' \in ReleaseRows /\ control' = IF control = <<>> THEN FirstRow ELSE control
      BY <2>1, <3>1 DEF SawTheRow, HoldsControl
    <3>3. ReleaseTypes' /\ SawTheRow' /\ OneHolder'
      BY <1>c, <1>e, <2>1, <3>1, <3>2 DEF ReleaseTypes, OneHolder
    <3>4. ReleaseHistory'
      BY <3>1, <3>2 DEF ReleaseHistory, OneHolder, FirstRow
    <3> QED BY <3>3, <3>4
  <2> QED BY <2>2, <2>3
<1>8. ASSUME NEW t \in Operators, RollbackRelease(t)
      PROVE  ReleaseIInv'
  <2>1. HoldsControl(t)
    BY <1>8 DEF RollbackRelease, HoldsControl
  <2>2. caller[t].seen \in ReleaseRows
    BY <1>8 DEF RollbackRelease, SawTheRow
  <2>3. caller[t].seen.previous \in Releases
    BY <2>2 DEF ReleaseRows
  <2> QED BY <1>6, <1>8, <2>1, <2>3 DEF RollbackRelease
<1>9. ASSUME NEW t \in Operators, GetState(t)
      PROVE  ReleaseIInv'
  <2>1. CASE control = <<>>
    <3>1. HoldsControl(t)
      BY <1>9, <2>1 DEF GetState, HoldsControl
    <3>2. control' = FirstRow /\ UNCHANGED releaseLog /\ caller' = [caller EXCEPT ![t] = Idle]
      BY <1>9, <2>1, <3>1 DEF GetState, SawTheRow
    <3>3. ReleaseTypes' /\ SawTheRow' /\ OneHolder'
      BY <1>c, <1>e, <3>1, <3>2 DEF ReleaseTypes, OneHolder
    <3>4. ReleaseHistory'
      BY <2>1, <3>2 DEF ReleaseHistory, OneHolder, FirstRow
    <3> QED BY <3>3, <3>4
  <2>2. CASE control # <<>>
    <3>1. UNCHANGED <<control, releaseLog>> /\ caller' = [caller EXCEPT ![t] = Idle]
      BY <1>9, <2>2 DEF GetState
    <3> QED BY <1>l, <3>1
  <2> QED BY <2>1, <2>2
<1> QED BY <1>0, <1>1, <1>2, <1>3, <1>4, <1>5, <1>7, <1>8, <1>9 DEF ReleaseNext

\* The desired release, whichever requests overlap (activate, rollback, _get_or_create): its row
\* and the decisions always tell the same history, one decision per generation, without a gap.
THEOREM ReleaseCorrect == ReleaseSpec => []ReleaseInv
<1>1. ReleaseIInv => ReleaseInv
  BY RowIsNotEmpty DEF ReleaseIInv, ReleaseInv, ReleaseTypeOK, ReleaseTypes, Requests, ReleaseRows
<1> QED BY <1>1, ReleaseStart, ReleaseStep, PTL DEF ReleaseSpec

-----------------------------------------------------------------------------
(* Backup and restore drills (RestoreDrill).                               *)

DrillSpec == DrillInit /\ [][DrillNext]_drillVars

DrillTypes ==
    /\ second \in Nat
    /\ source \in [schema : {"head", "old"}, tables : [Tables -> SUBSET (0..second)]]
    /\ restored \in [schema : {"head", "old", "none"}, tables : [Tables -> SUBSET (0..second)]]
    /\ drill \in [at : {"none", "seed_family", "seed_recording", "seed_result", "dump", "restore",
                        "verify", "PASS", "FAIL"},
                  suffix : 0..second, dump : [Tables -> SUBSET (0..second)],
                  fresh : SUBSET Tables, saw : SUBSET Tables]

\* Outside of the two seeding transactions a seeded family has its recording, in the source and
\* in what was restored from it.
SeededTogether ==
    /\ source.tables["families"] \subseteq
          source.tables["recordings"] \cup (IF drill.at = "seed_recording" THEN {drill.suffix} ELSE {})
    /\ restored.tables["families"] \cup restored.tables["recordings"] \subseteq source.tables["recordings"]

\* From the seed to the restore the target has nothing under the drill's suffix, and the dump is
\* what is in the source.
SuffixIsNew ==
    /\ drill.at \in {"seed_recording", "seed_result", "dump", "restore", "verify"} =>
          drill.suffix \in source.tables["families"]
    /\ drill.at \in {"seed_result", "dump", "restore"} =>
          /\ drill.suffix \in source.tables["recordings"]
          /\ drill.suffix \notin restored.tables["families"] \cup restored.tables["recordings"]
    /\ drill.at = "restore" => drill.dump = source.tables

\* After the restore a table is the dump's, or still without the suffix.
RestoredOrLacking ==
    drill.at = "verify" =>
       /\ drill.suffix \in source.tables["recordings"]
       /\ \A t \in {"families", "recordings"} :
             IF t \in drill.fresh THEN restored.tables[t] = source.tables[t]
             ELSE drill.suffix \notin restored.tables[t]

TargetWasSafe == drill.fresh # {} \/ drill.at \in {"verify", "PASS"} => SafeTarget(target)

DrillIInv ==
    DrillTypes /\ SeededTogether /\ SuffixIsNew /\ RestoredOrLacking /\ TargetWasSafe /\ PassSawItsOwnDump

LEMMA DrillStart == DrillInit => DrillIInv
  BY DEF DrillInit, DrillIInv, DrillTypes, SeededTogether, SuffixIsNew, RestoredOrLacking, TargetWasSafe,
     PassSawItsOwnDump, NoDrill, Tables

LEMMA Inserted ==
    ASSUME NEW T \in SUBSET Tables, NEW s \in 0..second, DrillTypes, Insert(T, s)
    PROVE  /\ source' \in [schema : {"head", "old"}, tables : [Tables -> SUBSET (0..second)]]
           /\ \A t \in Tables : source'.tables[t] = source.tables[t] \cup (IF t \in T THEN {s} ELSE {})
           /\ source'.schema = source.schema
<1>1. source' = [source EXCEPT !.tables =
                   [t \in Tables |-> source.tables[t] \cup (IF t \in T THEN {s} ELSE {})]]
  BY DEF Insert
<1>2. [t \in Tables |-> source.tables[t] \cup (IF t \in T THEN {s} ELSE {})] \in [Tables -> SUBSET (0..second)]
  BY DEF DrillTypes
<1>3. source'.tables = [t \in Tables |-> source.tables[t] \cup (IF t \in T THEN {s} ELSE {})]
  BY <1>1 DEF DrillTypes
<1> QED BY <1>1, <1>2, <1>3 DEF DrillTypes

LEMMA DrillStep == DrillIInv /\ [DrillNext]_drillVars => DrillIInv'
<1> SUFFICES ASSUME DrillIInv, [DrillNext]_drillVars PROVE DrillIInv'
  OBVIOUS
<1> USE DEF DrillIInv
<1>1. ASSUME NEW w \in SUBSET Words, NEW p \in BOOLEAN, NEW s \in {"head", "old"}, BeginDrill(w, p, s)
      PROVE  DrillIInv'
  <2>1. /\ drill'.at \in {"seed_family", "FAIL"} /\ drill'.fresh = {}
        /\ source'.tables = source.tables /\ UNCHANGED restored
    BY <1>1 DEF BeginDrill, NoDrill, DrillTypes
  <2>2. DrillTypes'
    BY <1>1 DEF BeginDrill, NoDrill, DrillTypes, Tables
  <2>3. SeededTogether'
    BY <1>1, <2>1 DEF BeginDrill, SeededTogether
  <2> QED BY <2>1, <2>2, <2>3 DEF SuffixIsNew, RestoredOrLacking, TargetWasSafe, PassSawItsOwnDump
<1>2. CASE DrillTick
  <2>1. second' \in Nat /\ 0..second \subseteq 0..second' /\ UNCHANGED <<target, source, restored, drill, drills>>
    BY <1>2 DEF DrillTick, DrillTypes
  <2>2. SUBSET (0..second) \subseteq SUBSET (0..second')
    BY <2>1
  <2>3. [Tables -> SUBSET (0..second)] \subseteq [Tables -> SUBSET (0..second')]
    BY <2>2
  <2>4. DrillTypes'
    BY <2>1, <2>3 DEF DrillTypes
  <2> QED BY <2>1, <2>4 DEF SeededTogether, SuffixIsNew, RestoredOrLacking, TargetWasSafe, PassSawItsOwnDump
<1>3. CASE SeedFamily
  <2>1. Insert({"families", "memberships"}, second) /\ {"families", "memberships"} \in SUBSET Tables
    BY <1>3 DEF SeedFamily, Suffix, Tables
  <2>2. second \in 0..second
    BY DEF DrillTypes
  <2>3. /\ source' \in [schema : {"head", "old"}, tables : [Tables -> SUBSET (0..second)]]
        /\ source'.tables["families"] = source.tables["families"] \cup {second}
        /\ source'.tables["recordings"] = source.tables["recordings"]
    <3>1. /\ source' \in [schema : {"head", "old"}, tables : [Tables -> SUBSET (0..second)]]
          /\ \A t \in Tables : source'.tables[t] = source.tables[t] \cup
                                   (IF t \in {"families", "memberships"} THEN {second} ELSE {})
      BY <2>1, <2>2, Inserted
    <3>2. {"families", "recordings"} \subseteq Tables
      BY DEF Tables
    <3> QED BY <3>1, <3>2
  <2>4. /\ drill'.at = "seed_recording" /\ drill'.suffix = second /\ drill'.fresh = drill.fresh
        /\ UNCHANGED <<target, second, restored>>
    BY <1>3 DEF SeedFamily, Suffix, DrillTypes
  <2>5. DrillTypes'
    BY <1>3, <2>2, <2>3 DEF SeedFamily, Suffix, DrillTypes
  <2>6. SeededTogether'
    BY <1>3, <2>3, <2>4 DEF SeedFamily, SeededTogether
  <2> QED BY <2>3, <2>4, <2>5, <2>6 DEF SuffixIsNew, RestoredOrLacking, TargetWasSafe, PassSawItsOwnDump
<1>4. CASE SeedRecording
  <2>1. CASE drill.suffix \in source.tables["recordings"]
    <3>1. UNCHANGED <<source, second, target, restored>> /\ drill' = [drill EXCEPT !.at = "FAIL"]
      BY <1>4, <2>1 DEF SeedRecording
    <3>2. drill'.at = "FAIL" /\ drill'.suffix = drill.suffix /\ drill'.fresh = drill.fresh
      BY <3>1 DEF DrillTypes
    <3>3. DrillTypes'
      BY <3>1 DEF DrillTypes
    <3>4. SeededTogether'
      BY <2>1, <3>1, <3>2 DEF SeededTogether
    <3> QED BY <3>1, <3>2, <3>3, <3>4 DEF SuffixIsNew, RestoredOrLacking, TargetWasSafe, PassSawItsOwnDump
  <2>2. CASE drill.suffix \notin source.tables["recordings"]
    <3>1. /\ Insert({"recordings"}, drill.suffix) /\ {"recordings"} \in SUBSET Tables
          /\ UNCHANGED <<second, target, restored>> /\ drill' = [drill EXCEPT !.at = "seed_result"]
          /\ drill.at = "seed_recording"
      BY <1>4, <2>2 DEF SeedRecording, Tables
    <3>2. drill.suffix \in 0..second
      BY DEF DrillTypes
    <3>3. /\ source' \in [schema : {"head", "old"}, tables : [Tables -> SUBSET (0..second)]]
          /\ source'.tables["recordings"] = source.tables["recordings"] \cup {drill.suffix}
          /\ source'.tables["families"] = source.tables["families"]
      <4>1. \A x \in Tables : source'.tables[x] = source.tables[x]
                                \cup (IF x \in {"recordings"} THEN {drill.suffix} ELSE {})
        BY <3>1, <3>2, Inserted
      <4>2. source' \in [schema : {"head", "old"}, tables : [Tables -> SUBSET (0..second)]]
        BY <3>1, <3>2, Inserted
      <4>3. "recordings" \in Tables /\ "families" \in Tables /\ "families" # "recordings"
        BY DEF Tables
      <4> QED BY <4>1, <4>2, <4>3
    <3>4. drill'.at = "seed_result" /\ drill'.suffix = drill.suffix /\ drill'.fresh = drill.fresh
      BY <3>1 DEF DrillTypes
    <3>5. DrillTypes'
      BY <3>1, <3>3 DEF DrillTypes
    <3>6. SeededTogether' /\ SuffixIsNew'
      BY <2>2, <3>1, <3>3, <3>4 DEF SeededTogether, SuffixIsNew
    <3> QED BY <3>1, <3>4, <3>5, <3>6 DEF RestoredOrLacking, TargetWasSafe, PassSawItsOwnDump
  <2> QED BY <2>1, <2>2
<1>5. CASE SeedResult
  <2>1. /\ Insert({"results"}, drill.suffix) /\ {"results"} \in SUBSET Tables
        /\ UNCHANGED <<second, target, restored>> /\ drill' = [drill EXCEPT !.at = "dump"]
        /\ drill.at = "seed_result"
    BY <1>5 DEF SeedResult, Tables
  <2>2. drill.suffix \in 0..second
    BY DEF DrillTypes
  <2>3. /\ source' \in [schema : {"head", "old"}, tables : [Tables -> SUBSET (0..second)]]
        /\ source'.tables["recordings"] = source.tables["recordings"]
        /\ source'.tables["families"] = source.tables["families"]
    <3>1. /\ source' \in [schema : {"head", "old"}, tables : [Tables -> SUBSET (0..second)]]
          /\ \A t \in Tables : source'.tables[t] = source.tables[t] \cup
                                   (IF t \in {"results"} THEN {drill.suffix} ELSE {})
      BY <2>1, <2>2, Inserted
    <3>2. {"families", "recordings"} \subseteq Tables
      BY DEF Tables
    <3> QED BY <3>1, <3>2
  <2>4. drill'.at = "dump" /\ drill'.suffix = drill.suffix /\ drill'.fresh = drill.fresh
    BY <2>1 DEF DrillTypes
  <2>5. DrillTypes'
    BY <2>1, <2>3 DEF DrillTypes
  <2> QED BY <2>1, <2>3, <2>4, <2>5
          DEF SeededTogether, SuffixIsNew, RestoredOrLacking, TargetWasSafe, PassSawItsOwnDump
<1>6. ASSUME NEW ok \in BOOLEAN, PgDump(ok)
      PROVE  DrillIInv'
  <2>1. /\ drill.at = "dump" /\ drill'.at \in {"restore", "FAIL"} /\ UNCHANGED <<second, target, source, restored>>
        /\ drill'.suffix = drill.suffix /\ drill'.fresh = drill.fresh
        /\ drill'.at = "restore" => drill'.dump = source.tables
    BY <1>6 DEF PgDump, DrillTypes
  <2>2. DrillTypes'
    BY <1>6 DEF PgDump, DrillTypes
  <2> QED BY <2>1, <2>2 DEF SeededTogether, SuffixIsNew, RestoredOrLacking, TargetWasSafe, PassSawItsOwnDump
<1>7. ASSUME NEW code \in 0..2, NEW left \in SUBSET {"schema", "families", "recordings"},
             NEW lost \in SUBSET {"schema", "families", "recordings"}, PgRestore(code, left, lost)
      PROVE  DrillIInv'
  <2> DEFINE done == (Tables \cup {"schema"}) \ (left \cup lost)
             rows == [t \in Tables |-> CASE t \in done -> drill.dump[t]
                                         [] t \in left -> restored.tables[t]
                                         [] OTHER -> {}]
             schema == CASE "schema" \in done -> source.schema
                         [] "schema" \in left -> restored.schema
                         [] OTHER -> "none"
  <2>0. drill.at = "restore" /\ UNCHANGED <<second, target, source>>
    BY <1>7 DEF PgRestore
  <2>1. CASE ~ SafeTarget(target)
    <3>1. drill' = [drill EXCEPT !.at = "FAIL"] /\ UNCHANGED restored
      BY <1>7, <2>1 DEF PgRestore
    <3>2. drill'.at = "FAIL" /\ drill'.suffix = drill.suffix /\ drill'.fresh = drill.fresh
      BY <3>1 DEF DrillTypes
    <3>3. DrillTypes'
      BY <2>0, <3>1 DEF DrillTypes
    <3> QED BY <2>0, <3>1, <3>2, <3>3
            DEF SeededTogether, SuffixIsNew, RestoredOrLacking, TargetWasSafe, PassSawItsOwnDump
  <2>2. CASE SafeTarget(target)
    <3>1. /\ restored' = [schema |-> schema, tables |-> rows]
          /\ drill' = [drill EXCEPT !.at = IF code > 1 THEN "FAIL" ELSE "verify", !.fresh = done \ {"schema"}]
      BY <1>7, <2>2 DEF PgRestore
    <3>2. schema \in {"head", "old", "none"}
      BY DEF DrillTypes
    <3>3. rows \in [Tables -> SUBSET (0..second)]
      BY DEF DrillTypes
    <3>4. /\ drill'.at \in {"verify", "FAIL"} /\ drill'.suffix = drill.suffix /\ drill'.fresh = done \ {"schema"}
      BY <3>1 DEF DrillTypes
    <3>5. done \ {"schema"} \in SUBSET Tables
      OBVIOUS
    <3>6. restored'.tables = rows /\ restored' \in [schema : {"head", "old", "none"}, tables : [Tables -> SUBSET (0..second)]]
      BY <3>1, <3>2, <3>3
    <3>7. DrillTypes'
      BY <2>0, <3>1, <3>5, <3>6 DEF DrillTypes
    <3>8. \A t \in {"families", "recordings"} :
             /\ t \in Tables
             /\ rows[t] \in {source.tables[t], restored.tables[t], {}}
             /\ t \in done => rows[t] = source.tables[t]
             /\ t \notin done => rows[t] \in {restored.tables[t], {}}
      BY <2>0 DEF SuffixIsNew, Tables
    <3> HIDE DEF rows, done
    <3>9. SeededTogether'
      BY <2>0, <3>4, <3>6, <3>8 DEF SeededTogether
    <3>10. SuffixIsNew' /\ RestoredOrLacking'
      BY <2>0, <3>4, <3>6, <3>8 DEF SuffixIsNew, RestoredOrLacking
    <3> QED BY <2>0, <2>2, <3>4, <3>7, <3>9, <3>10 DEF TargetWasSafe, PassSawItsOwnDump
  <2> QED BY <2>1, <2>2
<1>8. ASSUME NEW intact \in BOOLEAN, Verify(intact)
      PROVE  DrillIInv'
  <2>1. /\ drill.at = "verify" /\ UNCHANGED <<second, target, source, restored>>
        /\ drill'.suffix = drill.suffix /\ drill'.fresh = drill.fresh
        /\ drill'.at \in {"PASS", "FAIL"}
        /\ drill'.at = "PASS" => Verified /\ drill'.saw = {"families", "recordings"}
    BY <1>8 DEF Verify, DrillTypes
  <2>2. DrillTypes'
    BY <1>8 DEF Verify, DrillTypes, Tables
  <2>3. drill'.at = "PASS" =>
           /\ {"families", "recordings"} \subseteq drill.fresh
           /\ drill.suffix \in source.tables["families"] \cap source.tables["recordings"]
           /\ restored.tables["families"] = source.tables["families"]
    BY <2>1 DEF Verified, RestoredOrLacking, SuffixIsNew
  <2>4. PassSawItsOwnDump'
    BY <2>1, <2>3 DEF PassSawItsOwnDump, Verified
  <2> QED BY <2>1, <2>2, <2>4 DEF SeededTogether, SuffixIsNew, RestoredOrLacking, TargetWasSafe
<1>9. CASE UNCHANGED drillVars
  BY <1>9 DEF drillVars, DrillTypes, SeededTogether, SuffixIsNew, RestoredOrLacking, TargetWasSafe,
              PassSawItsOwnDump
<1> QED BY <1>1, <1>2, <1>3, <1>4, <1>5, <1>6, <1>7, <1>8, <1>9 DEF DrillNext

\* A drill that passes has seen what its own dump restored, whatever earlier drills left in the
\* target and whatever part of the restore failed, and no drill restored into a database that may
\* be production's (seed_verification_dataset, run_pg_restore, verify_restored_database).
THEOREM DrillCorrect == DrillSpec => []DrillInv
<1>1. DrillIInv => DrillInv
  <2> SUFFICES ASSUME DrillIInv PROVE DrillInv
    OBVIOUS
  <2>1. DrillTypeOK
    BY DEF DrillIInv, DrillTypes, DrillTypeOK
  <2> QED BY <2>1 DEF DrillIInv, DrillInv, TargetWasSafe, SafeTarget, OnlySafeTargets
<1> QED BY <1>1, DrillStart, DrillStep, PTL DEF DrillSpec

-----------------------------------------------------------------------------
(* The export of a family (FamilyExport).                                  *)

ExportSpec == ExportInit /\ [][ExportNext]_exportVars

AnyRows == SUBSET (Recorded \cup Written)

ExportTypes ==
    /\ position \in 0..7
    /\ tables \in [ExportTables -> AnyRows]
    /\ read \in [ExportTables -> AnyRows]
    /\ stable \in [ExportTables -> AnyRows]

\* Results have their recording and chapters their book, in the tables at any time and in what
\* has been there since the export began.
PartsHaveWhole ==
    /\ tables["results"] \subseteq tables["recordings"] /\ tables["chapters"] \subseteq tables["books"]
    /\ stable["results"] \subseteq stable["recordings"] /\ stable["chapters"] \subseteq stable["books"]
    /\ \A t \in ExportTables : stable[t] \subseteq tables[t]

\* A table that was queried: what has been in it all along was read.
ReadSoFar ==
    /\ \A i \in 1..6 : i < position => stable[QueryOrder[i]] \cap Ours \subseteq read[QueryOrder[i]]
    /\ read["results"] \subseteq read["recordings"] /\ read["chapters"] \subseteq read["books"]
    /\ \A i \in 1..6 : position <= i => read[QueryOrder[i]] = {}

ExportIInv == ExportTypes /\ PartsHaveWhole /\ ReadSoFar /\ OnlyThisFamily

LEMMA QueriedTables ==
    /\ ExportTables = {"recordings", "results", "claims", "decisions", "books", "chapters"}
    /\ QueryOrder[1] = "recordings" /\ QueryOrder[2] = "results" /\ QueryOrder[3] = "claims"
    /\ QueryOrder[4] = "decisions" /\ QueryOrder[5] = "books" /\ QueryOrder[6] = "chapters"
    /\ DOMAIN QueryOrder = 1..6 /\ Len(QueryOrder) = 6
<1>1. DOMAIN QueryOrder = 1..6 /\ Len(QueryOrder) = 6
  BY DEF QueryOrder
<1>2. /\ QueryOrder[1] = "recordings" /\ QueryOrder[2] = "results" /\ QueryOrder[3] = "claims"
      /\ QueryOrder[4] = "decisions" /\ QueryOrder[5] = "books" /\ QueryOrder[6] = "chapters"
  BY DEF QueryOrder
<1>3. \A i \in 1..6 : i \in {1, 2, 3, 4, 5, 6}
  OBVIOUS
<1>4. 1 \in 1..6 /\ 2 \in 1..6 /\ 3 \in 1..6 /\ 4 \in 1..6 /\ 5 \in 1..6 /\ 6 \in 1..6
  OBVIOUS
<1>5. ExportTables = {"recordings", "results", "claims", "decisions", "books", "chapters"}
  <2>1. ASSUME NEW t \in ExportTables
        PROVE  t \in {"recordings", "results", "claims", "decisions", "books", "chapters"}
    BY <1>1, <1>2, <1>3 DEF ExportTables
  <2>2. ASSUME NEW t \in {"recordings", "results", "claims", "decisions", "books", "chapters"}
        PROVE  t \in ExportTables
    BY <1>1, <1>2, <1>4 DEF ExportTables
  <2> QED BY <2>1, <2>2
<1> QED BY <1>1, <1>2, <1>5

LEMMA ExportStart == ExportInit => ExportIInv
<1> SUFFICES ASSUME ExportInit PROVE ExportIInv
  OBVIOUS
<1>1. /\ Nothing \in [ExportTables -> AnyRows] /\ \A t \in ExportTables : Nothing[t] = {}
      /\ {OtherRecordings, OtherBooks} \subseteq AnyRows
  BY DEF Nothing, AnyRows, Recorded, Written
<1>2. \A i \in 1..6 : QueryOrder[i] \in ExportTables
  BY QueriedTables DEF ExportTables
<1>3. ExportTypes
  BY <1>1, QueriedTables DEF ExportInit, ExportTypes
<1>4. PartsHaveWhole
  BY <1>1, QueriedTables DEF ExportInit, PartsHaveWhole
<1>5. ReadSoFar /\ OnlyThisFamily
  BY <1>1, <1>2, QueriedTables DEF ExportInit, ReadSoFar, OnlyThisFamily
<1> QED BY <1>3, <1>4, <1>5 DEF ExportIInv

\* A write that keeps the parts with their whole.
LEMMA StoreKeeps ==
    ASSUME ExportIInv, NEW new \in [ExportTables -> AnyRows], Store(new),
           new["results"] \subseteq new["recordings"], new["chapters"] \subseteq new["books"]
    PROVE  ExportIInv'
<1>1. /\ tables' = new /\ UNCHANGED <<position, read>>
      /\ stable' = [t \in ExportTables |-> stable[t] \cap new[t]]
  BY DEF Store
<1>2. \A t \in ExportTables : stable'[t] = stable[t] \cap new[t]
  BY <1>1
<1>3. ExportTypes'
  <2>1. \A t \in ExportTables : stable[t] \cap new[t] \in AnyRows
    BY DEF ExportIInv, ExportTypes, AnyRows
  <2> QED BY <1>1, <2>1 DEF ExportIInv, ExportTypes
<1>4. PartsHaveWhole'
  BY <1>1, <1>2, QueriedTables DEF ExportIInv, PartsHaveWhole
<1>5. ReadSoFar' /\ OnlyThisFamily'
  <2>1. \A i \in 1..6 : QueryOrder[i] \in ExportTables
    BY QueriedTables DEF ExportTables
  <2> QED BY <1>1, <1>2, <2>1 DEF ExportIInv, ReadSoFar, OnlyThisFamily
<1> QED BY <1>3, <1>4, <1>5 DEF ExportIInv

LEMMA ExportStep == ExportIInv /\ [ExportNext]_exportVars => ExportIInv'
<1> SUFFICES ASSUME ExportIInv, [ExportNext]_exportVars PROVE ExportIInv'
  OBVIOUS
<1> USE DEF ExportIInv
<1>0. /\ tables \in [ExportTables -> AnyRows]
      /\ tables["results"] \subseteq tables["recordings"] /\ tables["chapters"] \subseteq tables["books"]
      /\ \A x \in Recorded \cup Written : {x} \in AnyRows
      /\ ExportedRecordings \subseteq Recorded \cup Written /\ ExportedBooks \subseteq Recorded \cup Written
  BY DEF ExportTypes, PartsHaveWhole, AnyRows, Recorded, Written
<1>1. ASSUME NEW x \in Recorded \cup Written,
             UploadRecording(x) \/ CompleteRecording(x) \/ DecideClaims(x) \/ DeleteRecordingRows(x)
      PROVE  ExportIInv'
  <2> USE <1>0, QueriedTables DEF AnyRows
  <2>1. CASE UploadRecording(x)
    <3> DEFINE new == [tables EXCEPT !["recordings"] = @ \cup {x}]
    <3>1. Store(new)
      BY <2>1 DEF UploadRecording
    <3>2. new \in [ExportTables -> AnyRows]
      OBVIOUS
    <3>3. new["results"] \subseteq new["recordings"] /\ new["chapters"] \subseteq new["books"]
      OBVIOUS
    <3> HIDE DEF new
    <3> QED BY <3>1, <3>2, <3>3, StoreKeeps
  <2>2. CASE CompleteRecording(x)
    <3> DEFINE new == [tables EXCEPT !["results"] = @ \cup {x}, !["claims"] = @ \cup {x}]
    <3>1. Store(new) /\ x \in tables["recordings"]
      BY <2>2 DEF CompleteRecording
    <3>2. new \in [ExportTables -> AnyRows]
      OBVIOUS
    <3>3. new["results"] \subseteq new["recordings"] /\ new["chapters"] \subseteq new["books"]
      BY <3>1
    <3> HIDE DEF new
    <3> QED BY <3>1, <3>2, <3>3, StoreKeeps
  <2>3. CASE DecideClaims(x)
    <3> DEFINE new == [tables EXCEPT !["decisions"] = @ \cup {x}]
    <3>1. Store(new)
      BY <2>3 DEF DecideClaims
    <3>2. new \in [ExportTables -> AnyRows]
      OBVIOUS
    <3>3. new["results"] \subseteq new["recordings"] /\ new["chapters"] \subseteq new["books"]
      OBVIOUS
    <3> HIDE DEF new
    <3> QED BY <3>1, <3>2, <3>3, StoreKeeps
  <2>4. CASE DeleteRecordingRows(x)
    <3> DEFINE new == [tables EXCEPT !["recordings"] = @ \ {x}, !["results"] = @ \ {x}, !["claims"] = @ \ {x}]
    <3>1. Store(new)
      BY <2>4 DEF DeleteRecordingRows
    <3>2. new \in [ExportTables -> AnyRows]
      OBVIOUS
    <3>3. new["results"] \subseteq new["recordings"] /\ new["chapters"] \subseteq new["books"]
      OBVIOUS
    <3> HIDE DEF new
    <3> QED BY <3>1, <3>2, <3>3, StoreKeeps
  <2> QED BY <1>1, <2>1, <2>2, <2>3, <2>4
<1>2. ASSUME NEW x \in Recorded \cup Written, CreateBookRow(x) \/ WriteChapter(x) \/ DeleteBookRows(x)
      PROVE  ExportIInv'
  <2> USE <1>0, QueriedTables DEF AnyRows
  <2>1. CASE CreateBookRow(x)
    <3> DEFINE new == [tables EXCEPT !["books"] = @ \cup {x}]
    <3>1. Store(new)
      BY <2>1 DEF CreateBookRow
    <3>2. new \in [ExportTables -> AnyRows]
      OBVIOUS
    <3>3. new["results"] \subseteq new["recordings"] /\ new["chapters"] \subseteq new["books"]
      OBVIOUS
    <3> HIDE DEF new
    <3> QED BY <3>1, <3>2, <3>3, StoreKeeps
  <2>2. CASE WriteChapter(x)
    <3> DEFINE new == [tables EXCEPT !["chapters"] = @ \cup {x}]
    <3>1. Store(new) /\ x \in tables["books"]
      BY <2>2 DEF WriteChapter
    <3>2. new \in [ExportTables -> AnyRows]
      OBVIOUS
    <3>3. new["results"] \subseteq new["recordings"] /\ new["chapters"] \subseteq new["books"]
      BY <3>1
    <3> HIDE DEF new
    <3> QED BY <3>1, <3>2, <3>3, StoreKeeps
  <2>3. CASE DeleteBookRows(x)
    <3> DEFINE new == [tables EXCEPT !["books"] = @ \ {x}, !["chapters"] = @ \ {x}]
    <3>1. Store(new)
      BY <2>3 DEF DeleteBookRows
    <3>2. new \in [ExportTables -> AnyRows]
      OBVIOUS
    <3>3. new["results"] \subseteq new["recordings"] /\ new["chapters"] \subseteq new["books"]
      OBVIOUS
    <3> HIDE DEF new
    <3> QED BY <3>1, <3>2, <3>3, StoreKeeps
  <2> QED BY <1>2, <2>1, <2>2, <2>3
<1>t. \A i \in 1..6 : QueryOrder[i] \in ExportTables
  BY QueriedTables DEF ExportTables
<1>3. CASE StartExport
  <2>1. /\ position = 0 /\ position' = 1 /\ read' = Nothing /\ stable' = tables /\ UNCHANGED tables
        /\ \A t \in ExportTables : Nothing[t] = {}
    BY <1>3 DEF StartExport, Nothing
  <2>2. ExportTypes'
    BY <2>1 DEF ExportTypes, Nothing, AnyRows
  <2>3. PartsHaveWhole'
    BY <2>1 DEF PartsHaveWhole
  <2>4. ReadSoFar' /\ OnlyThisFamily'
    BY <1>t, <2>1, QueriedTables DEF ReadSoFar, OnlyThisFamily
  <2> QED BY <2>2, <2>3, <2>4
<1>4. CASE RunQuery
  <2> DEFINE table == QueryOrder[position]
             rows == CASE table = "results" -> ResultRows(read)
                       [] table = "chapters" -> BookParts(read)
                       [] OTHER -> FamilyRows(table, read)
  <2>1. /\ position \in 1..6 /\ read' = [read EXCEPT ![table] = rows] /\ position' = position + 1
        /\ UNCHANGED <<tables, stable>>
    BY <1>4, QueriedTables DEF RunQuery
  <2>2. table \in ExportTables
    BY <1>t, <2>1
  <2>3. /\ rows \subseteq Ours /\ rows \subseteq tables[table]
        /\ table = "results" => rows \subseteq read["recordings"]
        /\ table = "chapters" => rows \subseteq read["books"]
    BY <2>2, QueriedTables DEF ResultRows, BookParts, FamilyRows, OnlyThisFamily
  <2>4. stable[table] \cap Ours \subseteq rows
    <3>1. stable[table] \subseteq tables[table]
      BY <2>2 DEF PartsHaveWhole
    <3>2. CASE table = "results"
      <4>1. position = 2
        BY <2>1, <3>2, QueriedTables
      <4>2. stable["recordings"] \cap Ours \subseteq read["recordings"]
        BY <4>1, QueriedTables DEF ReadSoFar
      <4> QED BY <3>1, <3>2, <4>2 DEF PartsHaveWhole, ResultRows
    <3>3. CASE table = "chapters"
      <4>1. position = 6
        BY <2>1, <3>3, QueriedTables
      <4>2. stable["books"] \cap Ours \subseteq read["books"]
        BY <4>1, QueriedTables DEF ReadSoFar
      <4> QED BY <3>1, <3>3, <4>2 DEF PartsHaveWhole, BookParts
    <3>4. CASE table \notin {"results", "chapters"}
      BY <3>1, <3>4 DEF FamilyRows
    <3> QED BY <3>2, <3>3, <3>4
  <2>5. /\ read'[table] = rows
        /\ \A t \in ExportTables : t # table => read'[t] = read[t]
    BY <2>1, <2>2 DEF ExportTypes
  <2>6. \A i \in 1..6 : i # position => QueryOrder[i] # table
    BY <2>1, QueriedTables
  <2> HIDE DEF rows, table
  <2>7. ExportTypes'
    BY <2>1, <2>2, <2>3 DEF ExportTypes, AnyRows
  <2>8. PartsHaveWhole' /\ OnlyThisFamily'
    BY <2>1, <2>2, <2>3, <2>5 DEF PartsHaveWhole, OnlyThisFamily
  <2>9. ReadSoFar'
    <3>1. \A i \in 1..6 : i < position' => stable'[QueryOrder[i]] \cap Ours \subseteq read'[QueryOrder[i]]
      <4> SUFFICES ASSUME NEW i \in 1..6, i < position'
                   PROVE  stable[QueryOrder[i]] \cap Ours \subseteq read'[QueryOrder[i]]
        BY <2>1
      <4>1. CASE i = position
        BY <2>4, <2>5, <4>1 DEF table
      <4>2. CASE i # position
        BY <1>t, <2>1, <2>5, <2>6, <4>2 DEF ReadSoFar
      <4> QED BY <4>1, <4>2
    <3>2. \A i \in 1..6 : position' <= i => read'[QueryOrder[i]] = {}
      BY <1>t, <2>1, <2>5, <2>6 DEF ReadSoFar
    <3>3. read'["results"] \subseteq read'["recordings"]
      <4>1. CASE position = 1
        BY <2>1, <2>5, <2>6, <4>1, QueriedTables DEF ReadSoFar
      <4>2. CASE position # 1
        BY <2>1, <2>3, <2>5, <2>6, <4>2, QueriedTables DEF ReadSoFar
      <4> QED BY <4>1, <4>2
    <3>4. read'["chapters"] \subseteq read'["books"]
      <4>1. CASE position = 5
        BY <2>1, <2>5, <2>6, <4>1, QueriedTables DEF ReadSoFar
      <4>2. CASE position # 5
        BY <2>1, <2>3, <2>5, <2>6, <4>2, QueriedTables DEF ReadSoFar
      <4> QED BY <4>1, <4>2
    <3> QED BY <3>1, <3>2, <3>3, <3>4 DEF ReadSoFar
  <2> QED BY <2>7, <2>8, <2>9
<1>5. CASE UNCHANGED exportVars
  BY <1>5 DEF exportVars, ExportTypes, PartsHaveWhole, ReadSoFar, OnlyThisFamily
<1> QED BY <1>0, <1>1, <1>2, <1>3, <1>4, <1>5 DEF ExportNext, Recorded, Written

\* An export holds rows of its family only, and everything that stood still while it ran, with its
\* results, evidence and chapters, for any recordings and books and any writes between its queries
\* (export_family_data).
THEOREM ExportCorrect == ExportSpec => []ExportInv
<1>1. ExportIInv => ExportInv
  <2> SUFFICES ASSUME ExportIInv PROVE ExportInv
    OBVIOUS
  <2>1. ExportTypeOK
    BY QueriedTables DEF ExportIInv, ExportTypes, ExportTypeOK, AnyRows
  <2>2. StableIsExported
    <3> SUFFICES ASSUME position = 7
                 PROVE  /\ \A t \in ExportTables : stable[t] \cap Ours \subseteq read[t]
                        /\ stable["results"] \cap Ours \subseteq EvidenceEntries
                        /\ (stable["claims"] \cup stable["decisions"]) \cap Ours \subseteq ArchiveEntries
                        /\ \A b \in stable["chapters"] \cap Ours : [book |-> b, parts |-> TRUE] \in BookEntries
                        /\ ObjectManifest \subseteq read["recordings"] \cup read["books"]
      BY QueriedTables DEF StableIsExported, Exported
    <3>1. \A t \in ExportTables : stable[t] \cap Ours \subseteq read[t]
      <4>1. \A i \in 1..6 : stable[QueryOrder[i]] \cap Ours \subseteq read[QueryOrder[i]]
        BY DEF ExportIInv, ReadSoFar
      <4> QED BY <4>1, QueriedTables DEF ExportTables
    <3>2. /\ stable["results"] \cap Ours \subseteq read["results"]
          /\ stable["claims"] \cap Ours \subseteq read["claims"]
          /\ stable["decisions"] \cap Ours \subseteq read["decisions"]
          /\ stable["chapters"] \cap Ours \subseteq read["chapters"]
      BY <3>1, QueriedTables
    <3>3. read["results"] \subseteq read["recordings"] /\ read["chapters"] \subseteq read["books"]
      BY DEF ExportIInv, ReadSoFar
    <3>4. ASSUME NEW r \in read["results"]
          PROVE  r \in EvidenceEntries
      <4> DEFINE e == [recording |-> r, result |-> r \in read["results"]]
      <4>1. e \in RecordingEntries
        BY <3>3, <3>4 DEF RecordingEntries
      <4>2. e.result /\ e.recording = r
        BY <3>4
      <4> HIDE DEF e
      <4> QED BY <4>1, <4>2 DEF EvidenceEntries
    <3>5. ASSUME NEW b \in read["chapters"]
          PROVE  [book |-> b, parts |-> TRUE] \in BookEntries
      <4>1. [book |-> b, parts |-> b \in read["chapters"]] \in BookEntries
        BY <3>3, <3>5 DEF BookEntries
      <4>2. (b \in read["chapters"]) = TRUE
        BY <3>5
      <4> QED BY <4>1, <4>2
    <3> QED BY <3>1, <3>2, <3>3, <3>4, <3>5 DEF ArchiveEntries, ObjectManifest
  <2> QED BY <2>1, <2>2 DEF ExportIInv, ExportInv
<1> QED BY <1>1, ExportStart, ExportStep, PTL DEF ExportSpec

-----------------------------------------------------------------------------
(* What the monitoring says of a queue (QueueHealth).                      *)

HealthSpec == HealthInit /\ [][HealthNext]_healthVars

JobStates == {"none", "queued", "running", "completed", "failed", "cancelled"}

JobRows == [status : JobStates, created : Int, lease : Int, attempts : Nat, due : Int]

\* A live worker's job is running, and its lease has time left.
HealthIInv ==
    /\ queue \in {"none", "recording", "book", "cleanup"} /\ now \in Nat
    /\ jobs \in [JobIds -> JobRows]
    /\ alive \subseteq JobIds
    /\ \A i \in alive : jobs[i].status = "running" /\ jobs[i].lease > now

LEMMA NoJobIsRow == NoJob \in JobRows
<1>1. -1 \in Int
  OBVIOUS
<1> QED BY <1>1 DEF NoJob, JobRows, JobStates

LEMMA HealthStart == HealthInit => HealthIInv
  BY NoJobIsRow DEF HealthInit, HealthIInv

LEMMA HealthStepKeeps == HealthIInv /\ [HealthNext]_healthVars => HealthIInv'
<1> SUFFICES ASSUME HealthIInv, [HealthNext]_healthVars PROVE HealthIInv'
  OBVIOUS
<1> USE HealthAssumption
<1>t. /\ queue \in {"none", "recording", "book", "cleanup"} /\ now \in Nat /\ LeaseTime \in Nat /\ LeaseTime > 0
      /\ jobs \in [JobIds -> JobRows] /\ alive \subseteq JobIds
      /\ \A i \in alive : jobs[i].status = "running" /\ jobs[i].lease > now
  BY DEF HealthIInv
<1>j. \A i \in JobIds : /\ jobs[i] \in JobRows /\ jobs[i].status \in JobStates /\ jobs[i].created \in Int
                        /\ jobs[i].lease \in Int /\ jobs[i].attempts \in Nat /\ jobs[i].due \in Int
  BY <1>t DEF JobRows
<1>0. CASE UNCHANGED healthVars
  BY <1>0, <1>t DEF healthVars, HealthIInv
\* One row changes.
<1>r. ASSUME NEW i \in JobIds, NEW item \in JobRows, jobs' = [jobs EXCEPT ![i] = item], UNCHANGED <<queue, now>>,
             alive' \subseteq JobIds, \A k \in alive' : k = i \/ k \in alive,
             i \in alive' => item.status = "running" /\ item.lease > now
      PROVE  HealthIInv'
  <2>1. jobs' \in [JobIds -> JobRows] /\ jobs'[i] = item /\ \A k \in JobIds \ {i} : jobs'[k] = jobs[k]
    BY <1>r, <1>t
  <2>2. \A k \in alive' : jobs'[k].status = "running" /\ jobs'[k].lease > now
    BY <1>r, <1>t, <2>1
  <2> QED BY <1>r, <1>t, <2>1, <2>2 DEF HealthIInv
<1>1. ASSUME NEW q \in {"recording", "book", "cleanup"}, Watch(q) PROVE HealthIInv'
  BY <1>1, <1>t DEF Watch, HealthIInv
<1>2. ASSUME NEW i \in JobIds, EnqueueJob(i) PROVE HealthIInv'
  <2> DEFINE item == [NoJob EXCEPT !.status = "queued", !.created = now, !.due = now]
  <2>1. item \in JobRows
    <3>1. NoJob \in [status : JobStates, created : Int, lease : Int, attempts : Nat, due : Int]
      BY NoJobIsRow DEF JobRows
    <3>2. now \in Int /\ "queued" \in JobStates
      BY <1>t DEF JobStates
    <3> QED BY ONLY <3>1, <3>2 DEF JobRows
  <2>2. jobs' = [jobs EXCEPT ![i] = item] /\ UNCHANGED <<queue, now, alive>> /\ jobs[i].status = "none"
    BY <1>2 DEF EnqueueJob
  <2>3. i \notin alive
    BY <1>t, <2>2
  <2> HIDE DEF item
  <2> QED BY <1>r, <1>t, <2>1, <2>2, <2>3
<1>3. ASSUME NEW i \in JobIds, ClaimJob(i) PROVE HealthIInv'
  <2> DEFINE item == [jobs[i] EXCEPT !.status = "running", !.lease = now + LeaseTime,
                                    !.attempts = jobs[i].attempts + 1]
  <2>1. item \in JobRows /\ item.status = "running" /\ item.lease = now + LeaseTime
    <3>1. jobs[i].attempts + 1 \in Nat /\ now + LeaseTime \in Int
      BY <1>j, <1>t
    <3>2. jobs[i] \in [status : JobStates, created : Int, lease : Int, attempts : Nat, due : Int]
      BY <1>j DEF JobRows
    <3> QED BY <3>1, <3>2 DEF JobRows, JobStates
  <2>2. jobs' = [jobs EXCEPT ![i] = item] /\ UNCHANGED <<queue, now>> /\ alive' = alive \cup {i}
    BY <1>3, <1>t, <1>j DEF ClaimJob, JobRows
  <2>3. item.lease > now
    BY <1>t, <2>1
  <2> HIDE DEF item
  <2> QED BY <1>r, <1>t, <2>1, <2>2, <2>3
<1>4. ASSUME NEW i \in JobIds, NEW s \in {"queued", "completed", "failed"},
             EndJob(i, s, IF s = "queued" THEN now + 1 ELSE 0)
      PROVE  HealthIInv'
  <2> DEFINE due == IF s = "queued" THEN now + 1 ELSE 0
  <2>0. due \in Int /\ -1 \in Int
    BY <1>t
  <2>1. EndJob(i, s, due)
    BY <1>4
  <2> HIDE DEF due
  <2> DEFINE item == [jobs[i] EXCEPT !.status = s, !.lease = -1, !.due = due]
  <2>2. item \in JobRows
    BY <1>j, <2>0 DEF JobRows, JobStates
  <2>3. jobs' = [jobs EXCEPT ![i] = item] /\ UNCHANGED <<queue, now>> /\ alive' = alive \ {i}
    BY <1>t, <1>j, <2>1 DEF EndJob, JobRows
  <2> HIDE DEF item
  <2> QED BY <1>r, <1>t, <2>2, <2>3
<1>5. ASSUME NEW i \in JobIds, CancelJob(i) PROVE HealthIInv'
  <2> DEFINE item == [jobs[i] EXCEPT !.status = "cancelled"]
  <2>1. item \in JobRows
    BY <1>j DEF JobRows, JobStates
  <2>2. jobs' = [jobs EXCEPT ![i] = item] /\ UNCHANGED <<queue, now, alive>> /\ jobs[i].status = "queued"
    BY <1>5, <1>t, <1>j DEF CancelJob, JobRows
  <2>3. i \notin alive
    BY <1>t, <2>2
  <2> HIDE DEF item
  <2> QED BY <1>r, <1>t, <2>1, <2>2, <2>3
<1>6. ASSUME NEW i \in JobIds, WorkerDies(i) PROVE HealthIInv'
  BY <1>6, <1>t DEF WorkerDies, HealthIInv
<1>7. CASE TimePasses
  <2>1. PICK renewed \in SUBSET alive :
           /\ \A i \in alive \ renewed : jobs[i].lease > now + 1
           /\ jobs' = [i \in JobIds |-> IF i \in renewed
                                        THEN [jobs[i] EXCEPT !.lease = now + 1 + LeaseTime]
                                        ELSE jobs[i]]
    BY <1>7 DEF TimePasses
  <2>2. now' = now + 1 /\ UNCHANGED <<queue, alive>>
    BY <1>7 DEF TimePasses
  <2>3. \A i \in JobIds :
           /\ [jobs[i] EXCEPT !.lease = now + 1 + LeaseTime] \in JobRows
           /\ [jobs[i] EXCEPT !.lease = now + 1 + LeaseTime].lease = now + 1 + LeaseTime
           /\ [jobs[i] EXCEPT !.lease = now + 1 + LeaseTime].status = jobs[i].status
    BY <1>j, <1>t DEF JobRows
  <2>4. jobs' \in [JobIds -> JobRows]
    BY <1>j, <2>1, <2>3
  <2>5. \A i \in alive : jobs'[i].status = "running" /\ jobs'[i].lease > now + 1
    <3> SUFFICES ASSUME NEW i \in alive PROVE jobs'[i].status = "running" /\ jobs'[i].lease > now + 1
      OBVIOUS
    <3>1. CASE i \in renewed
      BY <1>t, <2>1, <2>3, <3>1
    <3>2. CASE i \notin renewed
      BY <1>t, <2>1, <3>2
    <3> QED BY <3>1, <3>2
  <2> QED BY <1>t, <2>2, <2>4, <2>5 DEF HealthIInv
<1> QED BY <1>0, <1>1, <1>2, <1>3, <1>4, <1>5, <1>6, <1>7 DEF HealthNext

\* The first of the rows a query finds is in its answer.
LEMMA LimitedHasFirst ==
    ASSUME NEW S \in SUBSET JobIds, NEW i \in S
    PROVE  \E j \in Limited(S) : j <= i /\ j \in S
<1> USE HealthAssumption
<1>1. PICK m \in S : \A n \in S : m <= n
  BY LeastNumber
<1>2. {j \in S : j < m} = {}
  <2>1. \A j \in S : j \in Nat /\ m \in Nat /\ m <= j
    BY <1>1
  <2>2. \A j \in S : ~ (j < m)
    BY <2>1
  <2> QED BY <2>2
<1>3. Cardinality({j \in S : j < m}) = 0
  BY <1>2, FS_EmptySet
<1>4. m \in Limited(S)
  BY <1>3 DEF Limited
<1> QED BY <1>1, <1>4

LEMMA StalledReported == HealthIInv => StalledIsReported
<1> SUFFICES ASSUME HealthIInv, NEW i \in Rows,
                    \/ jobs[i].status = "queued" /\ now - jobs[i].created >= PendingThreshold
                    \/ jobs[i].status = "running" /\ i \notin alive /\ now - jobs[i].lease >= LeaseGrace
             PROVE  \E x \in Stuck : x[1] <= i /\ jobs[x[1]].status \notin {"completed", "cancelled"}
  BY DEF StalledIsReported
<1> USE HealthAssumption
<1>1. /\ now \in Nat /\ Rows \subseteq JobIds /\ PendingThreshold \in Nat /\ LeaseGrace \in Nat
      /\ \A k \in JobIds : jobs[k].created \in Int /\ jobs[k].lease \in Int
  BY DEF HealthIInv, JobRows, Rows
<1>2. i \in PendingTooLong \/ i \in LeaseExpired
  <2>1. jobs[i].created \in Int /\ jobs[i].lease \in Int
    BY <1>1
  <2>2. CASE jobs[i].status = "queued" /\ now - jobs[i].created >= PendingThreshold
    <3>1. jobs[i].created <= now - PendingThreshold
      BY <1>1, <2>1, <2>2
    <3> QED BY <2>2, <3>1 DEF PendingTooLong
  <2>3. CASE jobs[i].status = "running" /\ now - jobs[i].lease >= LeaseGrace
    <3>1. jobs[i].lease <= now - LeaseGrace
      BY <1>1, <2>1, <2>3
    <3> QED BY <2>3, <3>1 DEF LeaseExpired
  <2> QED BY <2>2, <2>3
<1>3. PendingTooLong \subseteq JobIds /\ LeaseExpired \subseteq JobIds /\ RetriesExceeded \subseteq JobIds
  BY <1>1 DEF PendingTooLong, LeaseExpired, RetriesExceeded
<1>4. CASE queue # "cleanup"
  <2>1. CASE i \in PendingTooLong
    <3>1. PICK j \in Limited(PendingTooLong) : j <= i /\ j \in PendingTooLong
      BY <1>3, <2>1, LimitedHasFirst
    <3>2. <<j, "pending_too_long">> \in Stuck
      BY <1>4, <3>1 DEF Stuck, StuckJobs
    <3>3. jobs[j].status = "queued"
      BY <3>1 DEF PendingTooLong
    <3> QED BY <3>1, <3>2, <3>3
  <2>2. CASE i \in LeaseExpired
    <3>1. PICK j \in Limited(LeaseExpired) : j <= i /\ j \in LeaseExpired
      BY <1>3, <2>2, LimitedHasFirst
    <3>2. <<j, "lease_expired">> \in Stuck
      BY <1>4, <3>1 DEF Stuck, StuckJobs
    <3>3. jobs[j].status = "running"
      BY <3>1 DEF LeaseExpired
    <3> QED BY <3>1, <3>2, <3>3
  <2> QED BY <1>2, <2>1, <2>2
<1>5. CASE queue = "cleanup"
  <2> DEFINE old == {k \in Rows : jobs[k].status \notin Ended /\ jobs[k].created <= now - PendingThreshold}
             worn == {k \in RetriesExceeded : jobs[k].status \notin Ended}
             all == old \cup LeaseExpired \cup worn
  <2>1. all \in SUBSET JobIds /\ i \in all
    BY <1>1, <1>2, <1>3 DEF PendingTooLong, Ended
  <2>2. \A k \in all : jobs[k].status \notin {"completed", "cancelled"}
    BY DEF LeaseExpired, Ended
  <2>3. PICK j \in Limited(all) : j <= i /\ j \in all
    BY <2>1, LimitedHasFirst
  <2>4. \E x \in Stuck : x[1] = j
    <3> DEFINE reason(k) == CASE k \in worn -> "max_retries_exceeded"
                              [] k \in LeaseExpired -> "lease_expired"
                              [] OTHER -> "pending_too_long"
    <3>1. Stuck = {<<k, reason(k)>> : k \in Limited(all)}
      BY <1>5 DEF Stuck, StuckCleanups
    <3> HIDE DEF reason, all
    <3>2. <<j, reason(j)>> \in Stuck
      BY <2>3, <3>1
    <3> QED BY <3>2
  <2> HIDE DEF all
  <2> QED BY <2>2, <2>3, <2>4
<1> QED BY <1>4, <1>5

LEMMA NoAlarm == HealthIInv => NoFalseAlarm
<1> SUFFICES ASSUME HealthIInv PROVE NoFalseAlarm
  OBVIOUS
<1> USE HealthAssumption
<1>1. /\ now \in Nat /\ Rows \subseteq JobIds /\ alive \subseteq JobIds /\ LeaseGrace \in Nat
      /\ \A k \in JobIds : jobs[k].lease \in Int
      /\ \A k \in alive : jobs[k].lease > now
  BY DEF HealthIInv, JobRows, Rows
<1>2. \A k \in alive : k \notin LeaseExpired
  <2>1. \A k \in alive : jobs[k].lease \in Int /\ ~ (jobs[k].lease <= now - LeaseGrace) /\ ~ (jobs[k].lease <= now)
    BY <1>1
  <2> QED BY <2>1 DEF LeaseExpired
<1>3. \A k \in alive : <<k, "lease_expired">> \notin Stuck
  <2>1. ASSUME NEW k, <<k, "lease_expired">> \in StuckJobs PROVE k \in LeaseExpired
    BY <2>1 DEF StuckJobs, Limited
  <2>2. ASSUME NEW k, <<k, "lease_expired">> \in StuckCleanups PROVE k \in LeaseExpired
    BY <2>2 DEF StuckCleanups, Limited
  <2> QED BY <1>2, <2>1, <2>2 DEF Stuck
<1>4. ASSUME \A k \in Rows : jobs[k].status = "running" => k \in alive
      PROVE  QueueMetrics.expired = 0
  <2>1. {k \in Rows : jobs[k].status = "running" /\ jobs[k].lease <= now} = {}
    <3>1. \A k \in alive : ~ (jobs[k].lease <= now)
      BY <1>1
    <3> QED BY <1>4, <3>1
  <2>2. Cardinality({k \in Rows : jobs[k].status = "running" /\ jobs[k].lease <= now}) = 0
    BY <2>1, FS_EmptySet
  <2> QED BY <2>2 DEF QueueMetrics
<1> QED BY <1>3, <1>4 DEF NoFalseAlarm

\* Two sets without a common row count as many as their union.
LEMMA CountBoth ==
    ASSUME NEW S \in SUBSET JobIds, NEW T \in SUBSET JobIds, S \cap T = {}
    PROVE  Cardinality(S \cup T) = Cardinality(S) + Cardinality(T)
<1>1. IsFiniteSet(S) /\ IsFiniteSet(T)
  BY HealthAssumption, FS_Subset
<1>2. Cardinality(S \cap T) = 0
  BY FS_EmptySet
<1>3. Cardinality(S) \in Nat /\ Cardinality(T) \in Nat
  BY <1>1, FS_CardinalityType
<1>4. Cardinality(S \cup T) = Cardinality(S) + Cardinality(T) - Cardinality(S \cap T)
  BY <1>1, FS_Union
<1> QED BY <1>2, <1>3, <1>4

LEMMA AddUp == HealthIInv => CountsAddUp
<1> SUFFICES ASSUME HealthIInv PROVE CountsAddUp
  OBVIOUS
<1> DEFINE In(s) == {k \in Rows : jobs[k].status = s}
           soon == {k \in Rows : jobs[k].status = "queued" /\ jobs[k].due <= now}
           later == {k \in Rows : jobs[k].status = "queued" /\ jobs[k].due > now}
<1>1. /\ Rows \subseteq JobIds /\ now \in Nat
      /\ \A k \in Rows : jobs[k].status \in {"queued", "running", "completed", "failed", "cancelled"}
      /\ \A k \in Rows : jobs[k].due \in Int
  BY DEF HealthIInv, JobRows, JobStates, Rows
<1>2. /\ \A s : In(s) \in SUBSET JobIds /\ Cardinality(In(s)) \in Nat
      /\ soon \in SUBSET JobIds /\ later \in SUBSET JobIds
      /\ Cardinality(soon) \in Nat /\ Cardinality(later) \in Nat
  <2>1. /\ \A s : In(s) \in SUBSET JobIds
        /\ soon \in SUBSET JobIds /\ later \in SUBSET JobIds
    BY <1>1
  <2> HIDE DEF In, soon, later
  <2> QED BY <2>1, HealthAssumption, FS_Subset, FS_CardinalityType
<1>3. Cardinality(Rows) = Cardinality(In("queued")) + Cardinality(In("running")) + Cardinality(In("failed"))
                          + Cardinality(In("completed")) + Cardinality(In("cancelled"))
  <2> DEFINE A == In("queued") \cup In("running")
             B == A \cup In("failed")
             C == B \cup In("completed")
  <2>1. Rows = C \cup In("cancelled")
    BY <1>1
  <2>2. A \in SUBSET JobIds /\ B \in SUBSET JobIds /\ C \in SUBSET JobIds
    BY <1>1
  <2>3. /\ In("queued") \cap In("running") = {} /\ A \cap In("failed") = {}
        /\ B \cap In("completed") = {} /\ C \cap In("cancelled") = {}
    OBVIOUS
  <2> HIDE DEF In
  <2>4. Cardinality(A) = Cardinality(In("queued")) + Cardinality(In("running"))
    BY <1>2, <2>3, CountBoth
  <2> HIDE DEF A
  <2>5. Cardinality(B) = Cardinality(A) + Cardinality(In("failed"))
    BY <1>2, <2>2, <2>3, CountBoth
  <2> HIDE DEF B
  <2>6. Cardinality(C) = Cardinality(B) + Cardinality(In("completed"))
    BY <1>2, <2>2, <2>3, CountBoth
  <2> HIDE DEF C
  <2>7. Cardinality(Rows) = Cardinality(C) + Cardinality(In("cancelled"))
    BY <1>2, <2>1, <2>2, <2>3, CountBoth
  <2> QED BY <1>2, <2>4, <2>5, <2>6, <2>7
<1>4. QueueMetrics.queued + QueueMetrics.retryWaiting = Cardinality(In("queued"))
  <2>1. CASE queue = "cleanup"
    <3>1. QueueMetrics.queued = Cardinality(soon) /\ QueueMetrics.retryWaiting = Cardinality(later)
      BY <2>1 DEF QueueMetrics, Waiting
    <3>2. In("queued") = soon \cup later /\ soon \cap later = {}
      BY <1>1
    <3> HIDE DEF In, soon, later
    <3> QED BY <1>2, <3>1, <3>2, CountBoth
  <2>2. CASE queue # "cleanup"
    <3>1. QueueMetrics.queued = Cardinality(In("queued")) /\ QueueMetrics.retryWaiting = 0
      BY <2>2 DEF QueueMetrics, Waiting
    <3> HIDE DEF In
    <3> QED BY <1>2, <3>1
  <2> QED BY <2>1, <2>2
<1>5. /\ QueueMetrics.running = Cardinality(In("running")) /\ QueueMetrics.failed = Cardinality(In("failed"))
      /\ Count("completed") = Cardinality(In("completed")) /\ Count("cancelled") = Cardinality(In("cancelled"))
  BY DEF QueueMetrics, Count
<1>6. QueueMetrics.queued + QueueMetrics.retryWaiting + QueueMetrics.running + QueueMetrics.failed
         + Count("completed") + Count("cancelled") = Cardinality(Rows)
  <2> HIDE DEF In
  <2> QED BY <1>2, <1>3, <1>4, <1>5
<1>7. \A x, y \in Stuck : x[1] = y[1] => x = y
  <2>1. ASSUME NEW x \in StuckJobs, NEW y \in StuckJobs, x[1] = y[1] PROVE x = y
    <3> DEFINE first == {<<i, "pending_too_long">> : i \in Limited(PendingTooLong)}
                        \cup {<<i, "lease_expired">> : i \in Limited(LeaseExpired)}
               third == {<<i, "max_retries_exceeded">> :
                            i \in Limited(RetriesExceeded) \ {z[1] : z \in first}}
    <3>1. x \in first \cup third /\ y \in first \cup third
      BY DEF StuckJobs
    <3>2. \A i : i \in Limited(PendingTooLong) => i \notin Limited(LeaseExpired)
      BY DEF Limited, PendingTooLong, LeaseExpired
    <3>3. CASE x \in first /\ y \in first
      BY <2>1, <3>2, <3>3
    <3>4. CASE x \in third /\ y \in third
      BY <2>1, <3>4
    <3>5. \A u \in first, v \in third : u[1] # v[1]
      <4> HIDE DEF first
      <4> QED OBVIOUS
    <3> HIDE DEF first, third
    <3> QED BY <2>1, <3>1, <3>3, <3>4, <3>5
  <2>2. ASSUME NEW x \in StuckCleanups, NEW y \in StuckCleanups, x[1] = y[1] PROVE x = y
    <3> DEFINE old == {k \in Rows : jobs[k].status \notin Ended /\ jobs[k].created <= now - PendingThreshold}
               worn == {k \in RetriesExceeded : jobs[k].status \notin Ended}
               reason(k) == CASE k \in worn -> "max_retries_exceeded"
                              [] k \in LeaseExpired -> "lease_expired"
                              [] OTHER -> "pending_too_long"
    <3>1. StuckCleanups = {<<k, reason(k)>> : k \in Limited(old \cup LeaseExpired \cup worn)}
      BY DEF StuckCleanups
    <3> HIDE DEF old, worn, reason
    <3> QED BY <2>2, <3>1
  <2> QED BY <2>1, <2>2 DEF Stuck
<1> QED BY <1>6, <1>7 DEF CountsAddUp

\* For any number of jobs, thresholds and report limit: a job nobody will move, or an older one
\* for the same reason, is in the report, a job that is renewed is not, and every job is counted
\* and reported once (get_stuck_jobs, get_queue_metrics and their variants).
THEOREM HealthCorrect == HealthSpec => []HealthInv
<1>1. HealthIInv => HealthInv
  BY StalledReported, NoAlarm, AddUp DEF HealthInv
<1> QED BY <1>1, HealthStart, HealthStepKeeps, PTL DEF HealthSpec

-----------------------------------------------------------------------------
(* A run of the extraction pipeline (ExtractionRun).                       *)

RunSpec == RunInit /\ [][RunNext]_runVars

LastUnit == IF PlannedWindows > 3 THEN PlannedWindows ELSE 3

RunSteps == {"idle", "clean", "repair_clean", "extract", "pass", "repair_pass", "single", "repair_single",
             "window", "extract_window", "validated", "window_failed", "window_completed", "merge",
             "resolve", "over"}

RunStates == {"running", "raised", "completed", "completed_with_review", "partially_completed"}

RunTypes ==
    /\ repairs \in Nat
    /\ mode \in {"none", "focused", "single", "windowed"}
    /\ stepAt \in RunSteps
    /\ unit \in Nat
    /\ reports \in [AllUnits -> {"todo", "completed", "failed", "skipped"}]
    /\ content \in SUBSET AllUnits
    /\ calls \in [sent : Nat, here : Nat, counted : Nat, late : Nat]
    /\ spent \in BOOLEAN /\ jobLost \in BOOLEAN
    /\ runStatus \in RunStates
    /\ stepAt # "over" => runStatus = "running"
    /\ calls.here <= calls.sent /\ calls.counted <= calls.sent /\ calls.late <= calls.sent
    /\ ~ jobLost => calls.late = 0

CompletedUnits == {u \in AllUnits : reports[u] = "completed"}

Unstarted ==
    /\ stepAt = "idle" /\ unit = 1 /\ content = {} /\ calls.sent = 0
    /\ \A u \in AllUnits : reports[u] = "todo"

\* The focused passes: two calls at most for each that is behind.
FocusedRun ==
    /\ stepAt \in {"clean", "repair_clean", "extract", "pass", "repair_pass", "resolve", "over"}
    /\ unit \in 1..3
    /\ stepAt \in {"clean", "repair_clean", "extract"} => calls.sent = 0 /\ unit = 1
    /\ stepAt = "pass" => calls.sent <= 2 * (unit - 1)
    /\ stepAt = "repair_pass" => calls.sent <= 2 * (unit - 1) + 1
    /\ calls.sent <= 6
    /\ \A u \in 1..3 : u < unit => reports[u] # "todo"
    /\ stepAt \notin {"resolve", "over"} => \A u \in AllUnits : u >= unit => reports[u] = "todo"
    /\ stepAt = "resolve" \/ runStatus = "completed" => \A u \in 1..3 : reports[u] # "todo"
    /\ content = CompletedUnits

\* The single pass.
SingleRun ==
    /\ stepAt \in {"clean", "repair_clean", "extract", "single", "repair_single", "resolve", "over"}
    /\ unit = 1
    /\ stepAt \in {"clean", "repair_clean", "extract", "single"} => calls.sent = 0
    /\ stepAt = "repair_single" => calls.sent <= 1
    /\ calls.sent <= 2

\* What a window may cost: its call, and one repair where repairs are allowed.
WindowCost == IF repairs = 0 THEN 1 ELSE 2

InWindow == stepAt \in {"extract_window", "single", "repair_single", "validated"}

\* The windows of a long recording: every call is counted, or was of a window that failed, or is
\* of the window in work; no window is begun with the budget exhausted or the job known as lost.
WindowedRun ==
    /\ stepAt \in {"window", "extract_window", "single", "repair_single", "validated", "window_failed",
                   "window_completed", "merge", "over"}
    /\ unit \in 1..(PlannedWindows + 1)
    /\ content = CompletedUnits
    /\ \A u \in AllUnits : /\ u < unit => reports[u] # "todo"
                           /\ u > unit => reports[u] = "todo"
    /\ (stepAt \in {"window", "merge"} \/ InWindow) /\ unit \in AllUnits => reports[unit] = "todo"
    /\ InWindow \/ stepAt \in {"window_failed", "window_completed"} => unit <= PlannedWindows
    /\ stepAt \in {"window_failed", "window_completed"} => reports[unit] # "todo"
    /\ stepAt = "merge" => unit = PlannedWindows + 1 /\ content # {}
    /\ stepAt \in {"window", "extract_window"} => calls.late = 0
    /\ stepAt \in {"extract_window", "single"} => calls.here = 0
    /\ stepAt = "repair_single" => calls.here <= 1 /\ repairs > 0
    /\ InWindow => /\ calls.here <= WindowCost
                   /\ calls.counted < MaxTotalCalls
                   /\ calls.late <= calls.here
                   /\ calls.sent <= 2 * (unit - 1) + calls.here
                   /\ calls.counted + calls.here <= calls.sent
    /\ stepAt \in {"window", "merge"} => calls.sent <= 2 * (unit - 1)
    /\ calls.sent <= 2 * unit
    /\ unit = PlannedWindows + 1 => calls.sent <= 2 * PlannedWindows
    /\ calls.late <= 2
    /\ calls.counted <= MaxTotalCalls + WindowCost - 1
    /\ calls.sent <= calls.counted + WindowCost * Cardinality(FailedUnits)
                     + (IF InWindow THEN calls.here ELSE 0)

RunIInv ==
    /\ RunTypes
    /\ mode = "none" => Unstarted
    /\ mode = "focused" => FocusedRun
    /\ mode = "single" => SingleRun
    /\ mode = "windowed" => WindowedRun /\ CompletedIsWholeRun

LEMMA UnitsFinite ==
    /\ LastUnit \in Nat /\ AllUnits = 1..LastUnit /\ LastUnit >= 3 /\ LastUnit >= PlannedWindows
    /\ IsFiniteSet(AllUnits) /\ Cardinality(AllUnits) = LastUnit
    /\ 1..3 \subseteq AllUnits /\ 1..PlannedWindows \subseteq AllUnits
<1>1. /\ LastUnit \in Nat /\ AllUnits = 1..LastUnit /\ LastUnit >= 3 /\ LastUnit >= PlannedWindows
      /\ PlannedWindows \in Nat
  BY RunAssumption DEF LastUnit, AllUnits
<1>2. IsFiniteSet(1..LastUnit) /\ Cardinality(1..LastUnit) = LastUnit
  BY <1>1, FS_Interval
<1> QED BY <1>1, <1>2

\* The failed units are finitely many; one more of them counts as one more.
LEMMA FailedFinite ==
    /\ IsFiniteSet(FailedUnits) /\ Cardinality(FailedUnits) \in Nat
    /\ \A u \in AllUnits : /\ IsFiniteSet(FailedUnits \cup {u})
                           /\ u \notin FailedUnits =>
                                 Cardinality(FailedUnits \cup {u}) = Cardinality(FailedUnits) + 1
<1>1. FailedUnits \subseteq AllUnits
  BY DEF FailedUnits
<1>2. IsFiniteSet(FailedUnits)
  BY <1>1, UnitsFinite, FS_Subset
<1> QED BY <1>2, FS_CardinalityType, FS_AddElement

LEMMA RunStart == RunInit => RunIInv
<1> SUFFICES ASSUME RunInit PROVE RunIInv
  OBVIOUS
<1>1. RunTypes
  <2>1. calls \in [sent : Nat, here : Nat, counted : Nat, late : Nat]
    BY DEF RunInit
  <2>2. reports \in [AllUnits -> {"todo", "completed", "failed", "skipped"}]
    BY DEF RunInit
  <2>3. spent \in BOOLEAN /\ jobLost \in BOOLEAN
    BY DEF RunInit
  <2>4. calls.here <= calls.sent /\ calls.counted <= calls.sent /\ calls.late <= calls.sent /\ calls.late = 0
    BY DEF RunInit
  <2> QED BY <2>1, <2>2, <2>3, <2>4 DEF RunInit, RunTypes, RunSteps, RunStates
<1>2. mode = "none" /\ Unstarted
  BY DEF RunInit, Unstarted
<1> QED BY <1>1, <1>2 DEF RunIInv

\* Where a run is tells how it goes.
LEMMA ModeOf ==
    ASSUME RunIInv
    PROVE  /\ stepAt = "idle" => mode = "none"
           /\ mode = "none" => stepAt = "idle"
           /\ stepAt \in {"clean", "repair_clean", "extract", "resolve"} => mode \in {"focused", "single"}
           /\ stepAt \in {"pass", "repair_pass"} => mode = "focused"
           /\ stepAt \in {"single", "repair_single"} => mode \in {"single", "windowed"}
           /\ stepAt \in {"window", "extract_window", "validated", "window_failed", "window_completed", "merge"}
                 => mode = "windowed"
  BY DEF RunIInv, RunTypes, Unstarted, FocusedRun, SingleRun, WindowedRun

\* A call is one more, and late if the job is lost.
LEMMA Sent ==
    ASSUME RunTypes, Send
    PROVE  /\ calls' \in [sent : Nat, here : Nat, counted : Nat, late : Nat]
           /\ calls'.sent = calls.sent + 1 /\ calls'.here = calls.here + 1
           /\ calls'.counted = calls.counted
           /\ calls'.late = calls.late + (IF jobLost THEN 1 ELSE 0)
           /\ calls'.here <= calls'.sent /\ calls'.counted <= calls'.sent /\ calls'.late <= calls'.sent
           /\ ~ jobLost => calls'.late = 0
<1>1. /\ calls' \in [sent : Nat, here : Nat, counted : Nat, late : Nat]
      /\ calls'.sent = calls.sent + 1 /\ calls'.here = calls.here + 1
      /\ calls'.counted = calls.counted
      /\ calls'.late = calls.late + (IF jobLost THEN 1 ELSE 0)
  <2> DEFINE late == calls.late + (IF jobLost THEN 1 ELSE 0)
  <2>1. calls' = [calls EXCEPT !.sent = calls.sent + 1, !.here = calls.here + 1, !.late = late]
    BY DEF Send
  <2>2. calls \in [sent : Nat, here : Nat, counted : Nat, late : Nat] /\ late \in Nat
    BY DEF RunTypes
  <2> HIDE DEF late
  <2>3. /\ calls' \in [sent : Nat, here : Nat, counted : Nat, late : Nat]
        /\ calls'.sent = calls.sent + 1 /\ calls'.here = calls.here + 1
        /\ calls'.counted = calls.counted /\ calls'.late = late
    <3>1. calls.sent + 1 \in Nat /\ calls.here + 1 \in Nat
      BY <2>2
    <3> QED BY <2>1, <2>2, <3>1
  <2> QED BY <2>3 DEF late
<1> QED BY <1>1 DEF RunTypes

\* The report of a unit changes; the failed and the completed units change with it.
LEMMA UnitReported ==
    ASSUME RunTypes, NEW u \in AllUnits, NEW r \in {"completed", "failed", "skipped"},
           reports' = [reports EXCEPT ![u] = r]
    PROVE  /\ reports' \in [AllUnits -> {"todo", "completed", "failed", "skipped"}]
           /\ reports'[u] = r /\ \A v \in AllUnits \ {u} : reports'[v] = reports[v]
           /\ reports[u] = "todo" =>
                 /\ CompletedUnits' = IF r = "completed" THEN CompletedUnits \cup {u} ELSE CompletedUnits
                 /\ FailedUnits' = IF r = "failed" THEN FailedUnits \cup {u} ELSE FailedUnits
                 /\ u \notin FailedUnits
<1>1. /\ reports' \in [AllUnits -> {"todo", "completed", "failed", "skipped"}]
      /\ reports'[u] = r /\ \A v \in AllUnits \ {u} : reports'[v] = reports[v]
  BY DEF RunTypes
<1> QED BY <1>1 DEF CompletedUnits, FailedUnits

LEMMA RunStepKeeps == RunIInv /\ [RunNext]_runVars => RunIInv'
<1> SUFFICES ASSUME RunIInv, [RunNext]_runVars PROVE RunIInv'
  OBVIOUS
<1> USE RunAssumption
<1>t. RunTypes /\ PlannedWindows \in Nat /\ MaxTotalCalls \in Nat /\ Cardinality(FailedUnits) \in Nat
  BY FailedFinite DEF RunIInv
<1>0. CASE UNCHANGED runVars
  <2>1. RunTypes' /\ FailedUnits' = FailedUnits /\ CompletedUnits' = CompletedUnits
        /\ (InWindow' <=> InWindow) /\ WindowCost' = WindowCost
    BY <1>0, <1>t DEF runVars, RunTypes, FailedUnits, CompletedUnits, InWindow, WindowCost
  <2>2. /\ mode = "none" => Unstarted'
        /\ mode = "focused" => FocusedRun'
        /\ mode = "single" => SingleRun'
    BY <1>0, <2>1 DEF runVars, RunIInv, Unstarted, FocusedRun, SingleRun
  <2>3. mode = "windowed" => WindowedRun' /\ CompletedIsWholeRun'
    BY <1>0, <2>1 DEF runVars, RunIInv, WindowedRun, CompletedIsWholeRun, Units
  <2> QED BY <1>0, <2>1, <2>2, <2>3 DEF runVars, RunIInv
<1> SUFFICES ASSUME RunNext PROVE RunIInv'
  BY <1>0
<1>r. mode # "none" => repairs' = repairs
  BY DEF RunNext
<1>1. ASSUME NEW m \in {"focused", "single", "windowed"}, BeginRun(m)
      PROVE  RunIInv'
  <2>1. mode = "none" /\ Unstarted /\ calls.late = 0 /\ calls.counted = 0 /\ calls.here = 0
    BY <1>1, <1>t, ModeOf DEF BeginRun, RunIInv, Unstarted, RunTypes
  <2>2. repairs' \in Nat
    BY <2>1 DEF RunNext
  <2>3. /\ mode' = m /\ UNCHANGED <<unit, reports, content, calls, jobLost, runStatus>>
        /\ stepAt' = IF m = "windowed" THEN "window" ELSE "clean"
        /\ spent' \in BOOLEAN
    BY <1>1 DEF BeginRun
  <2>4. RunTypes'
    BY <1>t, <2>1, <2>2, <2>3 DEF RunTypes, RunSteps, Unstarted
  <2>5. content' = CompletedUnits' /\ FailedUnits' = FailedUnits /\ content' = {}
    BY <2>1, <2>3 DEF Unstarted, CompletedUnits, FailedUnits
  <2>6. m = "focused" => FocusedRun'
    BY <2>1, <2>3, <2>5, <1>t, UnitsFinite DEF Unstarted, FocusedRun, RunTypes
  <2>7. m = "single" => SingleRun'
    BY <2>1, <2>3 DEF Unstarted, SingleRun
  <2>8. m = "windowed" => WindowedRun' /\ CompletedIsWholeRun'
    <3> SUFFICES ASSUME m = "windowed" PROVE WindowedRun' /\ CompletedIsWholeRun'
      OBVIOUS
    <3>1. stepAt' = "window" /\ ~ InWindow' /\ unit' = 1 /\ runStatus' = "running" /\ calls' = calls
      BY <1>t, <2>1, <2>3 DEF InWindow, RunTypes, Unstarted
    <3>2. WindowCost' \in {1, 2}
      BY DEF WindowCost
    <3>3. \A u \in AllUnits : reports'[u] = "todo" /\ u \in Nat /\ u >= 1
      BY <2>1, <2>3, UnitsFinite DEF Unstarted
    <3>4. calls.sent = 0
      BY <2>1 DEF Unstarted
    <3>5. calls.sent <= calls.counted + WindowCost' * Cardinality(FailedUnits)
      BY <1>t, <2>1, <3>2, <3>4
    <3> QED BY <1>t, <2>1, <2>3, <2>5, <3>1, <3>2, <3>3, <3>4, <3>5 DEF WindowedRun, CompletedIsWholeRun, InWindow
  <2> QED BY <2>3, <2>4, <2>6, <2>7, <2>8 DEF RunIInv
\* Steps of a short run that neither call nor report.
<1>q. ASSUME mode \in {"focused", "single"}, UNCHANGED <<mode, unit, reports, content, calls, spent, jobLost>>,
             \/ stepAt \in {"clean", "repair_clean"} /\ stepAt' \in {"repair_clean", "extract"}
                /\ UNCHANGED runStatus
             \/ stepAt = "extract" /\ stepAt' = (IF mode = "focused" THEN "pass" ELSE "single")
                /\ UNCHANGED runStatus
             \/ stepAt' = "over" /\ runStatus' = "raised"
             \/ stepAt = "resolve" /\ stepAt' = "over" /\ runStatus' = "completed"
      PROVE  RunIInv'
  <2>1. RunTypes' /\ CompletedUnits' = CompletedUnits
    BY <1>q, <1>r, <1>t DEF RunTypes, RunSteps, RunStates, CompletedUnits
  <2>2. mode = "focused" => FocusedRun'
    BY <1>q, <1>t, <2>1 DEF RunIInv, FocusedRun, RunTypes
  <2>3. mode = "single" => SingleRun'
    BY <1>q, <1>t, <2>1 DEF RunIInv, SingleRun, RunTypes
  <2> QED BY <1>q, <2>1, <2>2, <2>3 DEF RunIInv
<1>2. ASSUME NEW a \in Answers, Clean(a) PROVE RunIInv'
  BY <1>2, <1>q, ModeOf DEF Clean, Raise
<1>3. CASE RepairClean
  BY <1>3, <1>q, ModeOf DEF RepairClean
<1>4. CASE EnterExtract
  BY <1>4, <1>q, ModeOf DEF EnterExtract
<1>5. CASE Resolve
  BY <1>5, <1>q, ModeOf DEF Resolve
\* A focused pass ends, completed or failed.
<1>p. ASSUME stepAt \in {"pass", "repair_pass"}, Send, CompletePass \/ FailPass,
             UNCHANGED <<mode, spent, jobLost, runStatus>>
      PROVE  RunIInv'
  <2>1. mode = "focused" /\ FocusedRun /\ unit \in AllUnits
    BY <1>p, ModeOf, UnitsFinite DEF RunIInv, FocusedRun
  <2>2. /\ stepAt' = (IF unit = 3 THEN "resolve" ELSE "pass")
        /\ unit' = IF unit = 3 THEN unit ELSE unit + 1
    BY <1>p, <2>1 DEF CompletePass, FailPass, AfterPass, NextUnit
  <2>3. \E r \in {"completed", "failed"} :
           /\ reports' = [reports EXCEPT ![unit] = r]
           /\ content' = IF r = "completed" THEN content \cup {unit} ELSE content
    BY <1>p DEF CompletePass, FailPass
  <2>4. PICK r \in {"completed", "failed"} :
           /\ reports' = [reports EXCEPT ![unit] = r]
           /\ content' = IF r = "completed" THEN content \cup {unit} ELSE content
    BY <2>3
  <2>5. /\ reports' \in [AllUnits -> {"todo", "completed", "failed", "skipped"}]
        /\ reports'[unit] = r /\ \A v \in AllUnits \ {unit} : reports'[v] = reports[v]
    BY <1>t, <2>1, <2>4, UnitReported
  <2>6. unit \in 1..3 /\ calls.sent <= 2 * (unit - 1) + 1
    BY <1>p, <1>t, <2>1 DEF FocusedRun, RunTypes
  <2>7. content' \in SUBSET AllUnits
    BY <1>t, <2>1, <2>4 DEF RunTypes
  <2>8. RunTypes'
    BY <1>p, <1>r, <1>t, <2>1, <2>2, <2>5, <2>6, <2>7, Sent DEF RunTypes, RunSteps
  <2>9. content' = CompletedUnits' /\ \A u \in AllUnits : u > unit => reports'[u] = "todo"
    <3>1. reports[unit] = "todo" /\ content = CompletedUnits /\ \A u \in AllUnits : u > unit => reports[u] = "todo"
      BY <1>p, <2>1, <2>6, UnitsFinite DEF FocusedRun
    <3>2. CompletedUnits' = IF r = "completed" THEN CompletedUnits \cup {unit} ELSE CompletedUnits
      BY <1>t, <2>1, <2>4, <3>1, UnitReported
    <3>3. \A u \in AllUnits : u > unit => u \in AllUnits \ {unit}
      BY <2>6, UnitsFinite
    <3> QED BY <2>4, <2>5, <3>1, <3>2, <3>3
  <2>10. \A u \in 1..3 : u < unit' \/ unit = 3 => reports'[u] # "todo"
    <3>1. \A u \in 1..3 : u \in AllUnits /\ (u < unit => reports[u] # "todo")
      BY <2>1, UnitsFinite DEF FocusedRun
    <3>2. \A u \in 1..3 : u < unit' \/ unit = 3 => u = unit \/ u < unit
      BY <2>2, <2>6
    <3> QED BY <2>5, <3>1, <3>2
  <2>11. calls'.sent = calls.sent + 1 /\ calls.sent \in Nat /\ calls.sent <= 5
    BY <1>p, <1>t, <2>1, <2>6, Sent DEF FocusedRun, RunTypes
  <2>12. runStatus' # "completed"
    BY <1>p, <1>t DEF RunTypes
  <2>14. stepAt' # "resolve" => \A u \in AllUnits : u >= unit' => reports'[u] = "todo"
    BY <2>2, <2>6, <2>9, UnitsFinite
  <2>15. /\ unit' \in 1..3 /\ stepAt' \in {"pass", "resolve"} /\ calls'.sent <= 6
         /\ stepAt' = "pass" => calls'.sent <= 2 * (unit' - 1)
         /\ stepAt' = "resolve" => unit = 3
    BY <2>2, <2>6, <2>11
  <2>13. FocusedRun'
    BY <2>9, <2>10, <2>12, <2>14, <2>15 DEF FocusedRun
  <2> QED BY <1>p, <2>1, <2>8, <2>13 DEF RunIInv
<1>6. ASSUME NEW a \in Answers, FocusedPrimary(a) PROVE RunIInv'
  <2>1. CASE a \in {"ok", "error"}
    BY <1>6, <1>p, <2>1 DEF FocusedPrimary
  <2>2. CASE a \notin {"ok", "error"}
    <3>1. /\ stepAt = "pass" /\ stepAt' = "repair_pass" /\ Send
          /\ UNCHANGED <<mode, unit, reports, content, spent, jobLost, runStatus>>
      BY <1>6, <2>2 DEF FocusedPrimary
    <3>2. mode = "focused" /\ FocusedRun
      BY <3>1, ModeOf DEF RunIInv
    <3>3. RunTypes' /\ CompletedUnits' = CompletedUnits
      BY <1>r, <1>t, <3>1, <3>2, Sent DEF RunTypes, RunSteps, CompletedUnits
    <3>4. calls'.sent = calls.sent + 1 /\ calls.sent \in Nat
      BY <1>t, <3>1, Sent DEF RunTypes
    <3>5. FocusedRun'
      BY <1>t, <3>1, <3>2, <3>3, <3>4 DEF FocusedRun, RunTypes
    <3> QED BY <3>1, <3>2, <3>3, <3>5 DEF RunIInv
  <2> QED BY <2>1, <2>2
<1>7. ASSUME NEW a \in Answers, FocusedRepair(a) PROVE RunIInv'
  BY <1>7, <1>p DEF FocusedRepair
\* A long recording, in a window.
<1>w. ASSUME mode = "windowed", InWindow
      PROVE  /\ WindowedRun /\ unit \in 1..PlannedWindows /\ unit \in AllUnits /\ reports[unit] = "todo"
             /\ content = CompletedUnits /\ WindowCost \in {1, 2} /\ runStatus = "running"
             /\ calls.here <= WindowCost /\ calls.counted < MaxTotalCalls /\ calls.late <= calls.here
             /\ calls.sent <= 2 * (unit - 1) + calls.here /\ calls.counted + calls.here <= calls.sent
             /\ calls.sent <= calls.counted + WindowCost * Cardinality(FailedUnits) + calls.here
             /\ calls.sent \in Nat /\ calls.here \in Nat /\ calls.counted \in Nat /\ calls.late \in Nat
  <2>1. WindowedRun /\ runStatus = "running"
    BY <1>w, <1>t DEF RunIInv, RunTypes, InWindow
  <2>2. unit \in 1..PlannedWindows /\ unit \in AllUnits
    BY <1>w, <1>t, <2>1, UnitsFinite DEF WindowedRun
  <2>3. calls.sent \in Nat /\ calls.here \in Nat /\ calls.counted \in Nat /\ calls.late \in Nat
    BY <1>t DEF RunTypes
  <2> QED BY <1>w, <2>1, <2>2, <2>3 DEF WindowedRun, WindowCost
\* A call in a window.
<1>n. ASSUME mode = "windowed", stepAt \in {"single", "repair_single"}, Send
      PROVE  /\ InWindow
             /\ calls'.here <= WindowCost /\ calls'.counted = calls.counted /\ calls'.late <= calls'.here
             /\ calls'.sent <= 2 * (unit - 1) + calls'.here /\ calls'.counted + calls'.here <= calls'.sent
             /\ calls'.sent <= calls'.counted + WindowCost * Cardinality(FailedUnits) + calls'.here
             /\ stepAt = "single" => calls'.here = 1
             /\ calls'.sent \in Nat /\ calls'.here \in Nat /\ calls'.counted \in Nat /\ calls'.late \in Nat
  <2>1. InWindow
    BY <1>n DEF InWindow
  <2>2. /\ stepAt = "single" => calls.here = 0
        /\ stepAt = "repair_single" => calls.here <= 1 /\ WindowCost = 2
    BY <1>n, <1>t, <1>w, <2>1 DEF WindowedRun, WindowCost, RunTypes
  <2>3. /\ calls'.sent = calls.sent + 1 /\ calls'.here = calls.here + 1 /\ calls'.counted = calls.counted
        /\ calls'.late \in {calls.late, calls.late + 1}
    <3>1. calls.late + 0 = calls.late
      BY <1>t DEF RunTypes
    <3> QED BY <1>n, <1>t, <3>1, Sent
  <2> DEFINE lost == WindowCost * Cardinality(FailedUnits)
  <2>4. lost \in Nat /\ calls.sent <= calls.counted + lost + calls.here
    BY <1>n, <1>t, <1>w, <2>1
  <2> HIDE DEF lost
  <2>5. calls'.sent <= calls'.counted + lost + calls'.here
    BY <1>n, <1>w, <2>1, <2>3, <2>4
  <2> QED BY <1>n, <1>w, <2>1, <2>2, <2>3, <2>5 DEF lost
\* A window fails: its calls are not counted.
<1>v. ASSUME mode = "windowed", InWindow, UNCHANGED <<mode, unit, content, runStatus, spent, jobLost>>,
             calls' \in [sent : Nat, here : Nat, counted : Nat, late : Nat],
             calls'.here <= calls'.sent, calls'.counted <= calls'.sent, calls'.late <= calls'.sent,
             ~ jobLost => calls'.late = 0,
             calls'.here <= WindowCost, calls'.counted = calls.counted, calls'.late <= calls'.here,
             calls'.sent <= 2 * (unit - 1) + calls'.here,
             calls'.sent <= calls'.counted + WindowCost * Cardinality(FailedUnits) + calls'.here,
             reports' = [reports EXCEPT ![unit] = "failed"], stepAt' = "window_failed"
      PROVE  RunIInv'
  <2>1. /\ reports' \in [AllUnits -> {"todo", "completed", "failed", "skipped"}]
        /\ reports'[unit] = "failed" /\ \A v \in AllUnits \ {unit} : reports'[v] = reports[v]
        /\ CompletedUnits' = CompletedUnits /\ FailedUnits' = FailedUnits \cup {unit} /\ unit \notin FailedUnits
    BY <1>t, <1>v, <1>w, UnitReported
  <2>2. Cardinality(FailedUnits') = Cardinality(FailedUnits) + 1
    BY <1>v, <1>w, <2>1, FailedFinite
  <2>0. unit \in 1..PlannedWindows /\ content = CompletedUnits /\ WindowCost \in {1, 2} /\ runStatus = "running"
    BY <1>v, <1>w
  <2>3. RunTypes'
    BY <1>r, <1>t, <1>v, <2>0, <2>1 DEF RunTypes, RunSteps
  <2>4. WindowCost' = WindowCost /\ ~ InWindow'
    BY <1>r, <1>v DEF WindowCost, InWindow
  <2>5. calls'.sent <= calls'.counted + WindowCost' * Cardinality(FailedUnits')
    <3> DEFINE c == Cardinality(FailedUnits)
    <3>1. c \in Nat /\ calls'.sent <= calls'.counted + WindowCost * c + calls'.here
          /\ calls'.here \in Nat /\ calls'.sent \in Nat /\ calls'.counted \in Nat
      BY <1>t, <1>v
    <3>2. Cardinality(FailedUnits') = c + 1
      BY <2>2
    <3> HIDE DEF c
    <3>3. CASE WindowCost = 1
      BY <1>v, <2>4, <3>1, <3>2, <3>3
    <3>4. CASE WindowCost = 2
      BY <1>v, <2>4, <3>1, <3>2, <3>4
    <3> QED BY <1>v, <1>w, <3>3, <3>4
  <2>6. calls'.sent <= 2 * unit /\ calls'.late <= 2 /\ calls'.counted <= MaxTotalCalls + WindowCost' - 1
    BY <1>t, <1>v, <1>w, <2>4
  <2>7. ASSUME NEW u \in AllUnits
        PROVE  (u < unit' => reports'[u] # "todo") /\ (u > unit' => reports'[u] = "todo")
    <3>1. (u < unit => reports[u] # "todo") /\ (u > unit => reports[u] = "todo")
      BY <1>v, <1>w DEF WindowedRun
    <3>2. unit' = unit /\ unit \in Nat /\ u \in Nat
      BY <1>v, <2>0, UnitsFinite
    <3>3. CASE u = unit
      BY <3>2, <3>3
    <3>4. CASE u # unit
      BY <2>1, <3>1, <3>2, <3>4
    <3> QED BY <3>3, <3>4
  <2>8. WindowedRun'
    <3>1. /\ unit' = unit /\ unit \in 1..PlannedWindows /\ content' = CompletedUnits' /\ stepAt' = "window_failed"
          /\ reports'[unit] # "todo" /\ ~ InWindow' /\ unit' \in 1..(PlannedWindows + 1)
          /\ unit' # PlannedWindows + 1 /\ unit' <= PlannedWindows
      BY <1>t, <1>v, <2>0, <2>1, <2>4
    <3>2. calls'.sent <= calls'.counted + WindowCost' * Cardinality(FailedUnits') + 0
      BY <1>t, <1>v, <2>0, <2>2, <2>4, <2>5
    <3> QED BY <2>6, <2>7, <3>1, <3>2 DEF WindowedRun
  <2>9. CompletedIsWholeRun'
    BY <1>v, <1>w DEF CompletedIsWholeRun
  <2> QED BY <1>v, <2>3, <2>8, <2>9 DEF RunIInv
\* A window goes on after a call.
<1>g. ASSUME mode = "windowed", stepAt \in {"single", "repair_single"}, Send,
             UNCHANGED <<mode, unit, reports, content, runStatus, spent, jobLost>>,
             stepAt' = "validated" \/ (stepAt = "single" /\ stepAt' = "repair_single" /\ repairs > 0)
      PROVE  RunIInv'
  <2>1. InWindow /\ InWindow' /\ WindowCost' = WindowCost /\ FailedUnits' = FailedUnits
        /\ CompletedUnits' = CompletedUnits
    BY <1>g, <1>r DEF InWindow, WindowCost, FailedUnits, CompletedUnits
  <2>2. RunTypes'
    BY <1>g, <1>r, <1>t, Sent DEF RunTypes, RunSteps
  <2>3. /\ calls'.here <= WindowCost /\ calls'.counted = calls.counted /\ calls'.late <= calls'.here
        /\ calls'.sent <= 2 * (unit - 1) + calls'.here /\ calls'.counted + calls'.here <= calls'.sent
        /\ calls'.sent <= calls'.counted + WindowCost * Cardinality(FailedUnits) + calls'.here
        /\ stepAt = "single" => calls'.here = 1
        /\ calls'.sent \in Nat /\ calls'.here \in Nat /\ calls'.counted \in Nat /\ calls'.late \in Nat
    BY <1>g, <1>n
  <2>4. /\ WindowedRun /\ unit \in 1..PlannedWindows /\ WindowCost \in {1, 2} /\ runStatus = "running"
        /\ calls.counted < MaxTotalCalls
    BY <1>g, <1>w, <2>1
  <2>5. calls'.sent <= 2 * unit /\ calls'.late <= 2 /\ calls'.counted <= MaxTotalCalls + WindowCost' - 1
    BY <1>t, <2>1, <2>3, <2>4
  <2>6. WindowedRun'
    BY <1>g, <1>r, <1>t, <2>1, <2>3, <2>4, <2>5 DEF WindowedRun
  <2>7. CompletedIsWholeRun'
    BY <1>g, <2>4 DEF CompletedIsWholeRun
  <2> QED BY <1>g, <2>2, <2>6, <2>7 DEF RunIInv
\* The single pass of a short recording.
<1>s. ASSUME mode = "single", stepAt \in {"single", "repair_single"}, Send,
             UNCHANGED <<mode, unit, reports, spent, jobLost>>, content' \in {content, content \cup {unit}},
             \/ stepAt = "single" /\ stepAt' = "repair_single" /\ UNCHANGED runStatus
             \/ stepAt' = "resolve" /\ UNCHANGED runStatus
             \/ stepAt' = "over" /\ runStatus' = "raised"
      PROVE  RunIInv'
  <2>1. SingleRun /\ unit \in AllUnits
    BY <1>s, UnitsFinite DEF RunIInv, SingleRun
  <2>2. content' \in SUBSET AllUnits
    BY <1>s, <1>t, <2>1 DEF RunTypes
  <2>3. RunTypes'
    BY <1>r, <1>s, <1>t, <2>2, Sent DEF RunTypes, RunSteps, RunStates
  <2>4. calls'.sent = calls.sent + 1 /\ calls.sent \in Nat
    BY <1>s, <1>t, Sent DEF RunTypes
  <2>5. SingleRun'
    BY <1>s, <2>1, <2>4 DEF SingleRun
  <2> QED BY <1>s, <2>3, <2>5 DEF RunIInv
<1>x. ASSUME mode = "windowed", stepAt \in {"single", "repair_single"}, Send, SingleRaises,
             UNCHANGED <<mode, spent, jobLost>>
      PROVE  RunIInv'
  <2>1. /\ InWindow /\ reports' = [reports EXCEPT ![unit] = "failed"] /\ stepAt' = "window_failed"
        /\ UNCHANGED <<unit, content, runStatus>>
    BY <1>x DEF SingleRaises, InWindow
  <2> QED BY <1>n, <1>t, <1>v, <1>x, <2>1, Sent
<1>8. ASSUME NEW a \in Answers, Single(a) PROVE RunIInv'
  <2>0. stepAt = "single" /\ Send /\ UNCHANGED <<mode, spent, jobLost>> /\ mode \in {"single", "windowed"}
    BY <1>8, ModeOf DEF Single
  <2>1. CASE mode = "single"
    BY <1>8, <1>s, <2>0, <2>1 DEF Single, SingleRaises, SingleDone, Raise
  <2>2. CASE mode = "windowed"
    <3>1. \/ SingleRaises
          \/ /\ UNCHANGED <<unit, reports, content, runStatus>>
             /\ stepAt' = "validated" \/ (stepAt' = "repair_single" /\ repairs > 0)
      BY <1>8, <2>2 DEF Single, SingleDone, Repairs
    <3> QED BY <1>g, <1>x, <2>0, <2>2, <3>1
  <2> QED BY <2>0, <2>1, <2>2
<1>9. ASSUME NEW a \in Answers, RepairSingle(a) PROVE RunIInv'
  <2>0. stepAt = "repair_single" /\ Send /\ UNCHANGED <<mode, spent, jobLost>> /\ mode \in {"single", "windowed"}
    BY <1>9, ModeOf DEF RepairSingle
  <2>1. CASE mode = "single"
    BY <1>9, <1>s, <2>0, <2>1 DEF RepairSingle, SingleRaises, SingleDone, Raise
  <2>2. CASE mode = "windowed"
    <3>1. \/ SingleRaises
          \/ UNCHANGED <<unit, reports, content, runStatus>> /\ stepAt' = "validated"
      BY <1>9, <2>2 DEF RepairSingle, SingleDone
    <3> QED BY <1>g, <1>x, <2>0, <2>2, <3>1
  <2> QED BY <2>0, <2>1, <2>2
\* A long recording, between its windows.
<1>b. ASSUME stepAt \in {"window", "window_failed", "window_completed", "merge"}
      PROVE  /\ mode = "windowed" /\ WindowedRun /\ WindowCost \in {1, 2} /\ runStatus = "running" /\ ~ InWindow
             /\ unit \in Nat /\ unit >= 1 /\ unit <= PlannedWindows + 1 /\ content = CompletedUnits
             /\ calls.sent <= 2 * unit /\ calls.late <= 2
             /\ calls.counted <= MaxTotalCalls + WindowCost - 1
             /\ unit = PlannedWindows + 1 => calls.sent <= 2 * PlannedWindows
             /\ calls.sent <= calls.counted + WindowCost * Cardinality(FailedUnits)
             /\ calls.sent \in Nat /\ calls.here \in Nat /\ calls.counted \in Nat /\ calls.late \in Nat
  <2>1. mode = "windowed" /\ WindowedRun /\ runStatus = "running" /\ ~ InWindow /\ WindowCost \in {1, 2}
    BY <1>b, <1>t, ModeOf DEF RunIInv, RunTypes, InWindow, WindowCost
  <2>2. calls.sent \in Nat /\ calls.here \in Nat /\ calls.counted \in Nat /\ calls.late \in Nat
    BY <1>t DEF RunTypes
  <2>3. /\ unit \in Nat /\ unit >= 1 /\ unit <= PlannedWindows + 1
        /\ WindowCost * Cardinality(FailedUnits) \in Nat
    BY <1>t, <2>1 DEF WindowedRun
  <2>4. calls.sent <= calls.counted + WindowCost * Cardinality(FailedUnits) + 0
    BY <2>1 DEF WindowedRun
  <2>5. calls.sent <= calls.counted + WindowCost * Cardinality(FailedUnits)
    BY <2>2, <2>3, <2>4
  <2> QED BY <2>1, <2>2, <2>3, <2>5 DEF WindowedRun
<1>10. CASE SkipWindow
  <2>1. /\ stepAt = "window" /\ stepAt' = "window" /\ unit <= PlannedWindows /\ unit' = unit + 1 /\ spent' = TRUE
        /\ reports' = [reports EXCEPT ![unit] = "skipped"]
        /\ UNCHANGED <<mode, content, calls, jobLost, runStatus>>
    BY <1>10 DEF SkipWindow
  <2>2. /\ unit \in AllUnits /\ reports[unit] = "todo" /\ calls.late = 0 /\ calls.sent <= 2 * (unit - 1)
        /\ \A u \in AllUnits : (u < unit => reports[u] # "todo") /\ (u > unit => reports[u] = "todo")
    <3>1. unit \in AllUnits
      BY <1>b, <1>t, <2>1, UnitsFinite
    <3> QED BY <1>b, <2>1, <3>1 DEF WindowedRun
  <2>3. /\ reports' \in [AllUnits -> {"todo", "completed", "failed", "skipped"}]
        /\ reports'[unit] = "skipped" /\ \A v \in AllUnits \ {unit} : reports'[v] = reports[v]
        /\ CompletedUnits' = CompletedUnits /\ FailedUnits' = FailedUnits
    BY <1>t, <2>1, <2>2, UnitReported
  <2>4. RunTypes'
    BY <1>b, <1>r, <1>t, <2>1, <2>3 DEF RunTypes
  <2>5. WindowCost' = WindowCost /\ ~ InWindow'
    BY <1>b, <1>r, <2>1 DEF WindowCost, InWindow
  <2>6. \A u \in AllUnits : /\ u < unit + 1 => reports'[u] # "todo"
                            /\ u >= unit + 1 => reports'[u] = "todo"
    BY <1>b, <2>1, <2>2, <2>3, UnitsFinite
  <2>7. /\ unit' = unit + 1 /\ unit' \in 1..(PlannedWindows + 1) /\ content' = CompletedUnits'
        /\ calls'.late = 0 /\ calls'.sent <= 2 * (unit' - 1) /\ calls'.sent <= 2 * unit' /\ calls'.late <= 2
        /\ unit' = PlannedWindows + 1 => calls'.sent <= 2 * PlannedWindows
        /\ calls'.counted <= MaxTotalCalls + WindowCost' - 1
    BY <1>b, <1>t, <2>1, <2>2, <2>3, <2>5
  <2>8. calls'.sent <= calls'.counted + WindowCost' * Cardinality(FailedUnits') + 0
    BY <1>b, <1>t, <2>1, <2>3, <2>5
  <2>9. /\ \A u \in AllUnits : u < unit' => reports'[u] # "todo"
        /\ \A u \in AllUnits : u > unit' => reports'[u] = "todo"
        /\ unit' \in AllUnits => reports'[unit'] = "todo"
    <3>1. unit' = unit + 1 /\ unit + 1 \in Nat /\ \A u \in AllUnits : u \in Nat
      BY <1>b, <2>1, UnitsFinite
    <3>2. \A u \in AllUnits : u > unit + 1 => u >= unit + 1
      BY <3>1
    <3>3. unit + 1 >= unit + 1
      BY <3>1
    <3>4. unit + 1 \in AllUnits => reports'[unit + 1] = "todo"
      BY <2>6, <3>3
    <3> QED BY <2>6, <3>1, <3>2, <3>4
  <2>10. WindowedRun'
    BY <2>1, <2>5, <2>7, <2>8, <2>9 DEF WindowedRun
  <2>11. CompletedIsWholeRun'
    BY <1>b, <2>1 DEF CompletedIsWholeRun
  <2> QED BY <1>b, <2>1, <2>4, <2>10, <2>11 DEF RunIInv
<1>11. CASE BeginWindow
  <2>1. /\ stepAt = "window" /\ stepAt' = "extract_window" /\ unit <= PlannedWindows
        /\ calls' = [calls EXCEPT !.here = 0] /\ calls.counted < MaxTotalCalls
        /\ UNCHANGED <<mode, unit, reports, content, spent, jobLost, runStatus>>
    BY <1>11, <1>t DEF BeginWindow, Exhausted, RunTypes
  <2>2. /\ calls' \in [sent : Nat, here : Nat, counted : Nat, late : Nat] /\ calls'.here = 0
        /\ calls'.sent = calls.sent /\ calls'.counted = calls.counted /\ calls'.late = calls.late
    BY <1>t, <2>1 DEF RunTypes
  <2>3. RunTypes'
    BY <1>b, <1>r, <1>t, <2>1, <2>2 DEF RunTypes, RunSteps
  <2>4. WindowCost' = WindowCost /\ InWindow' /\ FailedUnits' = FailedUnits /\ CompletedUnits' = CompletedUnits
    BY <1>b, <1>r, <2>1 DEF WindowCost, InWindow, FailedUnits, CompletedUnits
  <2>5. calls.late = 0 /\ calls.sent <= 2 * (unit - 1)
    BY <1>b, <2>1 DEF WindowedRun
  <2>6. /\ calls'.sent <= 2 * (unit - 1) + calls'.here /\ calls'.late <= calls'.here
        /\ calls'.here <= WindowCost' /\ calls'.counted < MaxTotalCalls /\ calls'.late = 0
        /\ calls'.sent <= 2 * unit /\ calls'.late <= 2 /\ calls'.counted <= MaxTotalCalls + WindowCost' - 1
        /\ unit' = unit /\ unit # PlannedWindows + 1 /\ content' = CompletedUnits'
        /\ unit \in 1..(PlannedWindows + 1)
        /\ calls'.counted + calls'.here <= calls'.sent
    <3>1. calls.counted <= calls.sent
      BY <1>t DEF RunTypes
    <3> QED BY <1>b, <1>t, <2>1, <2>2, <2>4, <2>5, <3>1
  <2>7. calls'.sent <= calls'.counted + WindowCost' * Cardinality(FailedUnits') + calls'.here
    BY <1>b, <1>t, <2>2, <2>1, <2>4
  <2>8. WindowedRun'
    BY <1>b, <2>1, <2>2, <2>4, <2>6, <2>7 DEF WindowedRun
  <2>9. CompletedIsWholeRun'
    BY <1>b, <2>1 DEF CompletedIsWholeRun
  <2> QED BY <1>b, <2>1, <2>3, <2>8, <2>9 DEF RunIInv
<1>12. CASE ExtractWindow
  <2>1. /\ stepAt = "extract_window" /\ stepAt' = "single"
        /\ UNCHANGED <<mode, unit, reports, content, calls, spent, jobLost, runStatus>>
        /\ mode = "windowed"
    BY <1>12, ModeOf DEF ExtractWindow
  <2>2. RunTypes'
    BY <1>r, <1>t, <2>1 DEF RunTypes, RunSteps
  <2>3. WindowCost' = WindowCost /\ InWindow /\ InWindow' /\ FailedUnits' = FailedUnits
        /\ CompletedUnits' = CompletedUnits
    BY <1>r, <2>1 DEF WindowCost, InWindow, FailedUnits, CompletedUnits
  <2>4. WindowedRun /\ runStatus = "running"
    BY <1>w, <2>1, <2>3
  <2>5. WindowedRun'
    BY <1>t, <2>1, <2>3, <2>4 DEF WindowedRun
  <2>6. CompletedIsWholeRun'
    BY <2>1, <2>4 DEF CompletedIsWholeRun
  <2> QED BY <2>1, <2>2, <2>5, <2>6 DEF RunIInv
<1>13. CASE WindowValidated
  <2>0. stepAt = "validated" /\ InWindow /\ mode = "windowed" /\ UNCHANGED <<mode, unit, spent, jobLost, runStatus>>
    BY <1>13, ModeOf DEF WindowValidated, InWindow
  <2>1. CASE jobLost
    <3>1. /\ reports' = [reports EXCEPT ![unit] = "failed"] /\ stepAt' = "window_failed"
          /\ UNCHANGED <<content, calls>>
      BY <1>13, <2>1 DEF WindowValidated
    <3>2. /\ calls' \in [sent : Nat, here : Nat, counted : Nat, late : Nat]
          /\ calls'.here <= calls'.sent /\ calls'.counted <= calls'.sent /\ calls'.late <= calls'.sent
      BY <1>t, <3>1 DEF RunTypes
    <3>3. /\ calls'.here <= WindowCost /\ calls'.counted = calls.counted /\ calls'.late <= calls'.here
          /\ calls'.sent <= 2 * (unit - 1) + calls'.here
          /\ calls'.sent <= calls'.counted + WindowCost * Cardinality(FailedUnits) + calls'.here
      BY <1>w, <2>0, <3>1
    <3> QED BY <1>v, <2>0, <2>1, <3>1, <3>2, <3>3
  <2>2. CASE ~ jobLost
    <3>1. /\ reports' = [reports EXCEPT ![unit] = "completed"] /\ stepAt' = "window_completed"
          /\ content' = content \cup {unit} /\ calls' = [calls EXCEPT !.counted = calls.counted + calls.here]
      BY <1>13, <2>2 DEF WindowValidated, WindowCalls
    <3>2. /\ calls' \in [sent : Nat, here : Nat, counted : Nat, late : Nat]
          /\ calls'.counted = calls.counted + calls.here /\ calls'.here = calls.here
          /\ calls'.sent = calls.sent /\ calls'.late = calls.late
      BY <1>t, <3>1 DEF RunTypes
    <3>3. /\ reports' \in [AllUnits -> {"todo", "completed", "failed", "skipped"}]
          /\ reports'[unit] = "completed" /\ \A v \in AllUnits \ {unit} : reports'[v] = reports[v]
          /\ CompletedUnits' = CompletedUnits \cup {unit} /\ FailedUnits' = FailedUnits
      BY <1>t, <1>w, <2>0, <3>1, UnitReported
    <3>4. WindowCost' = WindowCost /\ ~ InWindow'
      BY <1>r, <2>0, <3>1 DEF WindowCost, InWindow
    <3>5. calls'.sent <= calls'.counted + WindowCost' * Cardinality(FailedUnits')
          /\ calls'.counted <= calls'.sent
      <4> DEFINE lost == WindowCost * Cardinality(FailedUnits)
      <4>1. lost \in Nat /\ calls.sent <= calls.counted + lost + calls.here
        BY <1>t, <1>w, <2>0
      <4>2. WindowCost' * Cardinality(FailedUnits') = lost
        BY <3>3, <3>4
      <4> HIDE DEF lost
      <4>3. calls'.sent <= calls'.counted + lost
        BY <1>w, <2>0, <3>2, <4>1
      <4>4. calls.counted + calls.here <= calls.sent
        BY <1>w, <2>0 DEF WindowedRun
      <4> QED BY <3>2, <4>2, <4>3, <4>4
    <3>6. RunTypes'
      BY <1>r, <1>t, <1>w, <2>0, <3>1, <3>2, <3>3, <3>5 DEF RunTypes, RunSteps
    <3>7. /\ unit' = unit /\ unit \in 1..PlannedWindows /\ content' = CompletedUnits'
          /\ stepAt' = "window_completed" /\ reports'[unit] # "todo" /\ ~ InWindow'
          /\ unit' \in 1..(PlannedWindows + 1) /\ unit' # PlannedWindows + 1 /\ unit' <= PlannedWindows
          /\ calls'.sent <= 2 * unit' /\ calls'.late <= 2 /\ calls'.counted <= MaxTotalCalls + WindowCost' - 1
      BY <1>t, <1>w, <2>0, <3>1, <3>2, <3>3, <3>4
    <3>8. /\ \A u \in AllUnits : u < unit' => reports'[u] # "todo"
          /\ \A u \in AllUnits : u > unit' => reports'[u] = "todo"
      BY <1>w, <2>0, <3>3, <3>7, UnitsFinite DEF WindowedRun
    <3>9. calls'.sent <= calls'.counted + WindowCost' * Cardinality(FailedUnits') + 0
      BY <1>t, <1>w, <2>0, <3>2, <3>3, <3>4, <3>5
    <3>10. WindowedRun'
      BY <3>7, <3>8, <3>9 DEF WindowedRun
    <3>11. CompletedIsWholeRun'
      BY <1>w, <2>0 DEF CompletedIsWholeRun
    <3> QED BY <2>0, <3>6, <3>10, <3>11 DEF RunIInv
  <2> QED BY <2>1, <2>2
<1>14. CASE WindowOver
  <2>1. /\ stepAt \in {"window_completed", "window_failed"} /\ stepAt' = "window" /\ unit' = unit + 1 /\ ~ jobLost
        /\ UNCHANGED <<mode, reports, content, calls, spent, jobLost, runStatus>>
    BY <1>14 DEF WindowOver, StageReported, Reporting, ReportingSteps
  <2>2. /\ unit <= PlannedWindows /\ reports[unit] # "todo" /\ calls.late = 0
        /\ \A u \in AllUnits : (u < unit => reports[u] # "todo") /\ (u > unit => reports[u] = "todo")
    BY <1>b, <1>t, <2>1 DEF WindowedRun, RunTypes
  <2>3. RunTypes'
    BY <1>b, <1>r, <1>t, <2>1 DEF RunTypes, RunSteps
  <2>4. WindowCost' = WindowCost /\ ~ InWindow' /\ FailedUnits' = FailedUnits /\ CompletedUnits' = CompletedUnits
    BY <1>b, <1>r, <2>1 DEF WindowCost, InWindow, FailedUnits, CompletedUnits
  <2>5. /\ unit' = unit + 1 /\ unit' \in 1..(PlannedWindows + 1) /\ content' = CompletedUnits'
        /\ calls'.late = 0 /\ calls'.sent <= 2 * (unit' - 1) /\ calls'.sent <= 2 * unit' /\ calls'.late <= 2
        /\ unit' = PlannedWindows + 1 => calls'.sent <= 2 * PlannedWindows
        /\ calls'.counted <= MaxTotalCalls + WindowCost' - 1
    BY <1>b, <1>t, <2>1, <2>2, <2>4
  <2>6. calls'.sent <= calls'.counted + WindowCost' * Cardinality(FailedUnits') + 0
    BY <1>b, <1>t, <2>1, <2>4
  <2>7. /\ \A u \in AllUnits : u < unit' => reports'[u] # "todo"
        /\ \A u \in AllUnits : u > unit' => reports'[u] = "todo"
        /\ unit' \in AllUnits => reports'[unit'] = "todo"
    <3>1. unit' = unit + 1 /\ unit \in Nat /\ reports' = reports /\ \A u \in AllUnits : u \in Nat
      BY <1>b, <2>1, UnitsFinite
    <3>2. \A u \in AllUnits : u < unit + 1 => reports[u] # "todo"
      BY <2>2, <3>1
    <3> QED BY <2>2, <3>1, <3>2
  <2>8. WindowedRun'
    BY <2>1, <2>4, <2>5, <2>6, <2>7 DEF WindowedRun
  <2>9. CompletedIsWholeRun'
    BY <1>b, <2>1 DEF CompletedIsWholeRun
  <2> QED BY <1>b, <2>1, <2>3, <2>8, <2>9 DEF RunIInv
\* A long run ends, or goes from its last window to the merge.
<1>z. ASSUME stepAt \in {"window", "merge"}, UNCHANGED <<mode, unit, reports, content, calls, spent, jobLost>>,
             \/ stepAt' = "over"
             \/ stepAt' = "merge" /\ unit = PlannedWindows + 1 /\ content # {} /\ UNCHANGED runStatus,
             runStatus' \in RunStates, CompletedIsWholeRun'
      PROVE  RunIInv'
  <2>1. RunTypes'
    BY <1>b, <1>r, <1>t, <1>z DEF RunTypes, RunSteps
  <2>2. WindowCost' = WindowCost /\ ~ InWindow' /\ FailedUnits' = FailedUnits /\ CompletedUnits' = CompletedUnits
    BY <1>b, <1>r, <1>z DEF WindowCost, InWindow, FailedUnits, CompletedUnits
  <2>3. calls'.sent <= calls'.counted + WindowCost' * Cardinality(FailedUnits') + 0
    BY <1>b, <1>t, <1>z, <2>2
  <2>4. /\ unit' = unit /\ unit \in 1..(PlannedWindows + 1) /\ content' = CompletedUnits'
        /\ calls'.late <= 2 /\ calls'.sent <= 2 * unit /\ calls'.counted <= MaxTotalCalls + WindowCost' - 1
        /\ unit = PlannedWindows + 1 => calls'.sent <= 2 * PlannedWindows
        /\ stepAt' = "merge" => calls'.sent <= 2 * (unit' - 1)
        /\ \A u \in AllUnits : (u < unit => reports'[u] # "todo") /\ (u > unit => reports'[u] = "todo")
        /\ unit \in AllUnits => reports'[unit] = "todo"
    <3>1. /\ \A u \in AllUnits : (u < unit => reports[u] # "todo") /\ (u > unit => reports[u] = "todo")
          /\ unit \in AllUnits => reports[unit] = "todo"
      BY <1>b, <1>z DEF WindowedRun
    <3> QED BY <1>b, <1>t, <1>z, <2>2, <3>1
  <2>5. WindowedRun'
    BY <1>z, <2>2, <2>3, <2>4 DEF WindowedRun
  <2> QED BY <1>b, <1>z, <2>1, <2>5 DEF RunIInv
<1>15. CASE EndOfWindows
  <2>1. /\ stepAt = "window" /\ unit > PlannedWindows /\ UNCHANGED <<mode, unit, reports, content, calls, spent, jobLost>>
        /\ \/ stepAt' = "over" /\ runStatus' = "raised"
           \/ stepAt' = "merge" /\ content # {} /\ UNCHANGED runStatus
    BY <1>15 DEF EndOfWindows, Raise
  <2>2. unit = PlannedWindows + 1 /\ runStatus = "running"
    BY <1>b, <1>t, <2>1
  <2>3. runStatus' \in RunStates /\ CompletedIsWholeRun'
    BY <2>1, <2>2 DEF RunStates, CompletedIsWholeRun
  <2> QED BY <1>z, <2>1, <2>2, <2>3
<1>16. ASSUME NEW valid \in BOOLEAN, NEW issues \in BOOLEAN, NEW review \in BOOLEAN, Merge(valid, issues, review)
       PROVE  RunIInv'
  <2>1. /\ stepAt = "merge" /\ stepAt' = "over" /\ UNCHANGED <<mode, unit, reports, content, calls, spent, jobLost>>
        /\ runStatus' = "raised" \/ runStatus' = MergedStatus(issues, review)
    BY <1>16 DEF Merge, Raise
  <2>2. mode = "windowed" /\ content = CompletedUnits /\ content # {} /\ unit = PlannedWindows + 1 /\ WindowedRun
    BY <1>b, <2>1 DEF WindowedRun
  <2>3. Units(mode) = 1..PlannedWindows
    BY <2>2 DEF Units
  <2>4. CASE runStatus' = "raised"
    BY <1>z, <2>1, <2>4 DEF RunStates, CompletedIsWholeRun
  <2>5. CASE runStatus' = MergedStatus(issues, review)
    <3> DEFINE open == \E u \in 1..PlannedWindows : reports[u] \in {"failed", "skipped"}
    <3>1. runStatus' = CASE ~ open /\ ~ issues /\ ~ review -> "completed"
                      [] open -> "partially_completed"
                      [] OTHER -> "completed_with_review"
      BY <2>3, <2>5 DEF MergedStatus
    <3>2. runStatus' \in RunStates /\ (runStatus' = "partially_completed" <=> open)
      <4> HIDE DEF open
      <4> QED BY <3>1 DEF RunStates
    <3>3. \A u \in AllUnits : reports[u] = "completed" => u \in 1..PlannedWindows
      <4>1. \A u \in AllUnits : u \in Nat /\ u >= 1
        BY UnitsFinite
      <4>2. \A u \in AllUnits : u >= PlannedWindows + 1 => reports[u] = "todo"
        <5>1. \A u \in AllUnits : u = unit \/ u > unit => reports[u] = "todo"
          BY <2>1, <2>2 DEF WindowedRun
        <5> QED BY <1>t, <2>2, <4>1, <5>1
      <4> QED BY <1>t, <4>1, <4>2
    <3>4. \A u \in 1..PlannedWindows : u \in AllUnits /\ reports[u] \in {"completed", "failed", "skipped"}
      BY <1>t, <2>2, UnitsFinite DEF WindowedRun, RunTypes
    <3>5. open <=> content # 1..PlannedWindows
      BY <2>2, <3>3, <3>4 DEF CompletedUnits
    <3>6. Units(mode)' = 1..PlannedWindows
      BY <2>1, <2>3
    <3> HIDE DEF open
    <3>7. CompletedIsWholeRun'
      BY <2>1, <2>2, <3>2, <3>5, <3>6 DEF CompletedIsWholeRun
    <3> QED BY <1>z, <2>1, <3>2, <3>7
  <2> QED BY <2>1, <2>4, <2>5
\* The report of a stage finds the job lost.
<1>17. CASE ReportRaises
  <2>1. /\ stepAt \in ReportingSteps /\ stepAt' = "over" /\ runStatus' = "raised"
        /\ UNCHANGED <<mode, unit, reports, content, calls, spent, jobLost>>
    BY <1>17 DEF ReportRaises, Reporting
  <2>2. mode # "none" /\ mode \in {"none", "focused", "single", "windowed"}
    BY <1>t, <2>1, ModeOf DEF ReportingSteps, RunTypes
  <2>3. RunTypes'
    BY <1>r, <1>t, <2>1, <2>2 DEF RunTypes, RunSteps, RunStates
  <2>4. CompletedUnits' = CompletedUnits /\ FailedUnits' = FailedUnits /\ ~ InWindow'
    BY <2>1 DEF CompletedUnits, FailedUnits, InWindow
  <2>5. mode = "focused" => FocusedRun'
    BY <2>1, <2>4 DEF RunIInv, FocusedRun
  <2>6. mode = "single" => SingleRun'
    BY <2>1 DEF RunIInv, SingleRun
  <2>7. mode = "windowed" => WindowedRun' /\ CompletedIsWholeRun'
    <3> SUFFICES ASSUME mode = "windowed" PROVE WindowedRun' /\ CompletedIsWholeRun'
      OBVIOUS
    <3>1. WindowedRun /\ WindowCost' = WindowCost
      BY <1>r, <2>2 DEF RunIInv, WindowCost
    <3>2. calls' = calls /\ calls.sent <= calls.counted + WindowCost * Cardinality(FailedUnits) + 0
      <4>1. CASE InWindow
        <5>1. stepAt = "extract_window"
          BY <2>1, <4>1 DEF ReportingSteps, InWindow
        <5> QED BY <2>1, <3>1, <4>1, <5>1 DEF WindowedRun
      <4>2. CASE ~ InWindow
        BY <2>1, <3>1, <4>2 DEF WindowedRun
      <4> QED BY <4>1, <4>2
    <3>3. calls'.sent <= calls'.counted + WindowCost' * Cardinality(FailedUnits') + 0
      BY <2>4, <3>1, <3>2
    <3>4. WindowedRun'
      BY <2>1, <2>4, <3>1, <3>3 DEF WindowedRun
    <3> QED BY <2>1, <3>4 DEF CompletedIsWholeRun
  <2> QED BY <2>1, <2>2, <2>3, <2>5, <2>6, <2>7 DEF RunIInv
\* The job is lost, or the budget runs out: nothing else changes.
<1>18. ASSUME LoseJob \/ RunOut PROVE RunIInv'
  <2>1. /\ UNCHANGED <<mode, stepAt, unit, reports, content, calls, runStatus>> /\ stepAt # "idle"
        /\ jobLost' \in {TRUE, jobLost} /\ spent' \in {TRUE, spent}
    BY <1>18, ModeOf DEF LoseJob, RunOut
  <2>2. mode # "none" /\ mode \in {"none", "focused", "single", "windowed"} /\ repairs' = repairs
    BY <1>r, <1>t, <2>1, ModeOf DEF RunTypes
  <2>3. RunTypes'
    <3>1. spent' \in BOOLEAN /\ jobLost' \in BOOLEAN
      BY <1>t, <2>1 DEF RunTypes
    <3>2. ~ jobLost' => ~ jobLost
      BY <2>1
    <3> QED BY <1>t, <2>1, <2>2, <3>1, <3>2 DEF RunTypes
  <2>4. CompletedUnits' = CompletedUnits /\ FailedUnits' = FailedUnits /\ (InWindow' <=> InWindow)
        /\ WindowCost' = WindowCost
    BY <2>1, <2>2 DEF CompletedUnits, FailedUnits, InWindow, WindowCost
  <2>5. mode = "focused" => FocusedRun'
    BY <2>1, <2>4 DEF RunIInv, FocusedRun
  <2>6. mode = "single" => SingleRun'
    BY <2>1 DEF RunIInv, SingleRun
  <2>7. mode = "windowed" => WindowedRun' /\ CompletedIsWholeRun'
    BY <2>1, <2>2, <2>4 DEF RunIInv, WindowedRun, CompletedIsWholeRun, Units
  <2> QED BY <2>1, <2>2, <2>3, <2>5, <2>6, <2>7 DEF RunIInv
<1> QED
  BY <1>1, <1>2, <1>3, <1>4, <1>5, <1>6, <1>7, <1>8, <1>9, <1>10, <1>11, <1>12, <1>13, <1>14, <1>15, <1>16,
     <1>17, <1>18 DEF RunNext, RunStep

\* What the budget of a run with one repair per window allows, any greater number allows.
LEMMA CostOfRepairs ==
    ASSUME NEW r \in Nat, NEW f \in Nat
    PROVE  /\ f * (1 + r) \in Nat /\ f <= f * (1 + r) /\ (1 + r) * f = f * (1 + r)
           /\ r > 0 => 2 * f <= f * (1 + r)
<1>1. f * (1 + r) = f + f * r /\ f * r \in Nat /\ (1 + r) * f = f * (1 + r)
  OBVIOUS
<1>2. r > 0 => f * r = f + f * (r - 1) /\ f * (r - 1) \in Nat
  OBVIOUS
<1> QED BY <1>1, <1>2

LEMMA RunSafe == RunIInv => RunInv
<1> SUFFICES ASSUME RunIInv PROVE RunInv
  OBVIOUS
<1> USE RunAssumption
<1>t. /\ RunTypes /\ PlannedWindows \in Nat /\ MaxTotalCalls \in Nat /\ Cardinality(FailedUnits) \in Nat
      /\ LastUnit \in Nat /\ LastUnit >= 3 /\ LastUnit >= PlannedWindows /\ Cardinality(AllUnits) = LastUnit
      /\ calls.sent \in Nat /\ calls.here \in Nat /\ calls.counted \in Nat /\ calls.late \in Nat
  BY FailedFinite, UnitsFinite DEF RunIInv, RunTypes
<1>1. /\ mode = "none" => unit = 1 /\ calls.sent = 0
      /\ mode = "focused" => unit \in 1..3 /\ calls.sent <= 6
      /\ mode = "single" => unit = 1 /\ calls.sent <= 2
      /\ mode = "windowed" => /\ unit \in 1..(PlannedWindows + 1) /\ calls.sent <= 2 * unit /\ calls.late <= 2
                              /\ unit = PlannedWindows + 1 => calls.sent <= 2 * PlannedWindows
      /\ mode \in {"none", "focused", "single", "windowed"}
  BY <1>t DEF RunIInv, RunTypes, Unstarted, FocusedRun, SingleRun, WindowedRun
<1>2. unit \in 1..(LastUnit + 1) /\ calls.sent <= 2 * LastUnit
  <2>1. mode = "windowed" => calls.sent <= 2 * PlannedWindows
    BY <1>1, <1>t
  <2> QED BY <1>1, <1>t, <2>1
<1>3. RunTypeOK
  <2>1. \A k \in DOMAIN calls : calls[k] \in 0..(2 * LastUnit)
    <3>1. calls \in [sent : Nat, here : Nat, counted : Nat, late : Nat]
          /\ calls.here <= calls.sent /\ calls.counted <= calls.sent /\ calls.late <= calls.sent
      BY <1>t DEF RunTypes
    <3>2. DOMAIN calls = {"sent", "here", "counted", "late"}
      BY <3>1
    <3>3. /\ calls.sent \in 0..(2 * LastUnit) /\ calls.here \in 0..(2 * LastUnit)
          /\ calls.counted \in 0..(2 * LastUnit) /\ calls.late \in 0..(2 * LastUnit)
      BY <1>2, <1>t, <3>1
    <3> QED BY <3>2, <3>3
  <2> QED BY <1>1, <1>2, <1>t, <2>1 DEF RunTypeOK, RunTypes, RunStates
<1>4. CompletedIsWholeRun
  BY DEF RunIInv, CompletedIsWholeRun
<1>5. FailureKeepsTheRest
  BY DEF RunIInv, FocusedRun, WindowedRun, CompletedUnits, FailureKeepsTheRest
<1>6. CallsWithinBudget
  <2>1. mode # "windowed" => calls.sent <= 6
    BY <1>1, <1>t
  <2>2. ASSUME mode = "windowed"
        PROVE  calls.sent <= MaxTotalCalls + repairs + (1 + repairs) * Cardinality(FailedUnits)
    <3> DEFINE f == Cardinality(FailedUnits)
               most == f * (1 + repairs)
    <3>1. WindowedRun /\ repairs \in Nat /\ f \in Nat
      BY <1>t, <2>2 DEF RunIInv, RunTypes
    <3>2. /\ WindowCost \in {1, 2} /\ WindowCost - 1 <= repairs
          /\ calls.sent <= MaxTotalCalls + WindowCost - 1 + WindowCost * f
      <4>1. WindowCost \in {1, 2} /\ WindowCost - 1 <= repairs
        BY <3>1 DEF WindowCost
      <4>2. CASE InWindow
        <5>1. calls.sent <= calls.counted + WindowCost * f + calls.here /\ calls.here <= WindowCost
              /\ calls.counted < MaxTotalCalls
          BY <3>1, <4>2 DEF WindowedRun
        <5>2. WindowCost * f \in Nat
          BY <3>1, <4>1
        <5> HIDE DEF f
        <5> QED BY <1>t, <4>1, <5>1, <5>2
      <4>3. CASE ~ InWindow
        <5>1. calls.sent <= calls.counted + WindowCost * f + 0 /\ calls.counted <= MaxTotalCalls + WindowCost - 1
          BY <3>1, <4>3 DEF WindowedRun
        <5>2. WindowCost * f \in Nat
          BY <3>1, <4>1
        <5> HIDE DEF f
        <5> QED BY <1>t, <4>1, <5>1, <5>2
      <4> QED BY <4>1, <4>2, <4>3
    <3>3. most \in Nat /\ f <= most /\ (1 + repairs) * f = most /\ (repairs > 0 => 2 * f <= most)
      BY <3>1, CostOfRepairs
    <3>4. WindowCost = 2 => repairs > 0
      BY <3>1 DEF WindowCost
    <3> HIDE DEF f, most
    <3>5. calls.sent <= MaxTotalCalls + repairs + most
      BY <1>t, <3>1, <3>2, <3>3, <3>4
    <3> QED BY <3>3, <3>5 DEF f
  <2> QED BY <2>1, <2>2 DEF CallsWithinBudget
<1>7. LostJobStops
  <2>1. calls.late <= calls.sent
    BY <1>t DEF RunTypes
  <2> QED BY <1>1, <1>t, <2>1 DEF LostJobStops
<1> QED BY <1>3, <1>4, <1>5, <1>6, <1>7 DEF RunInv

\* Whatever the model answers, however many windows a recording has and whatever the budget: a
\* run is completed only if all of it was, a failed pass or window takes nothing from the others,
\* the calls stay within the budget but for failed windows, and a worker that lost its job makes
\* no more than the two calls of its window (MuraPipeline.process, _process_long).
THEOREM RunCorrect == RunSpec => []RunInv
<1> QED BY RunStart, RunStepKeeps, RunSafe, PTL DEF RunSpec

-----------------------------------------------------------------------------
(* Calls of the language model and of the recognisers (ModelCalls,         *)
(* Transcription).                                                         *)

ModelSpec == ModelInit /\ [][ModelNext]_modelVars

Chats == [at : {"idle", "request", "answered", "failed"}, model : 1..Models, attempt : 1..Attempts,
          errors : Seq(Outcomes), raised : {"none", "retry", "terminal"}]

\* The requests made before the models in turn, and before the attempt.
Earlier == (chat.model - 1) * Attempts + (chat.attempt - 1)

\* A call has made the requests of the models it has given up and of the attempts before the
\* one at hand, and has kept one error of each such model.
ChatFits ==
    CASE chat.at = "idle" -> sent = 0 /\ chat.model = 1 /\ chat.attempt = 1 /\ chat.errors = <<>>
      [] chat.at = "request" -> sent = Earlier /\ Len(chat.errors) = chat.model - 1
      [] chat.at = "answered" -> sent = Earlier + 1 /\ Len(chat.errors) = chat.model - 1
      [] OTHER -> \/ sent = Earlier + 1 /\ Len(chat.errors) = chat.model - 1
                  \/ /\ chat.model = Models /\ chat.attempt = Attempts
                     /\ sent = Earlier + 1 /\ Len(chat.errors) = Models
                     /\ chat.raised = Disposition(chat.errors)

ModelIInv ==
    /\ chat \in Chats /\ sent \in Nat /\ callLedger \in [ok : Nat, failed : Nat]
    /\ ChatFits /\ UsageOfEveryRequest

LEMMA ModelStart == ModelInit => ModelIInv
<1> SUFFICES ASSUME ModelInit PROVE ModelIInv
  OBVIOUS
<1>1. Attempts \in Nat \ {0} /\ Models \in Nat \ {0}
  BY ModelAssumption
<1>2. chat \in Chats
  BY <1>1 DEF ModelInit, Chats
<1>3. Len(chat.errors) = 0
  BY DEF ModelInit
<1> QED BY <1>1, <1>2, <1>3 DEF ModelInit, ModelIInv, ChatFits, UsageOfEveryRequest

\* An error more.
LEMMA OneMore ==
    ASSUME NEW s \in Seq(Outcomes), NEW o \in Outcomes
    PROVE  Append(s, o) \in Seq(Outcomes) /\ Len(Append(s, o)) = Len(s) + 1
  OBVIOUS

LEMMA Product == \A m, a \in Nat : (m - 1) * a + (a - 1) + 1 = m * a
  OBVIOUS

LEMMA ModelStep == ModelIInv /\ [ModelNext]_modelVars => ModelIInv'
<1> SUFFICES ASSUME ModelIInv, [ModelNext]_modelVars PROVE ModelIInv'
  OBVIOUS
<1>1. Attempts \in Nat \ {0} /\ Models \in Nat \ {0}
  BY ModelAssumption
<1>2. CASE UNCHANGED modelVars
  BY <1>2 DEF modelVars, ModelIInv, ChatFits, Earlier, UsageOfEveryRequest
<1>3. CASE BeginCall
  <2>1. chat.at = "idle" /\ chat' = [chat EXCEPT !.at = "request"] /\ sent' = sent /\ callLedger' = callLedger
    BY <1>3 DEF BeginCall
  <2>2. chat \in Chats /\ chat.at = "idle"
    BY <2>1 DEF ModelIInv
  <2>3. /\ chat' \in Chats /\ chat'.at = "request" /\ chat'.model = chat.model
        /\ chat'.attempt = chat.attempt /\ chat'.errors = chat.errors
    BY <2>1, <2>2 DEF Chats
  <2>4. sent = 0 /\ chat.model = 1 /\ chat.attempt = 1 /\ chat.errors = <<>>
    BY <2>2 DEF ModelIInv, ChatFits
  <2>5. Len(chat.errors) = 0 /\ (1 - 1) * Attempts = 0
    BY <1>1, <2>4
  <2>6. ChatFits'
    BY <1>1, <2>1, <2>3, <2>4, <2>5 DEF ChatFits, Earlier
  <2>7. UsageOfEveryRequest'
    BY <2>1, <2>2, <2>3 DEF ModelIInv, UsageOfEveryRequest
  <2> QED BY <2>1, <2>3, <2>6, <2>7 DEF ModelIInv
<1>4. ASSUME NEW o \in Outcomes, RequestModel(o) PROVE ModelIInv'
  <2>1. chat.at = "request" /\ sent' = sent + 1
    BY <1>4 DEF RequestModel
  <2>2. /\ chat \in Chats /\ sent \in Nat /\ callLedger \in [ok : Nat, failed : Nat]
        /\ sent = Earlier /\ Len(chat.errors) = chat.model - 1
        /\ callLedger.ok + callLedger.failed = sent /\ callLedger.ok = 0
    BY <2>1 DEF ModelIInv, ChatFits, UsageOfEveryRequest
  <2>3. /\ chat.model \in 1..Models /\ chat.attempt \in 1..Attempts /\ chat.errors \in Seq(Outcomes)
        /\ Len(chat.errors) \in Nat
    BY <2>2 DEF Chats
  <2> DEFINE errors == Append(chat.errors, o)
  <2>4. errors \in Seq(Outcomes) /\ Len(errors) = chat.model
    BY <2>2, <2>3, OneMore
  <2>5. CASE o.kind = "ok"
    <3>1. chat' = [chat EXCEPT !.at = "answered"] /\ callLedger' = [callLedger EXCEPT !.ok = @ + 1]
      BY <1>4, <2>5 DEF RequestModel, Reported
    <3>2. /\ chat' \in Chats /\ chat'.at = "answered" /\ chat'.model = chat.model
          /\ chat'.attempt = chat.attempt /\ chat'.errors = chat.errors
      BY <2>2, <3>1 DEF Chats
    <3>3. callLedger' \in [ok : Nat, failed : Nat] /\ callLedger'.ok = 1 /\ callLedger'.failed = callLedger.failed
      BY <2>2, <3>1
    <3>4. Earlier' = Earlier
      BY <3>2 DEF Earlier
    <3>5. ChatFits'
      BY <2>1, <2>2, <3>2, <3>4 DEF ChatFits
    <3>6. UsageOfEveryRequest'
      BY <2>1, <2>2, <3>2, <3>3 DEF UsageOfEveryRequest
    <3> QED BY <2>1, <2>2, <3>2, <3>3, <3>5, <3>6 DEF ModelIInv
  <2>6. CASE o.kind = "not_json"
    <3>1. chat' = [chat EXCEPT !.at = "failed", !.raised = "terminal"] /\ callLedger' = callLedger
      BY <1>4, <2>6 DEF RequestModel, Reported
    <3>2. /\ chat' \in Chats /\ chat'.at = "failed" /\ chat'.model = chat.model
          /\ chat'.attempt = chat.attempt /\ chat'.errors = chat.errors
      BY <2>2, <3>1 DEF Chats
    <3>3. Earlier' = Earlier
      BY <3>2 DEF Earlier
    <3>4. ChatFits'
      BY <2>1, <2>2, <3>2, <3>3 DEF ChatFits
    <3>5. Len(chat'.errors) < Models /\ sent' - 1 = sent
      <4>1. Len(chat.errors) < Models
        BY <1>1, <2>2, <2>3
      <4> QED BY <2>1, <2>2, <3>2, <4>1
    <3>6. UsageOfEveryRequest'
      BY <2>2, <3>1, <3>2, <3>5 DEF UsageOfEveryRequest
    <3> QED BY <2>1, <2>2, <3>1, <3>2, <3>4, <3>6 DEF ModelIInv
  <2>7. CASE o.kind \notin {"ok", "not_json"}
    <3>1. callLedger' = [callLedger EXCEPT !.failed = @ + 1]
      BY <1>4, <2>7 DEF RequestModel, Reported
    <3>2. callLedger' \in [ok : Nat, failed : Nat] /\ callLedger'.ok = 0 /\ callLedger'.ok + callLedger'.failed = sent'
      BY <2>1, <2>2, <3>1
    <3>3. CASE ~ LastAttempt(o)
      <4>1. chat' = [chat EXCEPT !.attempt = @ + 1]
        BY <1>4, <2>7, <3>3 DEF RequestModel
      <4>2. chat.attempt + 1 \in 1..Attempts
        BY <1>1, <2>3, <3>3 DEF LastAttempt
      <4>3. /\ chat' \in Chats /\ chat'.at = "request" /\ chat'.model = chat.model
            /\ chat'.attempt = chat.attempt + 1 /\ chat'.errors = chat.errors
        BY <2>1, <2>2, <4>1, <4>2 DEF Chats
      <4>4. (chat.model - 1) * Attempts \in Nat
        BY <1>1, <2>3
      <4>5. Earlier' = Earlier + 1
        BY <2>3, <4>3, <4>4 DEF Earlier
      <4>6. ChatFits'
        BY <2>1, <2>2, <4>3, <4>5 DEF ChatFits
      <4>7. UsageOfEveryRequest'
        BY <3>2, <4>3 DEF UsageOfEveryRequest
      <4> QED BY <2>1, <2>2, <3>2, <4>3, <4>6, <4>7 DEF ModelIInv
    <3>4. CASE LastAttempt(o) /\ chat.model < Models
      <4>1. chat' = [chat EXCEPT !.model = @ + 1, !.attempt = 1, !.errors = errors]
        BY <1>4, <2>7, <3>4 DEF RequestModel
      <4>2. chat.model + 1 \in 1..Models /\ 1 \in 1..Attempts /\ chat.attempt = Attempts
        BY <1>1, <2>3, <3>4 DEF LastAttempt
      <4>3. /\ chat' \in Chats /\ chat'.at = "request" /\ chat'.model = chat.model + 1
            /\ chat'.attempt = 1 /\ chat'.errors = errors
        BY <2>1, <2>2, <2>4, <4>1, <4>2 DEF Chats
      <4>4. Earlier + 1 = chat.model * Attempts
        BY <1>1, <2>3, <4>2, Product DEF Earlier
      <4>5. (chat.model + 1 - 1) * Attempts + (1 - 1) = chat.model * Attempts
        BY <1>1, <2>3
      <4>n. chat'.model - 1 = chat.model + 1 - 1 /\ chat'.attempt - 1 = 1 - 1
        BY <2>3, <4>3
      <4>e. Earlier' = (chat.model + 1 - 1) * Attempts + (1 - 1)
        BY <4>n DEF Earlier
      <4>6. Earlier' = Earlier + 1
        BY <4>4, <4>5, <4>e
      <4>7. ChatFits'
        BY <2>1, <2>2, <2>3, <2>4, <4>3, <4>6 DEF ChatFits
      <4>8. UsageOfEveryRequest'
        BY <3>2, <4>3 DEF UsageOfEveryRequest
      <4> QED BY <2>1, <2>2, <3>2, <4>3, <4>7, <4>8 DEF ModelIInv
    <3>5. CASE LastAttempt(o) /\ ~ (chat.model < Models)
      <4>1. chat' = [chat EXCEPT !.at = "failed", !.errors = errors, !.raised = Disposition(errors)]
        BY <1>4, <2>7, <3>5 DEF RequestModel
      <4>2. Disposition(errors) \in {"retry", "terminal"}
        BY DEF Disposition
      <4>3. /\ chat' \in Chats /\ chat'.at = "failed" /\ chat'.model = chat.model
            /\ chat'.attempt = chat.attempt /\ chat'.errors = errors
            /\ chat'.raised = Disposition(errors)
        BY <2>2, <2>4, <4>1, <4>2 DEF Chats
      <4>4. chat.model = Models /\ chat.attempt = Attempts
        BY <1>1, <2>3, <3>5 DEF LastAttempt
      <4>5. Earlier' = Earlier
        BY <4>3 DEF Earlier
      <4>6. Len(chat'.errors) = Models /\ chat'.raised = Disposition(chat'.errors)
        BY <2>4, <4>3, <4>4
      <4>7. ChatFits'
        BY <2>1, <2>2, <4>3, <4>4, <4>5, <4>6 DEF ChatFits
      <4>8. UsageOfEveryRequest'
        BY <1>1, <3>2, <4>3, <4>6 DEF UsageOfEveryRequest
      <4> QED BY <2>1, <2>2, <3>2, <4>3, <4>7, <4>8 DEF ModelIInv
    <3> QED BY <3>3, <3>4, <3>5
  <2> QED BY <2>5, <2>6, <2>7
<1> QED BY <1>2, <1>3, <1>4 DEF ModelNext

\* An error that shows a status and is the first of all decides.
LEMMA FirstShown ==
    ASSUME NEW s \in Seq(Outcomes), 1 <= Len(s), s[1].code # 0
    PROVE  Disposition(s) = IF Passing(s[1].code) THEN "retry" ELSE "terminal"
<1> DEFINE first == CHOOSE i \in Shown(s) : \A j \in Shown(s) : i <= j
<1>1. 1 \in Shown(s) /\ \A j \in Shown(s) : j \in Nat /\ 1 <= j
  BY DEF Shown
<1>2. first \in Shown(s) /\ \A j \in Shown(s) : first <= j
  BY <1>1
<1>3. first = 1
  BY <1>1, <1>2
<1> QED BY <1>1, <1>3 DEF Disposition

LEMMA ModelSafe == ModelIInv => ModelInv
<1> SUFFICES ASSUME ModelIInv PROVE ModelInv
  OBVIOUS
<1>1. Attempts \in Nat \ {0} /\ Models \in Nat \ {0}
  BY ModelAssumption
<1>2. /\ chat.at \in {"idle", "request", "answered", "failed"}
      /\ chat.model \in 1..Models /\ chat.attempt \in 1..Attempts
      /\ chat.errors \in Seq(Outcomes) /\ Len(chat.errors) \in Nat
  BY DEF ModelIInv, Chats
<1>3. Earlier + 1 <= Models * Attempts /\ Earlier \in Nat
  <2>1. (chat.model - 1) * Attempts + (Attempts - 1) + 1 = chat.model * Attempts
    BY <1>1, <1>2, Product
  <2>2. chat.model * Attempts <= Models * Attempts
    BY <1>1, <1>2
  <2>3. (chat.model - 1) * Attempts \in Nat /\ chat.model * Attempts \in Nat /\ Models * Attempts \in Nat
    BY <1>1, <1>2
  <2>4. Earlier \in Nat
    <3>1. chat.attempt - 1 \in Nat
      BY <1>1, <1>2
    <3> QED BY <2>3, <3>1 DEF Earlier
  <2>5. Earlier + 1 <= (chat.model - 1) * Attempts + (Attempts - 1) + 1
    BY <1>1, <1>2, <2>3, SMTT(30) DEF Earlier
  <2> QED BY <2>1, <2>2, <2>3, <2>4, <2>5
<1>4. Len(chat.errors) <= Models /\ sent \in Nat /\ sent <= Models * Attempts
  BY <1>1, <1>2, <1>3 DEF ModelIInv, ChatFits
<1>5. ASSUME chat.at = "failed", Len(chat.errors) = Models
      PROVE  sent = Models * Attempts /\ chat.raised = Disposition(chat.errors)
  <2>1. /\ chat.model = Models /\ chat.attempt = Attempts /\ sent = Earlier + 1
        /\ chat.raised = Disposition(chat.errors)
    BY <1>1, <1>2, <1>5 DEF ModelIInv, ChatFits
  <2>2. Earlier + 1 = Models * Attempts
    BY <1>1, <2>1, Product DEF Earlier
  <2> QED BY <2>1, <2>2
<1>6. ModelTypeOK
  BY <1>2, <1>4 DEF ModelIInv, ModelTypeOK, UsageOfEveryRequest
<1>7. FailsWhenSpent
  BY <1>4, <1>5 DEF FailsWhenSpent
<1>8. PrimaryDecides
  <2> SUFFICES ASSUME chat.at = "failed", Len(chat.errors) = Models
               PROVE  /\ (\A i \in 1..Models : chat.errors[i].code \in {429, 503}) => chat.raised = "retry"
                      /\ chat.errors[1].code = 401 => chat.raised = "terminal"
    BY DEF PrimaryDecides
  <2>1. 1 \in 1..Models /\ 1 <= Len(chat.errors)
    BY <1>1
  <2>2. chat.errors[1].code # 0 =>
           chat.raised = IF Passing(chat.errors[1].code) THEN "retry" ELSE "terminal"
    BY <1>2, <1>5, <2>1, FirstShown
  <2>3. Passing(429) /\ Passing(503) /\ ~ Passing(401)
    BY DEF Passing
  <2>4. ASSUME \A i \in 1..Models : chat.errors[i].code \in {429, 503} PROVE chat.raised = "retry"
    BY <2>1, <2>2, <2>3, <2>4
  <2>5. ASSUME chat.errors[1].code = 401 PROVE chat.raised = "terminal"
    BY <2>2, <2>3, <2>5
  <2> QED BY <2>4, <2>5
<1> QED BY <1>6, <1>7, <1>8 DEF ModelIInv, ModelInv

\* For any number of models and attempts: every request to the language model is accounted for,
\* a call fails only when its attempts are spent or cannot help, and the primary model's refusal
\* decides whether it is tried again (request_json, classify_failure).
THEOREM ModelCorrect == ModelSpec => []ModelInv
<1> QED BY ModelStart, ModelStep, ModelSafe, PTL DEF ModelSpec

AsrSpec == AsrInit /\ [][AsrNext]_asrVars

AsrRows == [at : {"idle", "waiting", "deferred", "failed", "done"}, tries : 0..MaxAsrTries]

AsrTypes ==
    /\ provider \in {"none", "worker", "whisper"}
    /\ asr \in [AsrJobs -> AsrRows]
    /\ gpu \in [job : AsrJobs \cup {""}, awaited : BOOLEAN]
    /\ usage \in [AsrJobs -> Nat]

\* Only the own worker has a lock, and before a provider is chosen nothing was sent.
ProviderFits ==
    /\ provider # "worker" => gpu = FreeGpu
    /\ provider = "none" => \A j \in AsrJobs : asr[j].at = "idle" /\ asr[j].tries = 0 /\ usage[j] = 0

AsrIInv == AsrTypes /\ ProviderFits /\ AsrInv

LEMMA AsrStart == AsrInit => AsrIInv
<1> SUFFICES ASSUME AsrInit PROVE AsrIInv
  OBVIOUS
<1>1. AsrTypes
  <2>0. MaxAsrTries \in Nat
    BY AsrAssumption
  <2>1. 0 \in 0..MaxAsrTries
    BY <2>0
  <2>2. [at |-> "idle", tries |-> 0] \in AsrRows
    BY <2>1 DEF AsrRows
  <2> QED BY <2>2 DEF AsrInit, AsrTypes, FreeGpu
<1>2. ProviderFits
  BY DEF AsrInit, ProviderFits
<1>3. AsrTypeOK
  BY <1>1 DEF AsrInit, AsrTypes, AsrRows, FreeGpu, AsrTypeOK
<1>4. OnlyFinalAnswersAreFatal /\ WhisperUsageKept
  BY DEF AsrInit, OnlyFinalAnswersAreFatal, WhisperUsageKept
<1> QED BY <1>1, <1>2, <1>3, <1>4 DEF AsrIInv, AsrInv

\* A step that leaves the provider as chosen, changes one job and loses no history.
LEMMA JobStep ==
    ASSUME AsrIInv, provider # "none", provider' = provider, NEW j \in AsrJobs, NEW item \in AsrRows,
           asr' = [asr EXCEPT ![j] = item],
           gpu' \in [job : AsrJobs \cup {""}, awaited : BOOLEAN], gpu'.job = "" => ~ gpu'.awaited,
           usage' \in [AsrJobs -> Nat], \A i \in AsrJobs \ {j} : usage'[i] = usage[i],
           atFault \subseteq atFault', item.at = "failed" => j \in atFault',
           provider = "whisper" =>
              /\ gpu' = FreeGpu
              /\ usage'[j] = item.tries \/ (item.at = "failed" /\ usage'[j] = item.tries - 1)
    PROVE  AsrIInv'
<1>1. asr' \in [AsrJobs -> AsrRows]
  BY DEF AsrIInv, AsrTypes
<1>2. asr'[j] = item /\ \A i \in AsrJobs \ {j} : asr'[i] = asr[i]
  BY DEF AsrIInv, AsrTypes
<1>3. AsrTypes'
  BY <1>1 DEF AsrIInv, AsrTypes
<1>4. ProviderFits'
  BY DEF AsrIInv, AsrTypes, ProviderFits
<1>5. AsrTypeOK'
  BY <1>3 DEF AsrTypes, AsrTypeOK, AsrRows
<1>6. OnlyFinalAnswersAreFatal'
  BY <1>2 DEF AsrIInv, AsrInv, OnlyFinalAnswersAreFatal
<1>7. WhisperUsageKept'
  BY <1>2 DEF AsrIInv, AsrInv, WhisperUsageKept
<1> QED BY <1>3, <1>4, <1>5, <1>6, <1>7 DEF AsrIInv, AsrInv

\* The client of the job in the lock learns how it ended.
Learns(at) ==
    /\ gpu.job # "" /\ provider' = provider /\ usage' = usage
    /\ asr' = [asr EXCEPT ![gpu.job].at = at]
    /\ gpu' \in [job : AsrJobs \cup {""}, awaited : BOOLEAN] /\ ~ gpu'.awaited
    /\ atFault \subseteq atFault' /\ (at = "failed" => gpu.job \in atFault')

LEMMA AsrStep == AsrIInv /\ [AsrNext]_asrVars => AsrIInv'
<1> SUFFICES ASSUME AsrIInv, [AsrNext]_asrVars PROVE AsrIInv'
  OBVIOUS
<1>t. AsrTypes /\ ProviderFits /\ (gpu.job = "" => ~ gpu.awaited)
  BY DEF AsrIInv, AsrInv, AsrTypeOK
<1>g. FreeGpu \in [job : AsrJobs \cup {""}, awaited : BOOLEAN] /\ FreeGpu.job = "" /\ ~ FreeGpu.awaited
  BY DEF FreeGpu
<1>c. \A s : Concluded(s) \in {"done", "deferred", "failed"}
  BY DEF Concluded
<1>m. MaxAsrTries \in Nat
  BY AsrAssumption
<1>n. "" \notin AsrJobs
  BY AsrAssumption
<1>s. \A j \in AsrJobs : asr[j].tries \in 0..MaxAsrTries /\ (CanSend(j) => asr[j].tries + 1 \in 0..MaxAsrTries)
  <2> SUFFICES ASSUME NEW j \in AsrJobs
               PROVE  asr[j].tries \in 0..MaxAsrTries /\ (CanSend(j) => asr[j].tries + 1 \in 0..MaxAsrTries)
    OBVIOUS
  <2>1. asr[j] \in AsrRows
    BY <1>t DEF AsrTypes
  <2>2. asr[j].tries \in 0..MaxAsrTries
    BY <2>1 DEF AsrRows
  <2>3. CanSend(j) => asr[j].tries < MaxAsrTries
    BY DEF CanSend
  <2> QED BY <1>m, <2>2, <2>3
\* What happens to the job in the lock keeps its number of tries.
<1>l. ASSUME NEW at, gpu.job # "" PROVE
         /\ gpu.job \in AsrJobs /\ provider = "worker"
         /\ [asr EXCEPT ![gpu.job].at = at]
               = [asr EXCEPT ![gpu.job] = [at |-> at, tries |-> asr[gpu.job].tries]]
  <2>1. gpu.job \in AsrJobs /\ provider = "worker"
    <3>1. gpu # FreeGpu
      BY <1>g, <1>l
    <3> QED BY <1>t, <1>l, <3>1 DEF AsrTypes, ProviderFits
  <2>2. asr[gpu.job] \in AsrRows
    BY <1>t, <2>1 DEF AsrTypes
  <2>3. [asr[gpu.job] EXCEPT !.at = at] = [at |-> at, tries |-> asr[gpu.job].tries]
    BY <2>2 DEF AsrRows
  <2> QED BY <2>1, <2>3
<1>a. ASSUME NEW at \in {"done", "deferred", "failed"}, Learns(at) PROVE AsrIInv'
  <2>6. /\ gpu.job # "" /\ provider' = provider /\ usage' = usage
        /\ asr' = [asr EXCEPT ![gpu.job].at = at]
        /\ gpu' \in [job : AsrJobs \cup {""}, awaited : BOOLEAN] /\ ~ gpu'.awaited
        /\ atFault \subseteq atFault' /\ (at = "failed" => gpu.job \in atFault')
    BY <1>a DEF Learns
  <2>1. PICK j \in AsrJobs : j = gpu.job
    BY <1>l, <2>6
  <2>2. provider = "worker" /\ asr' = [asr EXCEPT ![j] = [at |-> at, tries |-> asr[j].tries]]
    BY <1>l, <2>1, <2>6
  <2>3. PICK item \in AsrRows : item = [at |-> at, tries |-> asr[j].tries]
    BY <1>s, <2>1 DEF AsrRows
  <2>4. /\ item.at = at /\ asr' = [asr EXCEPT ![j] = item] /\ usage' \in [AsrJobs -> Nat]
        /\ provider # "none" /\ provider # "whisper"
    BY <1>t, <2>2, <2>3, <2>6 DEF AsrTypes
  <2>5. item.at = "failed" => j \in atFault'
    BY <2>1, <2>4, <2>6
  <2> QED BY <2>1, <2>3, <2>4, <2>5, <2>6, JobStep
\* The lock changes hands, and no job.
<1>k. ASSUME provider = "worker", provider' = provider, asr' = asr, usage' = usage, atFault \subseteq atFault',
             gpu' \in [job : AsrJobs \cup {""}, awaited : BOOLEAN], gpu'.job = "" => ~ gpu'.awaited
      PROVE  AsrIInv'
  <2>1. AsrTypes' /\ ProviderFits'
    BY <1>t, <1>k DEF AsrTypes, ProviderFits
  <2>2. AsrTypeOK' /\ OnlyFinalAnswersAreFatal' /\ WhisperUsageKept'
    BY <1>k DEF AsrIInv, AsrInv, AsrTypeOK, OnlyFinalAnswersAreFatal, WhisperUsageKept
  <2> QED BY <2>1, <2>2 DEF AsrIInv, AsrInv
<1>1. CASE UNCHANGED asrVars
  BY <1>1 DEF asrVars, AsrIInv, AsrInv, AsrTypes, ProviderFits, AsrTypeOK, OnlyFinalAnswersAreFatal,
              WhisperUsageKept
<1>2. ASSUME NEW p \in {"worker", "whisper"}, ChooseProvider(p) PROVE AsrIInv'
  <2>1. provider = "none" /\ provider' = p /\ UNCHANGED <<asr, gpu, usage, atFault>>
    BY <1>2 DEF ChooseProvider
  <2>2. AsrTypes' /\ ProviderFits'
    BY <1>t, <2>1 DEF AsrTypes, ProviderFits
  <2>3. AsrTypeOK' /\ OnlyFinalAnswersAreFatal'
    BY <2>1 DEF AsrIInv, AsrInv, AsrTypeOK, OnlyFinalAnswersAreFatal
  <2>4. WhisperUsageKept'
    BY <1>t, <2>1 DEF ProviderFits, WhisperUsageKept
  <2> QED BY <2>2, <2>3, <2>4 DEF AsrIInv, AsrInv
<1>3. ASSUME NEW j \in AsrJobs, NEW bad \in BOOLEAN, SendToWorker(j, bad) PROVE AsrIInv'
  <2> DEFINE code == CASE bad -> 415
                         [] ~ bad /\ gpu.job # "" -> 429
                         [] OTHER -> 0
             at == IF code = 0 THEN "waiting" ELSE Concluded(code)
  <2>1. /\ provider = "worker" /\ CanSend(j) /\ provider' = provider /\ usage' = usage
        /\ asr' = [asr EXCEPT ![j] = [at |-> at, tries |-> asr[j].tries + 1]]
        /\ gpu' = IF code = 0 THEN [job |-> j, awaited |-> TRUE] ELSE gpu
        /\ atFault' = IF bad THEN atFault \cup {j} ELSE atFault
    BY <1>3 DEF SendToWorker
  <2>2. Concluded(429) = "deferred"
    BY DEF Concluded, RetryableStatus
  <2>3. at \in {"idle", "waiting", "deferred", "failed", "done"} /\ (at = "failed" => bad)
    <3>1. CASE bad
      <4>1. code = 415 /\ 415 # 0
        BY <3>1
      <4>2. at = Concluded(415)
        BY <4>1
      <4> QED BY <1>c, <3>1, <4>2
    <3>2. CASE ~ bad
      <4>1. at = "waiting" \/ at = Concluded(429)
        BY <3>2
      <4> HIDE DEF at
      <4> QED BY <2>2, <3>2, <4>1
    <3> QED BY <3>1, <3>2
  <2>4. at = "failed" => j \in atFault'
    BY <2>1, <2>3
  <2>5. gpu' \in [job : AsrJobs \cup {""}, awaited : BOOLEAN] /\ (gpu'.job = "" => ~ gpu'.awaited)
    BY <1>t, <1>n, <2>1 DEF AsrTypes
  <2>6. usage' \in [AsrJobs -> Nat] /\ atFault \subseteq atFault'
    BY <1>t, <2>1 DEF AsrTypes
  <2> HIDE DEF at, code
  <2>7. PICK item \in AsrRows : item = [at |-> at, tries |-> asr[j].tries + 1]
    BY <1>s, <2>1, <2>3 DEF AsrRows
  <2>8. item.at = at /\ asr' = [asr EXCEPT ![j] = item] /\ provider # "none" /\ provider # "whisper"
    BY <2>1, <2>7
  <2> QED BY <2>1, <2>4, <2>5, <2>6, <2>7, <2>8, JobStep
<1>4. ASSUME NEW j \in AsrJobs,
             NEW o \in {"unreachable", "http_429", "http_503", "http_401", "not_json", "no_text", "transcript"},
             SendToWhisper(j, o)
      PROVE  AsrIInv'
  <2> DEFINE at == CASE o = "transcript" -> "done"
                     [] o = "unreachable" -> "deferred"
                     [] o = "http_429" -> Concluded(429)
                     [] o = "http_503" -> Concluded(503)
                     [] o = "http_401" -> Concluded(401)
                     [] OTHER -> "failed"
  <2>1. /\ provider = "whisper" /\ CanSend(j) /\ provider' = provider /\ gpu' = gpu
        /\ asr' = [asr EXCEPT ![j] = [at |-> at, tries |-> asr[j].tries + 1]]
        /\ usage' = IF WhisperUsage(o) THEN [usage EXCEPT ![j] = @ + 1] ELSE usage
        /\ atFault' = IF o \in {"http_401", "not_json", "no_text"} THEN atFault \cup {j} ELSE atFault
    BY <1>4 DEF SendToWhisper
  <2>2. Concluded(429) = "deferred" /\ Concluded(503) = "deferred" /\ Concluded(401) = "failed"
    BY DEF Concluded, RetryableStatus
  <2>3. /\ at \in {"idle", "waiting", "deferred", "failed", "done"}
        /\ at = "failed" => o \in {"http_401", "not_json", "no_text"}
        /\ ~ WhisperUsage(o) => at = "failed"
    BY <2>2 DEF WhisperUsage
  <2>4. at = "failed" => j \in atFault'
    BY <2>1, <2>3
  <2>5. gpu' = FreeGpu /\ gpu' \in [job : AsrJobs \cup {""}, awaited : BOOLEAN] /\ (gpu'.job = "" => ~ gpu'.awaited)
    BY <1>t, <1>g, <2>1 DEF ProviderFits
  <2>6. /\ usage' \in [AsrJobs -> Nat] /\ \A i \in AsrJobs \ {j} : usage'[i] = usage[i]
        /\ WhisperUsage(o) => usage'[j] = usage[j] + 1
        /\ ~ WhisperUsage(o) => usage'[j] = usage[j]
    <3>1. usage \in [AsrJobs -> Nat]
      BY <1>t DEF AsrTypes
    <3>2. CASE WhisperUsage(o)
      BY <2>1, <3>1, <3>2
    <3>3. CASE ~ WhisperUsage(o)
      BY <2>1, <3>1, <3>3
    <3> QED BY <3>2, <3>3
  <2>7. usage[j] = asr[j].tries
    BY <2>1 DEF AsrIInv, AsrInv, WhisperUsageKept, CanSend
  <2>8. asr[j].tries + 1 \in 0..MaxAsrTries /\ asr[j].tries \in 0..MaxAsrTries /\ atFault \subseteq atFault'
    BY <1>s, <2>1
  <2>9. usage'[j] = asr[j].tries + 1 \/ (at = "failed" /\ usage'[j] = (asr[j].tries + 1) - 1)
    <3>1. asr[j].tries \in Nat
      BY <1>m, <2>8
    <3>2. CASE WhisperUsage(o)
      BY <2>6, <2>7, <3>2
    <3>3. CASE ~ WhisperUsage(o)
      <4>1. usage'[j] = asr[j].tries /\ at = "failed"
        BY <2>3, <2>6, <2>7, <3>3
      <4> QED BY <3>1, <4>1
    <3> QED BY <3>2, <3>3
  <2> HIDE DEF at
  <2>a. PICK item \in AsrRows : item = [at |-> at, tries |-> asr[j].tries + 1]
    BY <2>3, <2>8 DEF AsrRows
  <2>b. /\ item.at = at /\ item.tries = asr[j].tries + 1 /\ asr' = [asr EXCEPT ![j] = item]
        /\ provider # "none" /\ provider' = provider
    BY <2>1, <2>a
  <2>c. usage'[j] = item.tries \/ (item.at = "failed" /\ usage'[j] = item.tries - 1)
    BY <2>9, <2>b
  <2> QED BY <2>4, <2>5, <2>6, <2>8, <2>a, <2>b, <2>c, JobStep
<1>5. ASSUME NEW s \in {200, 400, 413, 422}, WorkerAnswers(s) PROVE AsrIInv'
  <2>1. /\ gpu.job # "" /\ provider' = provider /\ usage' = usage /\ gpu' = FreeGpu
        /\ asr' = IF gpu.awaited THEN [asr EXCEPT ![gpu.job].at = Concluded(s)] ELSE asr
        /\ atFault' = IF s = 200 THEN atFault ELSE atFault \cup {gpu.job}
    BY <1>5 DEF WorkerAnswers
  <2>2. Concluded(200) = "done"
    BY DEF Concluded
  <2>3. CASE gpu.awaited
    <3>1. Concluded(s) = "failed" => gpu.job \in atFault'
      BY <2>1, <2>2
    <3>2. gpu.job # "" /\ asr' = [asr EXCEPT ![gpu.job].at = Concluded(s)]
      BY <2>1, <2>3
    <3>3. Concluded(s) \in {"done", "deferred", "failed"} /\ atFault \subseteq atFault'
      BY <1>c, <2>1
    <3>4. gpu' \in [job : AsrJobs \cup {""}, awaited : BOOLEAN] /\ ~ gpu'.awaited
      BY <1>g, <2>1
    <3>5. Learns(Concluded(s))
      BY <2>1, <3>1, <3>2, <3>3, <3>4 DEF Learns
    <3> QED BY <1>a, <3>3, <3>5
  <2>4. CASE ~ gpu.awaited
    BY <1>g, <1>k, <1>l, <2>1, <2>4
  <2> QED BY <2>3, <2>4
<1>6. CASE ClientGivesUp
  <2>1. /\ gpu.awaited /\ provider' = provider /\ usage' = usage /\ atFault' = atFault
        /\ asr' = [asr EXCEPT ![gpu.job].at = "deferred"] /\ gpu' = [gpu EXCEPT !.awaited = FALSE]
    BY <1>6 DEF ClientGivesUp
  <2>2. gpu' \in [job : AsrJobs \cup {""}, awaited : BOOLEAN] /\ ~ gpu'.awaited
    BY <1>t, <2>1 DEF AsrTypes
  <2>3. Learns("deferred")
    BY <1>t, <2>1, <2>2 DEF Learns
  <2> QED BY <1>a, <2>3
<1>7. CASE WorkerRestarts
  <2>1. /\ gpu.job # "" /\ provider' = provider /\ usage' = usage /\ gpu' = FreeGpu /\ atFault' = atFault
        /\ asr' = IF gpu.awaited THEN [asr EXCEPT ![gpu.job].at = "deferred"] ELSE asr
    BY <1>7 DEF WorkerRestarts
  <2>2. CASE gpu.awaited
    <3>1. gpu' \in [job : AsrJobs \cup {""}, awaited : BOOLEAN] /\ ~ gpu'.awaited
      BY <1>g, <2>1
    <3>2. Learns("deferred")
      BY <2>1, <2>2, <3>1 DEF Learns
    <3> QED BY <1>a, <3>2
  <2>3. CASE ~ gpu.awaited
    BY <1>g, <1>k, <1>l, <2>1, <2>3
  <2> QED BY <2>2, <2>3
<1> QED BY <1>1, <1>2, <1>3, <1>4, <1>5, <1>6, <1>7 DEF AsrNext

\* Model and recognisers share no state: a step is one of either.
ProvidersSpec ==
    /\ ModelInit /\ AsrInit
    /\ [][(ModelNext /\ UNCHANGED asrVars) \/ (AsrNext /\ UNCHANGED modelVars)]_<<modelVars, asrVars>>

\* For any number of models, attempts, jobs and calls: every answered request is accounted for,
\* and a call or a job is given up only on an answer that no later one would change, or when its
\* attempts are spent (request_json, classify_failure, RemoteASRClient.transcribe,
\* WhisperASRClient.transcribe).
THEOREM ProvidersCorrect == ProvidersSpec => []ProvidersInv
<1>1. ModelInit /\ AsrInit => ModelIInv /\ AsrIInv
  BY ModelStart, AsrStart
<1>2. ModelIInv /\ AsrIInv /\ [(ModelNext /\ UNCHANGED asrVars)
                                  \/ (AsrNext /\ UNCHANGED modelVars)]_<<modelVars, asrVars>>
         => ModelIInv' /\ AsrIInv'
  BY ModelStep, AsrStep
<1>3. ModelIInv /\ AsrIInv => ProvidersInv
  BY ModelSafe DEF AsrIInv, ProvidersInv
<1> QED BY <1>1, <1>2, <1>3, PTL DEF ProvidersSpec

-----------------------------------------------------------------------------
(* Erasure (StorageCleanup), for any workers, any objects and any number   *)
(* of failures.  TypeInv is inductive by itself; Tracked is inductive      *)
(* given TypeInv and contains the safety invariants that TLC checks; that  *)
(* live objects are never erased needs, beyond that, that the API learns   *)
(* of every commit (Unpublished).                                          *)

USE DEF Objects, jobVars, workerVars, NoLease, StorageCleanupStatus, TERMINAL_CLEANUP_STATUSES,
        AttemptSteps, InAttempt

\* A worker at work, or a renewal in flight, refers to an object.
TaskKnown ==
    \A w \in Workers : InAttempt(w) \/ w \in heartbeat => task[w] \in Objects

TypeInv == TypeOK /\ TaskKnown

\* The type invariant, attempt ceiling included, is preserved by every step.
LEMMA TypeStep == TypeInv /\ [Next]_vars => TypeInv'
<1> SUFFICES ASSUME TypeInv, [Next]_vars PROVE TypeInv'
  OBVIOUS
<1> USE SymbolAssumption, SizeAssumption DEF TypeInv, TypeOK, TaskKnown
<1>1. ASSUME NEW k \in Audio, SaveAudio(k)
     PROVE  TypeInv'
  BY <1>1 DEF SaveAudio, UploadGoto
<1>2. ASSUME NEW k \in Audio, PublishRecording(k)
     PROVE  TypeInv'
  BY <1>2 DEF PublishRecording, UploadGoto, Fault
<1>3. ASSUME NEW k \in Audio, Compensate(k)
     PROVE  TypeInv'
  BY <1>3 DEF Compensate, UploadGoto, Fault
<1>4. ASSUME NEW k \in Audio, EnqueueOrphan(k)
     PROVE  TypeInv'
  BY <1>4 DEF EnqueueOrphan, EnqueueCleanup, UploadGoto
<1>5. ASSUME NEW k \in Audio, UploadAborts(k)
     PROVE  TypeInv'
  BY <1>5 DEF UploadAborts, UploadGoto, Fault
<1>6. ASSUME NEW k \in Artifacts, CreateBook(k)
     PROVE  TypeInv'
  BY <1>6 DEF CreateBook
<1>7. ASSUME NEW k \in Artifacts, StoreArtifact(k)
     PROVE  TypeInv'
  BY <1>7 DEF StoreArtifact
<1>8. ASSUME NEW k \in Objects, DeleteOwner(k)
     PROVE  TypeInv'
  BY <1>8 DEF DeleteOwner, EnqueueCleanup
<1>9. CASE Tick
  BY <1>9 DEF Tick, Stalled, Fault
<1>10. ASSUME NEW w \in Workers, StartWorker(w)
     PROVE  TypeInv'
  BY <1>10 DEF StartWorker
<1>11. ASSUME NEW w \in Workers, CrashWorker(w)
     PROVE  TypeInv'
  BY <1>11 DEF CrashWorker, Fault
<1>12. ASSUME NEW w \in Workers, PollEmpty(w)
     PROVE  TypeInv'
  BY <1>12 DEF PollEmpty, vars
<1>13. ASSUME NEW w \in Workers, RenewLease(w)
     PROVE  TypeInv'
  BY <1>13 DEF RenewLease, Renewable
<1>14. ASSUME NEW w \in Workers, NEW k \in Objects, ClaimNextJob(w, k)
     PROVE  TypeInv'
  BY <1>14 DEF ClaimNextJob, Eligible, DueQueued, ExpiredRunning, AttemptOf
<1>15. ASSUME NEW w \in Workers, DeleteObject(w)
     PROVE  TypeInv'
  BY <1>15 DEF DeleteObject, Goto, Fault
<1>16. ASSUME NEW w \in Workers, Complete(w)
     PROVE  TypeInv'
  BY <1>16 DEF Complete, Owns, EndAttempt, ReleaseLease
<1>17. ASSUME NEW w \in Workers, CompleteFails(w)
     PROVE  TypeInv'
  BY <1>17 DEF CompleteFails, Owns, Goto, ReleaseLease, Fault
<1>18. ASSUME NEW w \in Workers, HandleFailure(w)
     PROVE  TypeInv'
  BY <1>18 DEF HandleFailure, Retries, Owns, EndAttempt, ReleaseLease
<1>19. CASE UNCHANGED vars
  BY <1>19 DEF vars
<1> QED
  BY <1>1, <1>2, <1>3, <1>4, <1>5, <1>6, <1>7, <1>8, <1>9, <1>10, <1>11, <1>12, <1>13, <1>14,
     <1>15, <1>16, <1>17, <1>18, <1>19
  DEF Next, UploadStep, WorkerStep, AttemptStep

\* The empty store and the stopped workers are well typed.
LEMMA TypeInit == Init => TypeInv
BY SymbolAssumption, SizeAssumption DEF Init, TypeInv, TypeOK, TaskKnown

\* Every reachable state is well typed; no job is attempted more often than its
\* ceiling allows, however many attempts crash.
THEOREM TypeCorrect == Spec => []TypeOK
<1>1. TypeInv => TypeOK
  BY DEF TypeInv
<1> QED BY <1>1, TypeInit, TypeStep, PTL DEF Spec

-----------------------------------------------------------------------------

\* Only a running job has an owner, and only a queued one is worked on.
OwnedIsRunning == \A k \in Objects : owner[k] # NoWorker => status[k] = "running"
TaskQueued     == \A w \in Workers : InAttempt(w) => status[task[w]] # "absent"

\* What may still be written has no cleanup job: audio before its upload, and the
\* artifacts of a book that is not deleted.
NotYetQueued ==
    /\ \A k \in Audio : upload[k] = "idle" => status[k] = "absent" /\ row[k] = "none"
    /\ \A k \in Artifacts : row[k] # "deleted" => status[k] = "absent"

DeletedIsQueued == \A k \in Objects : row[k] = "deleted" => status[k] # "absent"

\* An attempt that is about to complete has erased its object.
CompletingIsErased == \A w \in Workers : pc[w] = "complete" => task[w] \notin stored

Tracked ==
    /\ OwnedIsRunning
    /\ TaskQueued
    /\ NotYetQueued
    /\ DeletedIsQueued
    /\ CompletingIsErased
    /\ CompletedIsErased

\* The parts support each other: nothing that is queued is ever written again, so
\* what an attempt erased stays erased until and after it completes.
LEMMA TrackedStep == TypeInv /\ Tracked /\ [Next]_vars => Tracked'
<1> SUFFICES ASSUME TypeInv, Tracked, [Next]_vars PROVE Tracked'
  OBVIOUS
<1> USE SymbolAssumption
    DEF TypeInv, TypeOK, TaskKnown, Tracked, OwnedIsRunning, TaskQueued, NotYetQueued,
        DeletedIsQueued, CompletingIsErased, CompletedIsErased
<1>1. ASSUME NEW k \in Audio, SaveAudio(k)
     PROVE  Tracked'
  BY <1>1 DEF SaveAudio, UploadGoto
<1>2. ASSUME NEW k \in Audio, PublishRecording(k)
     PROVE  Tracked'
  BY <1>2 DEF PublishRecording, UploadGoto, Fault
<1>3. ASSUME NEW k \in Audio, Compensate(k)
     PROVE  Tracked'
  BY <1>3 DEF Compensate, UploadGoto, Fault
<1>4. ASSUME NEW k \in Audio, EnqueueOrphan(k)
     PROVE  Tracked'
  BY <1>4 DEF EnqueueOrphan, EnqueueCleanup, UploadGoto
<1>5. ASSUME NEW k \in Audio, UploadAborts(k)
     PROVE  Tracked'
  BY <1>5 DEF UploadAborts, UploadGoto, Fault
<1>6. ASSUME NEW k \in Artifacts, CreateBook(k)
     PROVE  Tracked'
  BY <1>6 DEF CreateBook
<1>7. ASSUME NEW k \in Artifacts, StoreArtifact(k)
     PROVE  Tracked'
  BY <1>7 DEF StoreArtifact
<1>8. ASSUME NEW k \in Objects, DeleteOwner(k)
     PROVE  Tracked'
  BY <1>8 DEF DeleteOwner, EnqueueCleanup
<1>9. CASE Tick
  BY <1>9 DEF Tick, Stalled, Fault
<1>10. ASSUME NEW w \in Workers, StartWorker(w)
     PROVE  Tracked'
  BY <1>10 DEF StartWorker
<1>11. ASSUME NEW w \in Workers, CrashWorker(w)
     PROVE  Tracked'
  BY <1>11 DEF CrashWorker, Fault
<1>12. ASSUME NEW w \in Workers, PollEmpty(w)
     PROVE  Tracked'
  BY <1>12 DEF PollEmpty, vars
<1>13. ASSUME NEW w \in Workers, RenewLease(w)
     PROVE  Tracked'
  BY <1>13 DEF RenewLease, Renewable
<1>14. ASSUME NEW w \in Workers, NEW k \in Objects, ClaimNextJob(w, k)
     PROVE  Tracked'
  BY <1>14 DEF ClaimNextJob, Eligible, DueQueued, ExpiredRunning, AttemptOf
<1>15. ASSUME NEW w \in Workers, DeleteObject(w)
     PROVE  Tracked'
  BY <1>15 DEF DeleteObject, Goto, Fault
<1>16. ASSUME NEW w \in Workers, Complete(w)
     PROVE  Tracked'
  BY <1>16 DEF Complete, Owns, EndAttempt, ReleaseLease
<1>17. ASSUME NEW w \in Workers, CompleteFails(w)
     PROVE  Tracked'
  BY <1>17 DEF CompleteFails, Owns, Goto, ReleaseLease, Fault
<1>18. ASSUME NEW w \in Workers, HandleFailure(w)
     PROVE  Tracked'
  BY <1>18 DEF HandleFailure, Retries, Owns, EndAttempt, ReleaseLease
<1>19. CASE UNCHANGED vars
  BY <1>19 DEF vars
<1> QED
  BY <1>1, <1>2, <1>3, <1>4, <1>5, <1>6, <1>7, <1>8, <1>9, <1>10, <1>11, <1>12, <1>13, <1>14,
     <1>15, <1>16, <1>17, <1>18, <1>19
  DEF Next, UploadStep, WorkerStep, AttemptStep

\* Nothing is stored, queued or deleted yet.
LEMMA TrackedInit == Init => Tracked
BY DEF Init, Tracked, OwnedIsRunning, TaskQueued, NotYetQueued, DeletedIsQueued,
   CompletingIsErased, CompletedIsErased

\* A completed erasure is an erasure, for ever.
THEOREM ErasedCorrect == Spec => []CompletedIsErased
<1>1. Tracked => CompletedIsErased
  BY DEF Tracked
<1> QED BY <1>1, TypeInit, TypeStep, TrackedInit, TrackedStep, PTL DEF Spec

\* No object of a deleted recording or book is lost from sight.
THEOREM TrackedCorrect == Spec => []DeletedIsTracked
<1>1. TypeInv /\ Tracked => DeletedIsTracked
  BY DEF TypeInv, TypeOK, Tracked, DeletedIsQueued, CompletedIsErased, DeletedIsTracked
<1> QED BY <1>1, TypeInit, TypeStep, TrackedInit, TrackedStep, PTL DEF Spec

\* The invariant TLC checks on two objects and two workers holds for any number of both.
THEOREM CleanupCorrect == Spec => []CleanupInv
<1>1. TypeOK /\ DeletedIsTracked /\ CompletedIsErased => CleanupInv
  BY DEF CleanupInv
<1> QED BY <1>1, TypeCorrect, TrackedCorrect, ErasedCorrect, PTL

-----------------------------------------------------------------------------

\* Where commits are known, an upload that has not ended has published nothing
\* and queued nothing, and what a row points to is not queued.
Unpublished ==
    CommitsKnown =>
        /\ \A k \in Audio : upload[k] # "done" => row[k] = "none" /\ status[k] = "absent"
        /\ \A k \in Objects : row[k] = "live" => status[k] = "absent"

KeepsLive ==
    CommitsKnown => \A k \in Objects : row[k] = "live" /\ k \in stored => k \in stored'

\* Compensations and erasures only concern objects without a live row.
LEMMA LiveStep ==
    TypeInv /\ Tracked /\ Unpublished /\ [Next]_vars => Unpublished' /\ KeepsLive
<1> SUFFICES ASSUME TypeInv, Tracked, Unpublished, [Next]_vars PROVE Unpublished' /\ KeepsLive
  OBVIOUS
<1> USE SymbolAssumption
    DEF TypeInv, TypeOK, TaskKnown, Tracked, TaskQueued, NotYetQueued, Unpublished, KeepsLive
<1>1. ASSUME NEW k \in Audio, SaveAudio(k)
     PROVE  Unpublished' /\ KeepsLive
  BY <1>1 DEF SaveAudio, UploadGoto
<1>2. ASSUME NEW k \in Audio, PublishRecording(k)
     PROVE  Unpublished' /\ KeepsLive
  BY <1>2 DEF PublishRecording, UploadGoto, Fault
<1>3. ASSUME NEW k \in Audio, Compensate(k)
     PROVE  Unpublished' /\ KeepsLive
  BY <1>3 DEF Compensate, UploadGoto, Fault
<1>4. ASSUME NEW k \in Audio, EnqueueOrphan(k)
     PROVE  Unpublished' /\ KeepsLive
  BY <1>4 DEF EnqueueOrphan, EnqueueCleanup, UploadGoto
<1>5. ASSUME NEW k \in Audio, UploadAborts(k)
     PROVE  Unpublished' /\ KeepsLive
  BY <1>5 DEF UploadAborts, UploadGoto, Fault
<1>6. ASSUME NEW k \in Artifacts, CreateBook(k)
     PROVE  Unpublished' /\ KeepsLive
  BY <1>6 DEF CreateBook
<1>7. ASSUME NEW k \in Artifacts, StoreArtifact(k)
     PROVE  Unpublished' /\ KeepsLive
  BY <1>7 DEF StoreArtifact
<1>8. ASSUME NEW k \in Objects, DeleteOwner(k)
     PROVE  Unpublished' /\ KeepsLive
  BY <1>8 DEF DeleteOwner, EnqueueCleanup
<1>9. CASE Tick
  BY <1>9 DEF Tick, Stalled, Fault
<1>10. ASSUME NEW w \in Workers, StartWorker(w)
     PROVE  Unpublished' /\ KeepsLive
  BY <1>10 DEF StartWorker
<1>11. ASSUME NEW w \in Workers, CrashWorker(w)
     PROVE  Unpublished' /\ KeepsLive
  BY <1>11 DEF CrashWorker, Fault
<1>12. ASSUME NEW w \in Workers, PollEmpty(w)
     PROVE  Unpublished' /\ KeepsLive
  BY <1>12 DEF PollEmpty, vars
<1>13. ASSUME NEW w \in Workers, RenewLease(w)
     PROVE  Unpublished' /\ KeepsLive
  BY <1>13 DEF RenewLease, Renewable
<1>14. ASSUME NEW w \in Workers, NEW k \in Objects, ClaimNextJob(w, k)
     PROVE  Unpublished' /\ KeepsLive
  BY <1>14 DEF ClaimNextJob, Eligible, DueQueued, ExpiredRunning, AttemptOf
<1>15. ASSUME NEW w \in Workers, DeleteObject(w)
     PROVE  Unpublished' /\ KeepsLive
  BY <1>15 DEF DeleteObject, Goto, Fault
<1>16. ASSUME NEW w \in Workers, Complete(w)
     PROVE  Unpublished' /\ KeepsLive
  BY <1>16 DEF Complete, Owns, EndAttempt, ReleaseLease
<1>17. ASSUME NEW w \in Workers, CompleteFails(w)
     PROVE  Unpublished' /\ KeepsLive
  BY <1>17 DEF CompleteFails, Owns, Goto, ReleaseLease, Fault
<1>18. ASSUME NEW w \in Workers, HandleFailure(w)
     PROVE  Unpublished' /\ KeepsLive
  BY <1>18 DEF HandleFailure, Retries, Owns, EndAttempt, ReleaseLease
<1>19. CASE UNCHANGED vars
  BY <1>19 DEF vars
<1> QED
  BY <1>1, <1>2, <1>3, <1>4, <1>5, <1>6, <1>7, <1>8, <1>9, <1>10, <1>11, <1>12, <1>13, <1>14,
     <1>15, <1>16, <1>17, <1>18, <1>19
  DEF Next, UploadStep, WorkerStep, AttemptStep

\* As long as the API learns of every commit, no object with a live row is erased.
THEOREM LiveCorrect ==
    ASSUME CommitsKnown PROVE Spec => LiveNeverErased
<1>1. Init => Unpublished
  BY DEF Init, Unpublished
<1>2. KeepsLive => \A k \in Objects : row[k] = "live" /\ k \in stored => k \in stored'
  BY DEF KeepsLive
<1> QED
  BY <1>1, <1>2, TypeInit, TypeStep, TrackedInit, TrackedStep, LiveStep, PTL
  DEF Spec, LiveNeverErased

-----------------------------------------------------------------------------
\* Each step of the cleanup queue is a step of the abstract queue, or none: a
\* reclaim goes on with the epoch of the attempt that crashed.
LEMMA QueueStep == TypeInv /\ Tracked /\ [Next]_vars => [Queue!Next]_Queue!vars
<1> SUFFICES ASSUME TypeInv, Tracked, [Next]_vars PROVE [Queue!Next]_Queue!vars
  OBVIOUS
<1> USE SymbolAssumption DEF TypeInv, TypeOK, TaskKnown, Tracked, OwnedIsRunning
<1>1. ASSUME NEW k \in Audio, SaveAudio(k)
     PROVE  [Queue!Next]_Queue!vars
  BY <1>1 DEF SaveAudio, UploadGoto, Phase, Output, Queue!vars
<1>2. ASSUME NEW k \in Audio, PublishRecording(k)
     PROVE  [Queue!Next]_Queue!vars
  BY <1>2 DEF PublishRecording, UploadGoto, Fault, Phase, Output, Queue!vars
<1>3. ASSUME NEW k \in Audio, Compensate(k)
     PROVE  [Queue!Next]_Queue!vars
  BY <1>3 DEF Compensate, UploadGoto, Fault, Phase, Output, Queue!vars
<1>4. ASSUME NEW k \in Audio, EnqueueOrphan(k)
     PROVE  [Queue!Next]_Queue!vars
  <2>1. CASE status[k] = "absent"
    <3>1. Phase[k] = "none"
      BY <2>1 DEF Phase
    <3>2. Phase' = [Phase EXCEPT ![k] = "waiting"]
      BY <1>4, <2>1 DEF EnqueueOrphan, EnqueueCleanup, Phase
    <3>3. Queue!Enqueue(k)
      BY <1>4, <2>1, <3>1, <3>2 DEF EnqueueOrphan, EnqueueCleanup, Output, Queue!Enqueue
    <3> QED BY <3>3 DEF Queue!Next
  <2>2. CASE status[k] # "absent"
    BY <1>4, <2>2 DEF EnqueueOrphan, EnqueueCleanup, Phase, Output, Queue!vars
  <2> QED BY <2>1, <2>2
<1>5. ASSUME NEW k \in Audio, UploadAborts(k)
     PROVE  [Queue!Next]_Queue!vars
  BY <1>5 DEF UploadAborts, UploadGoto, Fault, Phase, Output, Queue!vars
<1>6. ASSUME NEW k \in Artifacts, CreateBook(k)
     PROVE  [Queue!Next]_Queue!vars
  BY <1>6 DEF CreateBook, Phase, Output, Queue!vars
<1>7. ASSUME NEW k \in Artifacts, StoreArtifact(k)
     PROVE  [Queue!Next]_Queue!vars
  BY <1>7 DEF StoreArtifact, Phase, Output, Queue!vars
<1>8. ASSUME NEW k \in Objects, DeleteOwner(k)
     PROVE  [Queue!Next]_Queue!vars
  <2>1. CASE status[k] = "absent"
    <3>1. Phase[k] = "none"
      BY <2>1 DEF Phase
    <3>2. Phase' = [Phase EXCEPT ![k] = "waiting"]
      BY <1>8, <2>1 DEF DeleteOwner, EnqueueCleanup, Phase
    <3>3. Queue!Enqueue(k)
      BY <1>8, <2>1, <3>1, <3>2 DEF DeleteOwner, EnqueueCleanup, Output, Queue!Enqueue
    <3> QED BY <3>3 DEF Queue!Next
  <2>2. CASE status[k] # "absent"
    BY <1>8, <2>2 DEF DeleteOwner, EnqueueCleanup, Phase, Output, Queue!vars
  <2> QED BY <2>1, <2>2
<1>9. CASE Tick
  BY <1>9 DEF Tick, Stalled, Fault, Phase, Output, Queue!vars
<1>10. ASSUME NEW w \in Workers, StartWorker(w)
     PROVE  [Queue!Next]_Queue!vars
  BY <1>10 DEF StartWorker, Phase, Output, Queue!vars
<1>11. ASSUME NEW w \in Workers, CrashWorker(w)
     PROVE  [Queue!Next]_Queue!vars
  BY <1>11 DEF CrashWorker, Fault, Phase, Output, Queue!vars
<1>12. ASSUME NEW w \in Workers, PollEmpty(w)
     PROVE  [Queue!Next]_Queue!vars
  BY <1>12 DEF PollEmpty, vars, Phase, Output, Queue!vars
<1>13. ASSUME NEW w \in Workers, RenewLease(w)
     PROVE  [Queue!Next]_Queue!vars
  BY <1>13 DEF RenewLease, Renewable, Phase, Output, Queue!vars
<1>14. ASSUME NEW w \in Workers, NEW k \in Objects, ClaimNextJob(w, k)
     PROVE  [Queue!Next]_Queue!vars
  <2>1. CASE status[k] = "running"
    BY <1>14, <2>1 DEF ClaimNextJob, Eligible, DueQueued, ExpiredRunning, AttemptOf, Phase, Output,
       Queue!vars
  <2>2. CASE status[k] = "queued"
    <3>1. Phase[k] = "waiting"
      BY <2>2 DEF Phase
    <3>2. Phase' = [Phase EXCEPT ![k] = "running"]
      BY <1>14, <2>2 DEF ClaimNextJob, Phase
    <3>3. Queue!Begin(k)
      BY <1>14, <2>2, <3>1, <3>2 DEF ClaimNextJob, AttemptOf, Output, Queue!Begin
    <3> QED BY <3>3 DEF Queue!Next
  <2> QED BY <1>14, <2>1, <2>2 DEF ClaimNextJob, Eligible, DueQueued, ExpiredRunning
<1>15. ASSUME NEW w \in Workers, DeleteObject(w)
     PROVE  [Queue!Next]_Queue!vars
  BY <1>15 DEF DeleteObject, Goto, Fault, Phase, Output, Queue!vars
<1>16. ASSUME NEW w \in Workers, Complete(w)
     PROVE  [Queue!Next]_Queue!vars
  <2>1. PICK i \in Objects : i = task[w]
    BY <1>16 DEF Complete
  <2>2. CASE UNCHANGED <<status, owner, lease>>
    BY <1>16, <2>2 DEF Complete, Phase, Output, Queue!vars
  <2>3. CASE Owns(w)
    <3>1. Phase[i] = "running"
      BY <2>1, <2>3 DEF Owns, Phase
    <3>2. CASE status' = [status EXCEPT ![task[w]] = "completed"]
      <4>1. Phase' = [Phase EXCEPT ![i] = "done"]
        BY <2>1, <3>2 DEF Phase
      <4>2. Queue!Deliver(i)
        BY <1>16, <2>1, <3>1, <3>2, <4>1 DEF Complete, Output, Queue!Deliver
      <4> QED BY <4>2 DEF Queue!Next
    <3> QED BY <1>16, <2>2, <2>3, <3>2 DEF Complete
  <2> QED BY <1>16, <2>2, <2>3 DEF Complete
<1>17. ASSUME NEW w \in Workers, CompleteFails(w)
     PROVE  [Queue!Next]_Queue!vars
  <2>1. PICK i \in Objects : i = task[w]
    BY <1>17 DEF CompleteFails
  <2>2. CASE UNCHANGED <<status, owner, lease>>
    BY <1>17, <2>2 DEF CompleteFails, Phase, Output, Queue!vars
  <2>3. CASE Owns(w)
    <3>1. Phase[i] = "running"
      BY <2>1, <2>3 DEF Owns, Phase
    <3>2. CASE status' = [status EXCEPT ![task[w]] = "completed"]
      <4>1. Phase' = [Phase EXCEPT ![i] = "done"]
        BY <2>1, <3>2 DEF Phase
      <4>2. Queue!Deliver(i)
        BY <1>17, <2>1, <3>1, <3>2, <4>1 DEF CompleteFails, Output, Queue!Deliver
      <4> QED BY <4>2 DEF Queue!Next
    <3> QED BY <1>17, <2>2, <2>3, <3>2 DEF CompleteFails
  <2> QED BY <1>17, <2>2, <2>3 DEF CompleteFails
<1>18. ASSUME NEW w \in Workers, HandleFailure(w)
     PROVE  [Queue!Next]_Queue!vars
  <2>1. PICK i \in Objects : i = task[w]
    BY <1>18 DEF HandleFailure
  <2>2. CASE UNCHANGED <<status, owner, lease>>
    BY <1>18, <2>2 DEF HandleFailure, Phase, Output, Queue!vars
  <2>3. CASE Owns(w)
    <3>1. Phase[i] = "running"
      BY <2>1, <2>3 DEF Owns, Phase
    <3>2. CASE Retries(w)
      <4>1. Phase' = [Phase EXCEPT ![i] = "waiting"]
        BY <1>18, <2>1, <2>3, <3>2 DEF HandleFailure, Phase
      <4>2. Queue!PutBack(i)
        BY <1>18, <2>1, <2>3, <3>1, <3>2, <4>1 DEF HandleFailure, Owns, Output, Queue!PutBack
      <4> QED BY <4>2 DEF Queue!Next
    <3>3. CASE ~Retries(w)
      <4>1. Phase' = [Phase EXCEPT ![i] = "failed"]
        BY <1>18, <2>1, <2>3, <3>3 DEF HandleFailure, Phase
      <4>2. Queue!GiveUp(i)
        BY <1>18, <2>1, <2>3, <3>1, <3>3, <4>1 DEF HandleFailure, Owns, Output, Queue!GiveUp
      <4> QED BY <4>2 DEF Queue!Next
    <3> QED BY <3>2, <3>3
  <2> QED BY <1>18, <2>2, <2>3 DEF HandleFailure
<1>19. CASE UNCHANGED vars
  BY <1>19 DEF vars, Phase, Output, Queue!vars
<1> QED
  BY <1>1, <1>2, <1>3, <1>4, <1>5, <1>6, <1>7, <1>8, <1>9, <1>10, <1>11, <1>12, <1>13, <1>14,
     <1>15, <1>16, <1>17, <1>18, <1>19
  DEF Next, UploadStep, WorkerStep, AttemptStep

\* The cleanup queue implements the abstract durable queue.
THEOREM QueueCorrect == Spec => ImplementsDurableQueue
<1>1. Init => Queue!Init
  BY DEF Init, Queue!Init, Phase, Output
<1> QED
  BY <1>1, TypeInit, TypeStep, TrackedInit, TrackedStep, QueueStep, PTL
  DEF Spec, ImplementsDurableQueue, Queue!Spec

-----------------------------------------------------------------------------
(* The windows of a long recording (LongFormPlan).                         *)

PlanSpec == PlanInit /\ [][PlanNext]_planVars

\* The least of a set of numbers.
LEMMA LeastOfIs ==
    ASSUME NEW S \in SUBSET Nat, S # {}
    PROVE  LeastOf(S) \in S /\ \A n \in S : LeastOf(S) <= n
<1>1. \E m \in S : \A n \in S : m <= n
  BY LeastNumber
<1> QED BY <1>1 DEF LeastOf

\* Dividing and rounding up leaves no zero.
LEMMA CeilingIs ==
    ASSUME NEW a \in Nat \ {0}, NEW b \in Nat \ {0} PROVE Ceiling(a, b) \in Nat \ {0}
<1>1. a + b - 1 \in Nat /\ a + b - 1 >= b
  OBVIOUS
<1> DEFINE x == a + b - 1
           q == x \div b
           r == x % b
<1>2. q \in Int /\ r \in 0..(b - 1) /\ x = b * q + r
  BY <1>1
<1> HIDE DEF q, r
<1>3. q # 0 /\ q > 0
  <2>1. b * q > 0
    BY <1>1, <1>2
  <2>2. CASE q = 0
    BY <2>1, <2>2
  <2>3. CASE q < 0
    <3> DEFINE p == - q
    <3>1. p \in Nat /\ p > 0 /\ q = - p
      BY <2>3, <1>2
    <3> HIDE DEF p
    <3>2. b * p > 0
      BY <3>1
    <3>3. b * (- p) = - (b * p)
      BY <3>1
    <3> QED BY <2>1, <3>1, <3>2, <3>3
  <2> QED BY <1>2, <2>2, <2>3
<1> QED BY <1>2, <1>3 DEF Ceiling, q

\* The boundary after b is behind it, and within the segment.
LEMMA BoundaryIs ==
    ASSUME NEW s, s.len \in Nat, s.marks \in SUBSET Nat, NEW b \in Nat, NEW aim \in Nat \ {0}, b < s.len
    PROVE  NextBoundary(s, b, aim) \in Nat /\ b < NextBoundary(s, b, aim)
           /\ NextBoundary(s, b, aim) <= s.len
<1> DEFINE cursor == b + aim
           marks == {i \in s.marks : i > b /\ i >= cursor - Reach /\ i < cursor + Reach /\ i < s.len}
           away(i) == IF i < cursor THEN cursor - i ELSE i - cursor
           near == {i \in marks : \A j \in marks : away(i) <= away(j)}
<1>1. CASE b + aim >= s.len
  BY <1>1 DEF NextBoundary
<1>2. CASE ~ (b + aim >= s.len)
  <2>1. NextBoundary(s, b, aim) = IF marks = {} THEN cursor ELSE LeastOf(near) + 1
    BY <1>2 DEF NextBoundary, ClauseBoundary
  <2>2. cursor \in Nat /\ cursor > b /\ cursor < s.len
    BY <1>2
  <2>3. marks \in SUBSET Nat /\ \A i \in marks : i > b /\ i < s.len
    OBVIOUS
  <2>4. \A i \in marks : away(i) \in Nat
    BY <2>2, <2>3
  <2>5. CASE marks # {}
    <3> DEFINE D == {away(i) : i \in marks}
    <3>1. D \in SUBSET Nat /\ D # {}
      <4> HIDE DEF marks, away
      <4> QED BY <2>4, <2>5
    <3>2. PICK d \in D : \A e \in D : d <= e
      BY <3>1, LeastNumber
    <3>3. PICK i \in marks : away(i) = d
      OBVIOUS
    <3>4. \A j \in marks : away(i) <= away(j)
      BY <3>2, <3>3
    <3>5. near \in SUBSET Nat /\ near # {}
      <4> HIDE DEF marks, away
      <4> QED BY <2>3, <3>3, <3>4
    <3>6. LeastOf(near) \in near
      <4> HIDE DEF near
      <4> QED BY <3>5, LeastOfIs
    <3>7. LeastOf(near) \in marks
      <4> HIDE DEF marks, away
      <4> QED BY <3>6
    <3> DEFINE l == LeastOf(near)
    <3>8. NextBoundary(s, b, aim) = l + 1 /\ l \in marks
      <4> HIDE DEF marks, near
      <4> QED BY <2>1, <2>5, <3>7
    <3> HIDE DEF l, near
    <3>9. l \in Nat /\ l > b /\ l < s.len
      <4> HIDE DEF marks
      <4> QED BY <2>3, <3>8
    <3> QED BY <3>8, <3>9
  <2>6. CASE marks = {}
    <3> HIDE DEF marks, near
    <3> QED BY <2>1, <2>2, <2>6
  <2> QED BY <2>5, <2>6
<1> QED BY <1>1, <1>2

\* The boundaries of the slices rise from the beginning of the text to its end.
CutsFit(c, len) ==
    /\ c \in Seq(Nat) /\ Len(c) >= 2 /\ c[1] = 0 /\ c[Len(c)] = len
    /\ \A k \in 1..(Len(c) - 1) : c[k] < c[k + 1]

BoundaryChain(f, s, aim) ==
    f = [k \in 0..s.len |-> IF k = 0 THEN 0 ELSE NextBoundary(s, f[k - 1], aim)]

SlicesOf(f, s) ==
    [k \in 1..(LeastOf({j \in 0..s.len : f[j] = s.len}) + 1) |-> f[k - 1]]

LEMMA SlicesAre ==
    ASSUME NEW s, NEW count
    PROVE  BoundedClauseSlices(s, count)
             = SlicesOf(CHOOSE f : BoundaryChain(f, s, Ceiling(s.len, count)), s)
  BY DEF BoundedClauseSlices, SlicesOf, BoundaryChain

LEMMA BoundaryAtEnd ==
    ASSUME NEW s, s.len \in Nat, NEW aim \in Nat PROVE NextBoundary(s, s.len, aim) = s.len
  BY DEF NextBoundary

LEMMA BoundaryChainExists ==
    ASSUME NEW s, s.len \in Nat, s.marks \in SUBSET Nat, NEW aim \in Nat \ {0}
    PROVE  \E f : f \in [0..s.len -> 0..s.len] /\ BoundaryChain(f, s, aim)
<1> DEFINE m == s.len
           S == 0..s.len
           step == [p \in S \X (1..m) |-> NextBoundary(s, p[1], aim)]
<1>1. ASSUME NEW b \in S PROVE NextBoundary(s, b, aim) \in S
  <2>1. CASE b < s.len
    BY <2>1, BoundaryIs
  <2>2. CASE b = s.len
    BY <2>2, BoundaryAtEnd
  <2> QED BY <2>1, <2>2
<1>2. m \in Nat /\ 0 \in S
  OBVIOUS
<1>3. IsStep(step, S, m)
  <2> HIDE DEF S, m
  <2> QED BY <1>1 DEF IsStep
<1>4. PICK f : f \in [0..m -> S] /\ f[0] = 0 /\ \A n \in 1..m : f[n] = step[<<f[n - 1], n>>]
  <2> HIDE DEF step, m, S
  <2>1. PICK f : IsChain(f, S, 0, step, m)
    BY <1>2, <1>3, ChainExists, Zenon
  <2> QED BY <2>1 DEF IsChain
<1>5. ASSUME NEW n \in 1..m PROVE f[n] = NextBoundary(s, f[n - 1], aim)
  <2>1. n - 1 \in 0..m
    BY <1>2, <1>5
  <2>2. f[n - 1] \in S
    BY <1>4, <2>1
  <2> QED BY <1>4, <2>2
<1>6. f = [n \in 0..m |-> IF n = 0 THEN 0 ELSE NextBoundary(s, f[n - 1], aim)]
  <2>1. \A n \in 0..m : f[n] = IF n = 0 THEN 0 ELSE NextBoundary(s, f[n - 1], aim)
    BY <1>2, <1>4, <1>5
  <2>2. f = [n \in 0..m |-> f[n]]
    BY <1>4
  <2> HIDE DEF step
  <2> QED BY <2>1, <2>2
<1> QED BY <1>4, <1>6 DEF BoundaryChain

\* What rises from one to the next rises all along.
RisesInSteps(c) == \A k \in 1..(Len(c) - 1) : c[k] < c[k + 1]

LEMMA RisingOn ==
    ASSUME NEW c \in Seq(Nat), RisesInSteps(c), NEW i \in 1..Len(c), NEW j \in i..Len(c)
    PROVE  c[i] <= c[j] /\ (i < j => c[i] < c[j])
<1> DEFINE G == {n \in Nat : i + n <= Len(c) => c[i] <= c[i + n] /\ (n > 0 => c[i] < c[i + n])}
<1>0. \A k \in 1..Len(c) : c[k] \in Nat
  OBVIOUS
<1>1. 0 \in G
  BY <1>0
<1>2. ASSUME NEW n \in Nat, n < Len(c) - i, n \in G PROVE n + 1 \in G
  <2>0. i + n \in 1..(Len(c) - 1) /\ i + n \in 1..Len(c) /\ i + n <= Len(c)
        /\ i + n + 1 \in 1..Len(c) /\ i + (n + 1) = i + n + 1
    BY <1>2
  <2>1. c[i] <= c[i + n]
    BY <1>2, <2>0
  <2>2. c[i + n] < c[i + n + 1]
    BY <2>0 DEF RisesInSteps
  <2>3. c[i] \in Nat /\ c[i + n] \in Nat /\ c[i + n + 1] \in Nat
    BY <1>0, <2>0
  <2>4. c[i] < c[i + n + 1]
    BY <2>1, <2>2, <2>3
  <2>5. c[i] < c[i + (n + 1)]
    BY <2>0, <2>4, Zenon
  <2>6. c[i + (n + 1)] \in Nat
    BY <1>0, <2>0
  <2> QED BY <2>3, <2>5, <2>6
<1>3. j - i \in Nat /\ j - i <= Len(c) - i /\ Len(c) - i \in Nat /\ i + (j - i) = j
  OBVIOUS
<1>4. j - i \in G
  <2> HIDE DEF G
  <2>1. \A n \in 0..(Len(c) - i) : n \in G
    BY <1>1, <1>2, <1>3, CountUp
  <2> QED BY <1>3, <2>1
<1> QED BY <1>3, <1>4

LEMMA Rising ==
    ASSUME NEW c \in Seq(Nat), \A k \in 1..(Len(c) - 1) : c[k] < c[k + 1],
           NEW i \in 1..Len(c), NEW j \in i..Len(c)
    PROVE  c[i] <= c[j] /\ (i < j => c[i] < c[j])
<1>1. RisesInSteps(c)
  BY DEF RisesInSteps
<1> QED BY <1>1, RisingOn, Zenon

LEMMA SlicesFit ==
    ASSUME NEW s, s.len \in Nat \ {0}, s.marks \in SUBSET Nat, NEW count \in Nat \ {0}
    PROVE  CutsFit(BoundedClauseSlices(s, count), s.len)
<1> DEFINE aim == Ceiling(s.len, count)
           f == CHOOSE g : BoundaryChain(g, s, aim)
           m == s.len
           ends == {j \in 0..m : f[j] = m}
           last == LeastOf(ends)
           c == SlicesOf(f, s)
<1>1. aim \in Nat \ {0} /\ m \in Nat \ {0}
  BY CeilingIs
<1> HIDE DEF aim
<1>2. BoundaryChain(f, s, aim)
  BY <1>1, BoundaryChainExists
<1>3. BoundedClauseSlices(s, count) = c
  BY SlicesAre DEF aim
<1> HIDE DEF f
<1>4. f[0] = 0 /\ \A k \in 1..m : f[k] = NextBoundary(s, f[k - 1], aim)
  BY <1>1, <1>2 DEF BoundaryChain
<1>5. \A k \in 0..m : f[k] \in 0..m /\ (f[k] >= k)
  <2> DEFINE G == {k \in Nat : k <= m => f[k] \in 0..m /\ f[k] >= k}
  <2>1. 0 \in G
    BY <1>1, <1>4
  <2>2. ASSUME NEW n \in Nat, n < m, n \in G PROVE n + 1 \in G
    <3>1. f[n] \in 0..m /\ f[n] >= n /\ f[n + 1] = NextBoundary(s, f[n], aim)
      BY <1>1, <1>4, <2>2
    <3>2. CASE f[n] < m
      <4>1. f[n + 1] \in Nat /\ f[n] < f[n + 1] /\ f[n + 1] <= m
        BY <1>1, <3>1, <3>2, BoundaryIs
      <4> QED BY <3>1, <4>1
    <3>3. CASE f[n] = m
      <4>1. f[n + 1] = m
        BY <1>1, <3>1, <3>3, BoundaryAtEnd
      <4> QED BY <1>1, <2>2, <4>1
    <3> QED BY <3>1, <3>2, <3>3
  <2> HIDE DEF G
  <2>3. \A n \in 0..m : n \in G
    BY <1>1, <2>1, <2>2, CountUp
  <2> QED BY <1>1, <2>3 DEF G
<1>6. ends \in SUBSET Nat /\ ends # {}
  <2>1. f[m] = m /\ m \in 0..m
    BY <1>1, <1>5
  <2> QED BY <1>1, <2>1
<1>7. last \in ends /\ \A n \in ends : last <= n
  <2> HIDE DEF ends
  <2> QED BY <1>6, LeastOfIs
<1>8. c = [k \in 1..(last + 1) |-> f[k - 1]]
  BY DEF SlicesOf
<1> HIDE DEF last, c
<1>9. last \in 1..m /\ f[last] = m
  BY <1>1, <1>4, <1>7
<1>10. \A k \in 1..(last + 1) : k - 1 \in 0..m /\ f[k - 1] \in Nat
  BY <1>1, <1>5, <1>9
<1>11. c \in Seq(Nat) /\ Len(c) = last + 1 /\ \A k \in 1..(last + 1) : c[k] = f[k - 1]
  <2>1. last + 1 \in Nat
    BY <1>1, <1>9
  <2> QED BY <1>8, <1>10, <2>1
<1>12. ASSUME NEW k \in 1..last PROVE c[k] < c[k + 1]
  <2>1. k \in 1..(last + 1) /\ k + 1 \in 1..(last + 1) /\ k - 1 \in 0..m /\ k \in 1..m
    BY <1>1, <1>9
  <2>2. c[k] = f[k - 1] /\ c[k + 1] = f[k]
    BY <1>11, <2>1
  <2>3. f[k - 1] # m
    <3>1. ~ (last <= k - 1)
      BY <1>9
    <3> QED BY <1>7, <2>1, <3>1
  <2>4. f[k - 1] \in Nat /\ f[k - 1] < m
    BY <1>1, <1>5, <2>1, <2>3
  <2>5. f[k] = NextBoundary(s, f[k - 1], aim)
    BY <1>4, <2>1
  <2> QED BY <1>1, <2>2, <2>4, <2>5, BoundaryIs
<1>13. c[1] = 0 /\ c[last + 1] = m /\ last + 1 >= 2 /\ (last + 1) - 1 = last
  BY <1>1, <1>4, <1>9, <1>11
<1> QED BY <1>3, <1>11, <1>12, <1>13 DEF CutsFit

-----------------------------------------------------------------------------
(* The pieces: in order, none empty, and nothing between them.             *)

PieceRow == [seg : Nat, first : Nat, past : Nat]

InSegment(p) == p.first < p.past /\ p.past <= tale[p.seg].len

Before(p, q) == p.seg < q.seg \/ (p.seg = q.seg /\ p.past <= q.first)

InOrder(E) == \A i, j \in 1..Len(E) : i < j => Before(E[i], E[j])

Covers(E, i) ==
    \A x \in 0..(tale[i].len - 1) : \E k \in 1..Len(E) : E[k].seg = i /\ x \in E[k].first..(E[k].past - 1)

PiecesFit(E, n) ==
    /\ E \in Seq(PieceRow) /\ InOrder(E)
    /\ \A k \in 1..Len(E) : E[k].seg \in 1..n /\ InSegment(E[k])
    /\ \A i \in 1..n : Covers(E, i)

LEMMA SegmentIs ==
    ASSUME NEW s \in Segment PROVE s.len \in Nat \ {0} /\ s.marks \in SUBSET Nat
  BY PlanAssumption DEF Segment

Cuts(i) ==
    IF tale[i].len <= MaxWindow THEN <<0, tale[i].len>>
    ELSE BoundedClauseSlices(tale[i], IF Ceiling(tale[i].len, TargetWindow) < MaxWindows
                                      THEN Ceiling(tale[i].len, TargetWindow) ELSE MaxWindows)

LEMMA CutsAre ==
    ASSUME NEW i, tale[i] \in Segment PROVE CutsFit(Cuts(i), tale[i].len)
<1> DEFINE s == tale[i]
           w == IF Ceiling(s.len, TargetWindow) < MaxWindows THEN Ceiling(s.len, TargetWindow) ELSE MaxWindows
<1>1. s.len \in Nat \ {0} /\ s.marks \in SUBSET Nat
  BY SegmentIs
<1>2. w \in Nat \ {0}
  <2>1. Ceiling(s.len, TargetWindow) \in Nat \ {0}
    BY <1>1, CeilingIs, PlanAssumption
  <2> QED BY <2>1, PlanAssumption
<1>3. CASE s.len <= MaxWindow
  <2>1. Cuts(i) = <<0, s.len>>
    BY <1>3 DEF Cuts
  <2> DEFINE l == s.len
             c == <<0, l>>
  <2>2. l \in Nat \ {0}
    BY <1>1
  <2> HIDE DEF l
  <2>3. c \in Seq(Nat) /\ Len(c) = 2 /\ c[1] = 0 /\ c[2] = l
    BY <2>2
  <2>4. CutsFit(c, l)
    <3>1. \A k \in 1..1 : k = 1 /\ k + 1 = 2
      OBVIOUS
    <3> HIDE DEF c
    <3> QED BY <2>2, <2>3, <3>1 DEF CutsFit
  <2> QED BY <2>1, <2>4 DEF l
<1>4. CASE ~ (s.len <= MaxWindow)
  <2>1. Cuts(i) = BoundedClauseSlices(s, w)
    BY <1>4 DEF Cuts
  <2> HIDE DEF w
  <2>2. CutsFit(BoundedClauseSlices(s, w), s.len)
    BY <1>1, <1>2, SlicesFit
  <2> QED BY <2>1, <2>2
<1> QED BY <1>3, <1>4

LEMMA PiecesOfIs ==
    ASSUME NEW i
    PROVE  PiecesOf(i) = [k \in 1..(Len(Cuts(i)) - 1) |->
                             [seg |-> i, first |-> Cuts(i)[k], past |-> Cuts(i)[k + 1]]]
  BY DEF PiecesOf, Cuts

\* The pieces of one segment.
SegmentFit(P, i) ==
    /\ P \in Seq(PieceRow) /\ InOrder(P) /\ Covers(P, i)
    /\ \A k \in 1..Len(P) : P[k].seg = i /\ InSegment(P[k])

LEMMA PiecesOfFit ==
    ASSUME NEW i \in Nat, tale[i] \in Segment
    PROVE  SegmentFit(PiecesOf(i), i)
<1> DEFINE c == Cuts(i)
           n == Len(c) - 1
           P == [k \in 1..n |-> [seg |-> i, first |-> c[k], past |-> c[k + 1]]]
           len == tale[i].len
<1>1. /\ c \in Seq(Nat) /\ Len(c) >= 2 /\ c[1] = 0 /\ c[Len(c)] = len
      /\ \A k \in 1..n : c[k] < c[k + 1]
  BY CutsAre DEF CutsFit
<1>2. PiecesOf(i) = P
  BY PiecesOfIs
<1> HIDE DEF c
<1>3. n \in Nat /\ n >= 1 /\ n + 1 = Len(c) /\ Len(c) \in Nat
  BY <1>1
<1>4. \A k \in 1..n : k \in 1..Len(c) /\ k + 1 \in 1..Len(c) /\ c[k] \in Nat /\ c[k + 1] \in Nat
  BY <1>1, <1>3
<1> HIDE DEF n
<1>5. ASSUME NEW k \in 1..n
      PROVE  P[k] \in PieceRow /\ P[k].seg = i /\ P[k].first = c[k] /\ P[k].past = c[k + 1]
  BY <1>4 DEF PieceRow
<1>6. P \in Seq(PieceRow) /\ Len(P) = n
  BY <1>3, <1>5
<1> HIDE DEF P
<1>7. InOrder(P)
  <2> SUFFICES ASSUME NEW k \in 1..n, NEW l \in 1..n, k < l PROVE Before(P[k], P[l])
    BY <1>6 DEF InOrder
  <2>1. k + 1 \in 1..Len(c) /\ l \in (k + 1)..Len(c)
    BY <1>3, <1>4
  <2>2. c[k + 1] <= c[l]
    BY <1>1, <1>3, <2>1, Rising DEF n
  <2> QED BY <1>5, <2>2 DEF Before
<1>8. ASSUME NEW k \in 1..n PROVE P[k].seg = i /\ InSegment(P[k])
  <2>1. k + 1 \in 1..Len(c) /\ Len(c) \in (k + 1)..Len(c)
    BY <1>3, <1>4
  <2>2. c[k + 1] <= c[Len(c)]
    BY <1>1, <1>3, <2>1, Rising DEF n
  <2> QED BY <1>1, <1>5, <2>2 DEF InSegment
<1>9. ASSUME NEW x \in 0..(len - 1)
      PROVE  \E k \in 1..n : P[k].seg = i /\ x \in P[k].first..(P[k].past - 1)
  <2> DEFINE B == {k \in 1..Len(c) : c[k] > x}
  <2>0. len \in Nat /\ x \in Nat
    <3>1. Len(c) \in 1..Len(c)
      BY <1>3
    <3>2. len \in Nat
      BY <1>1, <3>1
    <3> QED BY <3>2
  <2>1. B \in SUBSET Nat /\ B # {}
    <3>1. c[Len(c)] > x /\ Len(c) \in 1..Len(c)
      BY <1>1, <1>3, <2>0
    <3> QED BY <1>3, <3>1
  <2>2. PICK b \in B : \A k \in B : b <= k
    BY <2>1, LeastNumber
  <2>3. b # 1 /\ b \in 1..Len(c)
    BY <1>1, <2>0, <2>2
  <2>4. b - 1 \in 1..n /\ b - 1 \in 1..Len(c) /\ (b - 1) + 1 = b
    BY <1>3, <2>3
  <2>5. ~ (c[b - 1] > x)
    <3>1. b - 1 \notin B
      BY <2>2, <2>3
    <3> QED BY <2>4, <3>1
  <2>6. c[b - 1] \in Nat /\ c[b] \in Nat /\ c[b] > x
    BY <1>1, <2>2, <2>4, SMTT(30)
  <2>7. x \in c[b - 1]..(c[b] - 1)
    BY <2>0, <2>5, <2>6
  <2> QED BY <1>5, <2>4, <2>7
<1>10. Covers(P, i)
  BY <1>6, <1>9 DEF Covers
<1> QED BY <1>2, <1>6, <1>7, <1>8, <1>10 DEF SegmentFit

\* Both sequences, one after the other.
LEMMA Both ==
    ASSUME NEW R, NEW E \in Seq(R), NEW P \in Seq(R)
    PROVE  /\ E \o P \in Seq(R) /\ Len(E \o P) = Len(E) + Len(P)
           /\ \A k \in 1..Len(E) : (E \o P)[k] = E[k]
           /\ \A k \in 1..Len(P) : (E \o P)[Len(E) + k] = P[k]
           /\ \A k \in 1..Len(E \o P) : k \in 1..Len(E) \/ \E l \in 1..Len(P) : k = Len(E) + l
<1>1. E \o P \in Seq(R) /\ Len(E \o P) = Len(E) + Len(P) /\ Len(E) \in Nat /\ Len(P) \in Nat
  OBVIOUS
<1>2. ASSUME NEW k \in 1..Len(E) PROVE (E \o P)[k] = E[k]
  OBVIOUS
<1>3. ASSUME NEW k \in 1..Len(P) PROVE (E \o P)[Len(E) + k] = P[k]
  OBVIOUS
<1>4. ASSUME NEW k \in 1..(Len(E) + Len(P)), k \notin 1..Len(E) PROVE \E l \in 1..Len(P) : k = Len(E) + l
  <2>1. k - Len(E) \in 1..Len(P) /\ k = Len(E) + (k - Len(E))
    BY <1>1, <1>4
  <2> QED BY <2>1
<1> QED BY <1>1, <1>2, <1>3, <1>4

LEMMA PiecesStep ==
    ASSUME NEW n \in Nat, NEW E, PiecesFit(E, n), tale[n + 1] \in Segment
    PROVE  PiecesFit(E \o PiecesOf(n + 1), n + 1)
<1> DEFINE P == PiecesOf(n + 1)
           F == E \o P
<1>1. SegmentFit(P, n + 1)
  BY PiecesOfFit
<1> HIDE DEF P
<1>2. /\ P \in Seq(PieceRow) /\ InOrder(P) /\ Covers(P, n + 1)
      /\ \A k \in 1..Len(P) : P[k].seg = n + 1 /\ InSegment(P[k])
  BY <1>1 DEF SegmentFit
<1>3. /\ E \in Seq(PieceRow) /\ InOrder(E)
      /\ \A k \in 1..Len(E) : E[k].seg \in 1..n /\ InSegment(E[k])
      /\ \A i \in 1..n : Covers(E, i)
  BY DEF PiecesFit
<1>4. /\ F \in Seq(PieceRow) /\ Len(F) = Len(E) + Len(P)
      /\ \A k \in 1..Len(E) : F[k] = E[k]
      /\ \A k \in 1..Len(P) : F[Len(E) + k] = P[k]
      /\ \A k \in 1..Len(F) : k \in 1..Len(E) \/ \E l \in 1..Len(P) : k = Len(E) + l
  BY <1>2, <1>3, Both
<1> HIDE DEF F
<1>5. Len(E) \in Nat /\ Len(P) \in Nat
  BY <1>2, <1>3
<1>6. ASSUME NEW i \in 1..Len(F), NEW j \in 1..Len(F), i < j PROVE Before(F[i], F[j])
  <2>1. CASE i \in 1..Len(E) /\ j \in 1..Len(E)
    BY <1>3, <1>4, <1>6, <2>1 DEF InOrder
  <2>2. CASE i \in 1..Len(E) /\ j \notin 1..Len(E)
    <3>1. PICK l \in 1..Len(P) : j = Len(E) + l
      BY <1>4, <2>2
    <3>2. F[i].seg \in 1..n /\ F[j].seg = n + 1
      BY <1>2, <1>3, <1>4, <2>2, <3>1
    <3> QED BY <3>2 DEF Before
  <2>3. CASE i \notin 1..Len(E)
    <3>1. PICK k \in 1..Len(P) : i = Len(E) + k
      BY <1>4, <2>3
    <3>2. j \notin 1..Len(E)
      BY <1>5, <1>6, <2>3
    <3>3. PICK l \in 1..Len(P) : j = Len(E) + l
      BY <1>4, <3>2
    <3>4. k < l
      BY <1>5, <1>6, <3>1, <3>3
    <3> QED BY <1>2, <1>4, <3>1, <3>3, <3>4 DEF InOrder
  <2> QED BY <2>1, <2>2, <2>3
<1>7. ASSUME NEW k \in 1..Len(F) PROVE F[k].seg \in 1..(n + 1) /\ InSegment(F[k])
  <2>1. CASE k \in 1..Len(E)
    <3>1. F[k] = E[k] /\ E[k].seg \in 1..n /\ InSegment(E[k])
      BY <1>3, <1>4, <2>1
    <3> QED BY <3>1
  <2>2. CASE \E l \in 1..Len(P) : k = Len(E) + l
    <3>1. PICK l \in 1..Len(P) : k = Len(E) + l
      BY <2>2
    <3>2. F[k] = P[l] /\ P[l].seg = n + 1 /\ InSegment(P[l])
      BY <1>2, <1>4, <3>1
    <3> QED BY <3>2
  <2> QED BY <1>4, <2>1, <2>2
<1>8. ASSUME NEW i \in 1..(n + 1) PROVE Covers(F, i)
  <2> SUFFICES ASSUME NEW x \in 0..(tale[i].len - 1)
               PROVE  \E k \in 1..Len(F) : F[k].seg = i /\ x \in F[k].first..(F[k].past - 1)
    BY DEF Covers
  <2>1. CASE i \in 1..n
    <3>1. PICK k \in 1..Len(E) : E[k].seg = i /\ x \in E[k].first..(E[k].past - 1)
      BY <1>3, <2>1 DEF Covers
    <3>2. k \in 1..Len(F) /\ F[k] = E[k]
      BY <1>4, <1>5
    <3> QED BY <3>1, <3>2
  <2>2. CASE i = n + 1
    <3>1. PICK k \in 1..Len(P) : P[k].seg = i /\ x \in P[k].first..(P[k].past - 1)
      BY <1>2, <2>2 DEF Covers
    <3>2. Len(E) + k \in 1..Len(F) /\ F[Len(E) + k] = P[k]
      BY <1>4, <1>5
    <3> QED BY <3>1, <3>2
  <2>3. i \in 1..n \/ i = n + 1
    OBVIOUS
  <2> QED BY <2>1, <2>2, <2>3
<1>9. PiecesFit(F, n + 1)
  BY <1>4, <1>6, <1>7, <1>8 DEF PiecesFit, InOrder
<1> QED BY <1>9 DEF F, P

PieceChain(f) == f = [n \in 0..Len(tale) |-> IF n = 0 THEN <<>> ELSE f[n - 1] \o PiecesOf(n)]

LEMMA PieceChainExists == ASSUME tale \in Seq(Segment) PROVE \E f : PieceChain(f)
<1> DEFINE m == Len(tale)
           step == [p \in Seq(PieceRow) \X (1..m) |-> p[1] \o PiecesOf(p[2])]
<1>1. m \in Nat /\ \A n \in 1..m : n \in Nat /\ tale[n] \in Segment
  OBVIOUS
<1>2. \A n \in 1..m : PiecesOf(n) \in Seq(PieceRow)
  BY <1>1, PiecesOfFit DEF SegmentFit
<1>3. IsStep(step, Seq(PieceRow), m)
  <2> HIDE DEF m
  <2>1. \A E \in Seq(PieceRow), n \in 1..m : E \o PiecesOf(n) \in Seq(PieceRow)
    BY <1>2
  <2> QED BY <2>1 DEF IsStep
<1>4. PICK f : /\ f \in [0..m -> Seq(PieceRow)] /\ f[0] = <<>>
               /\ \A n \in 1..m : f[n] = step[<<f[n - 1], n>>]
  <2> HIDE DEF step, m
  <2>1. <<>> \in Seq(PieceRow)
    OBVIOUS
  <2>2. PICK f : IsChain(f, Seq(PieceRow), <<>>, step, m)
    BY <1>1, <1>3, <2>1, ChainExists, Zenon
  <2> QED BY <2>2 DEF IsChain
<1>5. ASSUME NEW n \in 1..m PROVE f[n] = f[n - 1] \o PiecesOf(n)
  <2>1. n - 1 \in 0..m
    BY <1>1, <1>5
  <2>2. f[n - 1] \in Seq(PieceRow)
    BY <1>4, <2>1
  <2> QED BY <1>4, <2>2
<1>6. f = [n \in 0..m |-> IF n = 0 THEN <<>> ELSE f[n - 1] \o PiecesOf(n)]
  <2>1. \A n \in 0..m : f[n] = IF n = 0 THEN <<>> ELSE f[n - 1] \o PiecesOf(n)
    BY <1>1, <1>4, <1>5
  <2>2. f = [n \in 0..m |-> f[n]]
    BY <1>4
  <2> HIDE DEF step
  <2> QED BY <2>1, <2>2
<1> QED BY <1>6 DEF PieceChain

\* Slicing leaves nothing out (_expand_oversized_segments).
LEMMA ExpandedFits == ASSUME tale \in Seq(Segment) PROVE PiecesFit(ExpandOversized, Len(tale))
<1> DEFINE m == Len(tale)
           f == CHOOSE g : PieceChain(g)
           G == {n \in Nat : n <= m => PiecesFit(f[n], n)}
<1>1. ExpandOversized = f[m]
  BY DEF ExpandOversized, PieceChain
<1>2. PieceChain(f)
  BY PieceChainExists
<1> HIDE DEF f
<1>3. m \in Nat /\ \A n \in 1..m : tale[n] \in Segment
  OBVIOUS
<1>4. \A n \in 0..m : f[n] = IF n = 0 THEN <<>> ELSE f[n - 1] \o PiecesOf(n)
  BY <1>2 DEF PieceChain
<1>5. 0 \in G
  <2>1. f[0] = <<>>
    BY <1>3, <1>4
  <2>2. PiecesFit(<<>>, 0)
    BY DEF PiecesFit, InOrder
  <2> QED BY <2>1, <2>2
<1>6. ASSUME NEW n \in Nat, n < m, n \in G PROVE n + 1 \in G
  <2>1. PiecesFit(f[n], n) /\ tale[n + 1] \in Segment
    BY <1>3, <1>6
  <2>2. f[n + 1] = f[n] \o PiecesOf(n + 1)
    <3>1. n + 1 \in 0..m /\ n + 1 # 0 /\ (n + 1) - 1 = n
      BY <1>3, <1>6
    <3> QED BY <1>4, <3>1
  <2>3. PiecesFit(f[n + 1], n + 1)
    BY <2>1, <2>2, PiecesStep
  <2> QED BY <2>3
<1>7. m \in G
  <2> HIDE DEF G
  <2>1. \A n \in 0..m : n \in G
    BY <1>3, <1>5, <1>6, CountUp
  <2> QED BY <1>3, <2>1
<1> QED BY <1>1, <1>3, <1>7

\* So is a short tale as it is.
LEMMA WholeFits == ASSUME tale \in Seq(Segment) PROVE PiecesFit(WholeTale, Len(tale))
<1> DEFINE m == Len(tale)
           E == [i \in 1..m |-> [seg |-> i, first |-> 0, past |-> tale[i].len]]
<1>1. WholeTale = E /\ m \in Nat
  BY DEF WholeTale
<1>2. \A i \in 1..m : tale[i].len \in Nat \ {0}
  BY SegmentIs
<1> HIDE DEF m
<1>3. ASSUME NEW k \in 1..m
      PROVE  E[k] \in PieceRow /\ E[k].seg = k /\ E[k].first = 0 /\ E[k].past = tale[k].len
  BY <1>1, <1>2 DEF PieceRow
<1>4. E \in Seq(PieceRow) /\ Len(E) = m
  BY <1>1, <1>3
<1> HIDE DEF E
<1>5. InOrder(E)
  BY <1>3, <1>4 DEF InOrder, Before
<1>6. \A k \in 1..m : E[k].seg \in 1..m /\ InSegment(E[k])
  BY <1>2, <1>3 DEF InSegment
<1>7. \A i \in 1..m : Covers(E, i)
  BY <1>3, <1>4 DEF Covers
<1> QED BY <1>1, <1>4, <1>5, <1>6, <1>7 DEF PiecesFit, m

-----------------------------------------------------------------------------
(* The groups: each is a stretch of the pieces, from lo to hi, and the     *)
(* stretches overlap or follow each other without a gap.                   *)

IsCut(G, E, n, lo, hi) ==
    /\ Len(G) \in Nat \ {0} /\ lo \in Seq(Nat) /\ hi \in Seq(Nat) /\ Len(lo) = Len(G) /\ Len(hi) = Len(G)
    /\ lo[1] = 1 /\ hi[Len(G)] = n
    /\ \A k \in 1..Len(G) : 1 <= lo[k] /\ lo[k] <= hi[k] /\ hi[k] <= n /\ G[k] = SubSeq(E, lo[k], hi[k])
    /\ \A k \in 1..(Len(G) - 1) : lo[k] <= lo[k + 1] /\ lo[k + 1] <= hi[k] + 1 /\ hi[k] <= hi[k + 1]

\* No group has two slices of one segment.
Alone(E, a, b) == \A i, j \in a..b : i # j => E[i].seg # E[j].seg

AllAlone(E, lo, hi) == \A k \in 1..Len(lo) : Alone(E, lo[k], hi[k])

\* A stretch of a sequence, which may be empty.
LEMMA PartIs ==
    ASSUME NEW R, NEW E \in Seq(R), NEW a \in Nat \ {0}, NEW b \in Nat, a <= b + 1, b <= Len(E)
    PROVE  /\ SubSeq(E, a, b) \in Seq(R) /\ Len(SubSeq(E, a, b)) = b - a + 1
           /\ \A j \in 1..(b - a + 1) : SubSeq(E, a, b)[j] = E[a + j - 1]
<1> DEFINE P == [j \in 1..(b - a + 1) |-> E[a + j - 1]]
<1>1. SubSeq(E, a, b) = P
  OBVIOUS
<1>2. b - a + 1 \in Nat /\ \A j \in 1..(b - a + 1) : a + j - 1 \in 1..Len(E) /\ E[a + j - 1] \in R
  OBVIOUS
<1>3. P \in Seq(R) /\ Len(P) = b - a + 1
  BY <1>2
<1> QED BY <1>1, <1>3

LEMMA PartMore ==
    ASSUME NEW R, NEW E \in Seq(R), NEW a \in Nat \ {0}, NEW b \in Nat, a <= b + 1, b < Len(E)
    PROVE  Append(SubSeq(E, a, b), E[b + 1]) = SubSeq(E, a, b + 1)
<1> DEFINE P == SubSeq(E, a, b)
           Q == SubSeq(E, a, b + 1)
           A == Append(P, E[b + 1])
           n == b - a + 1
<1>1. P \in Seq(R) /\ Len(P) = n /\ \A j \in 1..n : P[j] = E[a + j - 1]
  BY PartIs
<1>2. Q \in Seq(R) /\ Len(Q) = n + 1 /\ \A j \in 1..(n + 1) : Q[j] = E[a + j - 1]
  <2>1. b + 1 \in Nat /\ a <= (b + 1) + 1 /\ b + 1 <= Len(E) /\ (b + 1) - a + 1 = n + 1
    OBVIOUS
  <2>2. /\ SubSeq(E, a, b + 1) \in Seq(R) /\ Len(SubSeq(E, a, b + 1)) = (b + 1) - a + 1
        /\ \A j \in 1..((b + 1) - a + 1) : SubSeq(E, a, b + 1)[j] = E[a + j - 1]
    BY <2>1, PartIs
  <2> QED BY <2>1, <2>2
<1>3. n \in Nat /\ a + (n + 1) - 1 = b + 1 /\ E[b + 1] \in R
  OBVIOUS
<1> HIDE DEF P, Q, n
<1>4. A \in Seq(R) /\ Len(A) = n + 1 /\ A[n + 1] = E[b + 1] /\ \A j \in 1..n : A[j] = P[j]
  BY <1>1, <1>3
<1>5. ASSUME NEW j \in 1..(n + 1) PROVE A[j] = Q[j]
  <2>1. CASE j \in 1..n
    BY <1>1, <1>2, <1>4, <2>1
  <2>2. CASE j = n + 1
    <3>1. n + 1 \in 1..(n + 1)
      BY <1>3
    <3>2. Q[n + 1] = E[a + (n + 1) - 1]
      BY <1>2, <3>1
    <3> QED BY <1>3, <1>4, <2>2, <3>2
  <2>3. j \in 1..n \/ j = n + 1
    BY <1>3
  <2> HIDE DEF A
  <2> QED BY <2>1, <2>2, <2>3
<1>6. A = Q
  <2> HIDE DEF A
  <2>1. A = [j \in 1..(n + 1) |-> A[j]] /\ Q = [j \in 1..(n + 1) |-> Q[j]]
    BY <1>2, <1>4
  <2> QED BY <1>5, <2>1
<1> QED BY <1>6 DEF P, Q

\* A stretch of a stretch.
LEMMA PartOfPart ==
    ASSUME NEW R, NEW E \in Seq(R), NEW a \in Nat \ {0}, NEW b \in Nat, a <= b + 1, b <= Len(E),
           NEW y \in 1..(b - a + 2)
    PROVE  SubSeq(SubSeq(E, a, b), y, b - a + 1) = SubSeq(E, a + y - 1, b)
<1> DEFINE P == SubSeq(E, a, b)
           n == b - a + 1
           A == SubSeq(P, y, n)
           x == a + y - 1
           B == SubSeq(E, x, b)
           m == b - x + 1
<1>1. P \in Seq(R) /\ Len(P) = n /\ \A j \in 1..n : P[j] = E[a + j - 1]
  BY PartIs
<1>2. n \in Nat /\ y \in Nat \ {0} /\ y <= n + 1 /\ x \in Nat \ {0} /\ x <= b + 1 /\ m \in Nat /\ n - y + 1 = m
  OBVIOUS
<1> HIDE DEF P
<1>3. A \in Seq(R) /\ Len(A) = n - y + 1 /\ \A j \in 1..(n - y + 1) : A[j] = P[y + j - 1]
  <2> HIDE DEF n
  <2> QED BY <1>1, <1>2, PartIs
<1>4. B \in Seq(R) /\ Len(B) = m /\ \A j \in 1..m : B[j] = E[x + j - 1]
  <2> HIDE DEF x
  <2> QED BY <1>2, PartIs
<1>5. ASSUME NEW j \in 1..m PROVE A[j] = B[j]
  <2>1. y + j - 1 \in 1..n /\ a + (y + j - 1) - 1 = x + j - 1
    BY <1>2
  <2>2. A[j] = P[y + j - 1] /\ P[y + j - 1] = E[a + (y + j - 1) - 1]
    BY <1>1, <1>2, <1>3, <2>1
  <2>3. B[j] = E[x + j - 1]
    BY <1>4
  <2> QED BY <2>1, <2>2, <2>3
<1> HIDE DEF A, B, m, n, x
<1>6. A = [j \in 1..m |-> A[j]] /\ B = [j \in 1..m |-> B[j]]
  BY <1>2, <1>3, <1>4
<1> QED BY <1>5, <1>6 DEF A, B, P, n, x

\* What a cut says of one group.
LEMMA CutAt ==
    ASSUME NEW G, NEW E, NEW n \in Nat, NEW lo, NEW hi, IsCut(G, E, n, lo, hi), NEW k \in 1..Len(G)
    PROVE  /\ lo[k] \in Nat \ {0} /\ hi[k] \in Nat /\ lo[k] <= hi[k] /\ hi[k] <= n
           /\ G[k] = SubSeq(E, lo[k], hi[k])
<1>1. lo \in Seq(Nat) /\ hi \in Seq(Nat) /\ k \in 1..Len(lo) /\ k \in 1..Len(hi)
  BY DEF IsCut
<1>2. lo[k] \in Nat /\ hi[k] \in Nat
  BY <1>1
<1>3. 1 <= lo[k] /\ lo[k] <= hi[k] /\ hi[k] <= n /\ G[k] = SubSeq(E, lo[k], hi[k])
  BY DEF IsCut
<1> QED BY <1>2, <1>3

LEMMA CutNext ==
    ASSUME NEW G, NEW E, NEW n \in Nat, NEW lo, NEW hi, IsCut(G, E, n, lo, hi), NEW k \in 1..(Len(G) - 1)
    PROVE  lo[k] <= lo[k + 1] /\ lo[k + 1] <= hi[k] + 1 /\ hi[k] <= hi[k + 1]
  BY DEF IsCut

\* The last group takes one more piece.
LEMMA CutGrows ==
    ASSUME NEW E \in Seq(PieceRow), NEW n \in Nat, n < Len(E), NEW D \in Seq(Seq(PieceRow)),
           NEW o \in Seq(PieceRow), NEW lo, NEW hi, IsCut(Append(D, o), E, n, lo, hi)
    PROVE  IsCut(Append(D, Append(o, E[n + 1])), E, n + 1, lo, [hi EXCEPT ![Len(hi)] = n + 1])
<1> DEFINE G == Append(D, o)
           p == Append(o, E[n + 1])
           H == Append(D, p)
           l == Len(D) + 1
           h == [hi EXCEPT ![Len(hi)] = n + 1]
<1>1. /\ Len(G) = l /\ G[l] = o /\ \A k \in 1..Len(D) : G[k] = D[k]
      /\ l \in Nat \ {0} /\ 1..l = (1..Len(D)) \cup {l} /\ l \notin 1..Len(D) /\ l - 1 = Len(D)
  OBVIOUS
<1>2. Len(H) = l /\ H[l] = p /\ \A k \in 1..Len(D) : H[k] = D[k]
  <2>1. p \in Seq(PieceRow)
    OBVIOUS
  <2> HIDE DEF p
  <2> QED BY <2>1
<1> HIDE DEF G, H, p, l
<1>3. lo \in Seq(Nat) /\ hi \in Seq(Nat) /\ Len(lo) = l /\ Len(hi) = l /\ lo[1] = 1 /\ hi[l] = n
  BY <1>1 DEF IsCut, G
<1>11. ASSUME NEW k \in 1..l
       PROVE  /\ lo[k] \in Nat \ {0} /\ hi[k] \in Nat /\ lo[k] <= hi[k] /\ hi[k] <= n
              /\ G[k] = SubSeq(E, lo[k], hi[k])
  <2>1. IsCut(G, E, n, lo, hi)
    BY DEF G
  <2> QED BY <1>1, <2>1, CutAt
<1>12. ASSUME NEW k \in 1..(l - 1)
       PROVE  lo[k] <= lo[k + 1] /\ lo[k + 1] <= hi[k] + 1 /\ hi[k] <= hi[k + 1]
  BY <1>1, CutNext DEF G
<1>4. h \in Seq(Nat) /\ Len(h) = l /\ h[l] = n + 1 /\ \A k \in 1..Len(D) : h[k] = hi[k]
  <2>1. l \in 1..Len(hi) /\ n + 1 \in Nat
    BY <1>1, <1>3
  <2> QED BY <1>1, <1>3, <2>1
<1> HIDE DEF h
<1>0. l \in 1..l
  BY <1>1
<1>5. H[l] = SubSeq(E, lo[l], h[l]) /\ 1 <= lo[l] /\ lo[l] <= n /\ lo[l] \in Nat
  <2>1. o = SubSeq(E, lo[l], n) /\ lo[l] \in Nat \ {0} /\ lo[l] <= n
    BY <1>0, <1>1, <1>3, <1>11
  <2> DEFINE a == lo[l]
  <2>2. a \in Nat \ {0} /\ a <= n + 1
    BY <2>1
  <2> HIDE DEF a
  <2>3. Append(SubSeq(E, a, n), E[n + 1]) = SubSeq(E, a, n + 1)
    BY <2>2, PartMore
  <2> QED BY <1>2, <1>4, <2>1, <2>3 DEF p, a
<1>6. ASSUME NEW k \in 1..l
      PROVE  1 <= lo[k] /\ lo[k] <= h[k] /\ h[k] <= n + 1 /\ H[k] = SubSeq(E, lo[k], h[k])
  <2>1. CASE k \in 1..Len(D)
    <3>1. H[k] = G[k] /\ h[k] = hi[k]
      BY <1>1, <1>2, <1>4, <2>1
    <3>2. lo[k] \in Nat \ {0} /\ hi[k] \in Nat /\ lo[k] <= hi[k] /\ hi[k] <= n /\ G[k] = SubSeq(E, lo[k], hi[k])
      BY <1>11
    <3> QED BY <3>1, <3>2
  <2>2. CASE k = l
    BY <1>4, <1>5, <2>2
  <2> QED BY <1>1, <2>1, <2>2
<1>7. ASSUME NEW k \in 1..(l - 1)
      PROVE  lo[k] <= lo[k + 1] /\ lo[k + 1] <= h[k] + 1 /\ h[k] <= h[k + 1]
  <2>1. k \in 1..Len(D) /\ k \in 1..l /\ k + 1 \in 1..l /\ (k + 1 \in 1..Len(D) \/ k + 1 = l)
    BY <1>1
  <2>2. h[k] = hi[k] /\ (h[k + 1] = hi[k + 1] \/ h[k + 1] = n + 1)
    BY <1>4, <2>1
  <2>3. hi[k] \in Nat /\ hi[k] <= n /\ hi[k + 1] \in Nat
    BY <1>11, <2>1
  <2>4. lo[k] <= lo[k + 1] /\ lo[k + 1] <= hi[k] + 1 /\ hi[k] <= hi[k + 1]
    BY <1>12
  <2> QED BY <2>2, <2>3, <2>4
<1>8. IsCut(H, E, n + 1, lo, h)
  BY <1>1, <1>2, <1>3, <1>4, <1>6, <1>7 DEF IsCut
<1> QED BY <1>8 DEF H, p, h

\* A new group is opened with the next piece, and what is carried over from the last one.
LEMMA CutOpens ==
    ASSUME NEW E \in Seq(PieceRow), NEW n \in Nat, n < Len(E), NEW G \in Seq(Seq(PieceRow)), NEW lo, NEW hi,
           IsCut(G, E, n, lo, hi), NEW x \in lo[Len(G)]..(n + 1)
    PROVE  IsCut(Append(G, SubSeq(E, x, n + 1)), E, n + 1, Append(lo, x), Append(hi, n + 1))
<1>0. \A k \in 1..Len(G) : /\ 1 <= lo[k] /\ lo[k] <= hi[k] /\ hi[k] <= n + 1
                           /\ G[k] = SubSeq(E, lo[k], hi[k])
  <2> TAKE k \in 1..Len(G)
  <2>1. lo[k] \in Nat \ {0} /\ hi[k] \in Nat /\ lo[k] <= hi[k] /\ hi[k] <= n /\ G[k] = SubSeq(E, lo[k], hi[k])
    BY CutAt
  <2> QED BY <2>1
<1> DEFINE l == Len(G)
           H == Append(G, SubSeq(E, x, n + 1))
           a == Append(lo, x)
           b == Append(hi, n + 1)
<1>1. /\ l \in Nat \ {0} /\ lo \in Seq(Nat) /\ hi \in Seq(Nat) /\ Len(lo) = l /\ Len(hi) = l /\ lo[1] = 1
      /\ hi[l] = n
      /\ \A k \in 1..l : 1 <= lo[k] /\ lo[k] <= hi[k] /\ hi[k] <= n /\ G[k] = SubSeq(E, lo[k], hi[k])
      /\ \A k \in 1..(l - 1) : lo[k] <= lo[k + 1] /\ lo[k + 1] <= hi[k] + 1 /\ hi[k] <= hi[k + 1]
  BY DEF IsCut
<1>2. lo[l] \in Nat /\ 1 <= lo[l] /\ x \in Nat /\ lo[l] <= x /\ x <= n + 1
  BY <1>1
<1>3. Len(H) = l + 1 /\ H[l + 1] = SubSeq(E, x, n + 1) /\ \A k \in 1..l : H[k] = G[k]
  <2> DEFINE P == SubSeq(E, x, n + 1)
  <2>1. P \in Seq(PieceRow)
    <3>1. x \in Nat \ {0} /\ n + 1 \in Nat /\ x <= (n + 1) + 1 /\ n + 1 <= Len(E)
      BY <1>2
    <3> QED BY <3>1, PartIs
  <2> HIDE DEF P
  <2> QED BY <2>1
<1>4. a \in Seq(Nat) /\ Len(a) = l + 1 /\ a[l + 1] = x /\ \A k \in 1..l : a[k] = lo[k]
  BY <1>1, <1>2
<1>5. b \in Seq(Nat) /\ Len(b) = l + 1 /\ b[l + 1] = n + 1 /\ \A k \in 1..l : b[k] = hi[k]
  BY <1>1
<1> HIDE DEF H, a, b
<1>6. ASSUME NEW k \in 1..(l + 1)
      PROVE  1 <= a[k] /\ a[k] <= b[k] /\ b[k] <= n + 1 /\ H[k] = SubSeq(E, a[k], b[k])
  <2>1. CASE k \in 1..l
    <3>1. H[k] = G[k] /\ a[k] = lo[k] /\ b[k] = hi[k]
      BY <1>3, <1>4, <1>5, <2>1
    <3>2. 1 <= lo[k] /\ lo[k] <= hi[k] /\ hi[k] <= n + 1 /\ G[k] = SubSeq(E, lo[k], hi[k])
      BY <1>0, <2>1
    <3> QED BY <3>1, <3>2
  <2>2. CASE k = l + 1
    <3>1. a[l + 1] = x /\ b[l + 1] = n + 1 /\ H[l + 1] = SubSeq(E, x, n + 1)
      BY <1>3, <1>4, <1>5
    <3>2. 1 <= x /\ x <= n + 1
      BY <1>2
    <3> QED BY <2>2, <3>1, <3>2
  <2>3. k \in 1..l \/ k = l + 1
    BY <1>1
  <2> QED BY <2>1, <2>2, <2>3
<1>7. ASSUME NEW k \in 1..l
      PROVE  a[k] <= a[k + 1] /\ a[k + 1] <= b[k] + 1 /\ b[k] <= b[k + 1]
  <2>1. CASE k \in 1..(l - 1)
    <3>1. k + 1 \in 1..l
      BY <1>1, <2>1
    <3>2. a[k] = lo[k] /\ a[k + 1] = lo[k + 1] /\ b[k] = hi[k] /\ b[k + 1] = hi[k + 1]
      BY <1>4, <1>5, <3>1
    <3> QED BY <1>1, <2>1, <3>2
  <2>2. CASE k = l
    <3>1. a[k] = lo[l] /\ a[k + 1] = x /\ b[k] = n /\ b[k + 1] = n + 1
      BY <1>1, <1>4, <1>5, <2>2
    <3> QED BY <1>2, <3>1
  <2> QED BY <1>1, <2>1, <2>2
<1>8. l + 1 \in Nat \ {0} /\ (l + 1) - 1 = l /\ a[1] = 1
  <2>1. 1 \in 1..l /\ lo[1] = 1
    BY <1>1
  <2>2. a[1] = lo[1]
    BY <1>4, <2>1
  <2> QED BY <1>1, <2>1, <2>2
<1>9. IsCut(H, E, n + 1, a, b)
  BY <1>3, <1>4, <1>5, <1>6, <1>7, <1>8 DEF IsCut
<1> QED BY <1>9 DEF H, a, b

LEMMA AlonePart ==
    ASSUME NEW E, NEW a \in Nat, NEW b \in Nat, NEW x \in Nat, a <= x, Alone(E, a, b) PROVE Alone(E, x, b)
<1>1. \A i \in x..b : i \in a..b
  OBVIOUS
<1> QED BY <1>1 DEF Alone

LEMMA AloneMore ==
    ASSUME NEW E \in Seq(PieceRow), InOrder(E), NEW a \in Nat \ {0}, NEW n \in Nat, a <= n, n < Len(E),
           Alone(E, a, n), E[n].seg # E[n + 1].seg
    PROVE  Alone(E, a, n + 1)
<1>1. ASSUME NEW i \in a..n PROVE E[i].seg # E[n + 1].seg
  <2>1. i \in 1..Len(E) /\ n \in 1..Len(E) /\ n + 1 \in 1..Len(E)
    OBVIOUS
  <2>2. E[i].seg \in Nat /\ E[n].seg \in Nat /\ E[n + 1].seg \in Nat
    <3>1. E[i] \in PieceRow /\ E[n] \in PieceRow /\ E[n + 1] \in PieceRow
      BY <2>1
    <3> QED BY <3>1 DEF PieceRow
  <2>3. Before(E[n], E[n + 1])
    BY <2>1 DEF InOrder
  <2>4. E[n].seg < E[n + 1].seg
    BY <2>2, <2>3 DEF Before
  <2>5. CASE i = n
    BY <2>5
  <2>6. CASE i < n
    <3>1. Before(E[i], E[n])
      BY <2>1, <2>6 DEF InOrder
    <3>2. E[i].seg <= E[n].seg
      BY <2>2, <3>1 DEF Before
    <3> QED BY <2>2, <2>4, <3>2
  <2> QED BY <2>5, <2>6
<1>2. \A i \in a..(n + 1) : i \in a..n \/ i = n + 1
  OBVIOUS
<1> QED BY <1>1, <1>2 DEF Alone

GroupRow == [done : Seq(Seq(PieceRow)), open : Seq(PieceRow)]

\* What is carried over is the end of the group.
LEMMA CarriedIs ==
    ASSUME NEW o \in Seq(PieceRow), NEW p, ~ SameSource(o, p)
    PROVE  \E y \in 1..(Len(o) + 1) : Carried(o, p) = SubSeq(o, y, Len(o))
<1> DEFINE y == IF Len(o) > Overlap THEN Len(o) - Overlap + 1 ELSE 1
<1>1. Carried(o, p) = SubSeq(o, y, Len(o))
  BY DEF Carried
<1>2. Len(o) \in Nat
  OBVIOUS
<1> DEFINE n == Len(o)
<1>3. y \in 1..(n + 1)
  <2> HIDE DEF n
  <2>1. n \in Nat
    BY <1>2 DEF n
  <2> QED BY <2>1, PlanAssumption DEF n
<1> QED BY <1>1, <1>3

LEMMA CarriedType ==
    ASSUME NEW o \in Seq(PieceRow), NEW p PROVE Carried(o, p) \in Seq(PieceRow)
<1>1. CASE SameSource(o, p)
  <2>1. Carried(o, p) = <<>>
    BY <1>1 DEF Carried
  <2> QED BY <2>1
<1>2. CASE ~ SameSource(o, p)
  <2>1. PICK y \in 1..(Len(o) + 1) : Carried(o, p) = SubSeq(o, y, Len(o))
    BY <1>2, CarriedIs
  <2> DEFINE n == Len(o)
  <2>2. n \in Nat /\ y \in 1..(n + 1)
    OBVIOUS
  <2>3. y \in Nat \ {0} /\ y <= n + 1
    BY <2>2
  <2>4. SubSeq(o, y, n) \in Seq(PieceRow)
    BY <2>2, <2>3, PartIs
  <2> QED BY <2>1, <2>4
<1> QED BY <1>1, <1>2

LEMMA AddPieceType ==
    ASSUME NEW acc \in GroupRow, NEW p \in PieceRow PROVE AddPiece(acc, p) \in GroupRow
<1>1. acc.done \in Seq(Seq(PieceRow)) /\ acc.open \in Seq(PieceRow)
  BY DEF GroupRow
<1>2. Carried(acc.open, p) \in Seq(PieceRow)
  BY <1>1, CarriedType
<1> DEFINE c == Carried(acc.open, p)
<1> HIDE DEF c
<1>3. c \in Seq(PieceRow)
  BY <1>2 DEF c
<1>4. Append(acc.done, acc.open) \in Seq(Seq(PieceRow)) /\ Append(c, p) \in Seq(PieceRow)
      /\ Append(acc.open, p) \in Seq(PieceRow)
  BY <1>1, <1>3
<1> QED BY <1>1, <1>4 DEF AddPiece, GroupRow, c

\* The groups so far are a cut of the pieces so far.
Cutting(acc, E, n) ==
    /\ acc \in GroupRow
    /\ n = 0 => acc = NoGroups
    /\ n > 0 => \E lo, hi : IsCut(Append(acc.done, acc.open), E, n, lo, hi) /\ AllAlone(E, lo, hi)

LEMMA FirstGroup ==
    ASSUME NEW E \in Seq(PieceRow), Len(E) > 0
    PROVE  IsCut(Append(<<>>, Append(<<>>, E[1])), E, 1, <<1>>, <<1>>) /\ AllAlone(E, <<1>>, <<1>>)
<1>1. SubSeq(E, 1, 1) = Append(<<>>, E[1])
  <2> DEFINE z == 0
  <2>1. z \in Nat /\ 1 <= z + 1 /\ z < Len(E) /\ z + 1 = 1
    OBVIOUS
  <2>2. SubSeq(E, 1, z) = <<>>
    OBVIOUS
  <2> HIDE DEF z
  <2>3. Append(SubSeq(E, 1, z), E[z + 1]) = SubSeq(E, 1, z + 1)
    BY <2>1, PartMore
  <2> QED BY <2>1, <2>2, <2>3
<1> DEFINE g == Append(<<>>, E[1])
           G == Append(<<>>, g)
           one == <<1>>
<1>2. g \in Seq(PieceRow)
  OBVIOUS
<1> HIDE DEF g
<1>3. Len(G) = 1 /\ G[1] = g
  BY <1>2
<1>4. one \in Seq(Nat) /\ Len(one) = 1 /\ one[1] = 1
  OBVIOUS
<1>5. \A k \in 1..1 : k = 1
  OBVIOUS
<1> HIDE DEF G, one
<1>6. IsCut(G, E, 1, one, one)
  <2>1. \A k \in 1..Len(G) : 1 <= one[k] /\ one[k] <= one[k] /\ one[k] <= 1 /\ G[k] = SubSeq(E, one[k], one[k])
    <3>1. 1 <= one[1] /\ one[1] <= one[1] /\ one[1] <= 1
      BY <1>4
    <3>2. G[1] = SubSeq(E, one[1], one[1])
      BY <1>1, <1>3, <1>4 DEF g
    <3> QED BY <1>3, <1>5, <3>1, <3>2
  <2>2. \A k \in 1..(Len(G) - 1) : FALSE
    BY <1>3
  <2>3. Len(G) \in Nat \ {0} /\ one[Len(G)] = 1
    BY <1>3, <1>4
  <2> QED BY <1>3, <1>4, <2>1, <2>2, <2>3 DEF IsCut
<1>7. AllAlone(E, one, one)
  BY <1>4, <1>5 DEF AllAlone, Alone
<1> QED BY <1>6, <1>7 DEF G, g, one

\* One more piece (_windowed).
LEMMA GroupStep ==
    ASSUME NEW E \in Seq(PieceRow), InOrder(E), NEW n \in Nat, n < Len(E), NEW acc, Cutting(acc, E, n)
    PROVE  Cutting(AddPiece(acc, E[n + 1]), E, n + 1)
<1> DEFINE p == E[n + 1]
           new == AddPiece(acc, p)
<1>0. p \in PieceRow
  OBVIOUS
<1>1. acc \in GroupRow /\ new \in GroupRow
  BY <1>0, AddPieceType DEF Cutting
<1> SUFFICES \E lo, hi : IsCut(Append(new.done, new.open), E, n + 1, lo, hi) /\ AllAlone(E, lo, hi)
  <2>1. n + 1 # 0
    OBVIOUS
  <2> QED BY <1>1, <2>1, Zenon DEF Cutting
<1>2. CASE n = 0
  <2>1. acc = NoGroups
    BY <1>2 DEF Cutting
  <2>2. new.done = <<>> /\ new.open = Append(<<>>, E[1])
    BY <1>2, <2>1 DEF AddPiece, ClosesBefore, NoGroups
  <2>3. IsCut(Append(new.done, new.open), E, n + 1, <<1>>, <<1>>) /\ AllAlone(E, <<1>>, <<1>>)
    BY <1>2, <2>2, FirstGroup
  <2> HIDE DEF new
  <2> QED BY <2>3
<1>3. CASE n # 0
  <2> DEFINE D == acc.done
             o == acc.open
             G == Append(D, o)
             l == Len(D) + 1
  <2>1. D \in Seq(Seq(PieceRow)) /\ o \in Seq(PieceRow)
    BY <1>1 DEF GroupRow
  <2>2. PICK lo, hi : IsCut(G, E, n, lo, hi) /\ AllAlone(E, lo, hi)
    <3>1. n > 0
      BY <1>3
    <3> QED BY <3>1, Zenon DEF Cutting
  <2> HIDE DEF D, o
  <2>3. G \in Seq(Seq(PieceRow)) /\ Len(G) = l /\ G[l] = o /\ l \in 1..l /\ l \in Nat \ {0}
    BY <2>1
  <2>4. IsCut(G, E, n, lo, hi)
    BY <2>2
  <2> HIDE DEF G, l
  <2>5. lo[l] \in Nat \ {0} /\ hi[l] = n /\ lo[l] <= n /\ o = SubSeq(E, lo[l], n)
    <3>1. hi[l] = n
      BY <2>3, <2>4 DEF IsCut
    <3>2. l \in 1..Len(G)
      BY <2>3
    <3>3. /\ lo[l] \in Nat \ {0} /\ hi[l] \in Nat /\ lo[l] <= hi[l] /\ hi[l] <= n
          /\ G[l] = SubSeq(E, lo[l], hi[l])
      BY <2>4, <3>2, CutAt
    <3> QED BY <2>3, <3>1, <3>3
  <2> DEFINE a == lo[l]
  <2>6. a \in Nat \ {0} /\ a <= n /\ o = SubSeq(E, a, n) /\ Alone(E, a, n)
    <3>1. Alone(E, lo[l], hi[l])
      BY <2>2, <2>3, <2>4 DEF AllAlone, IsCut
    <3> QED BY <2>5, <3>1
  <2> HIDE DEF a
  <2>7. Len(o) = n - a + 1 /\ \A j \in 1..(n - a + 1) : o[j] = E[a + j - 1]
    BY <2>6, PartIs
  <2>8. o # <<>> /\ Last(o) = E[n]
    <3>1. n - a + 1 \in 1..(n - a + 1) /\ a + (n - a + 1) - 1 = n
      BY <2>6
    <3>2. o[n - a + 1] = E[n]
      BY <2>7, <3>1
    <3>3. o # <<>>
      BY <2>6, <2>7
    <3> QED BY <2>7, <3>2, <3>3 DEF Last
  <2>9. SameSource(o, p) <=> E[n].seg = p.seg
    BY <2>8 DEF SameSource
  <2>10. ~ SameSource(o, p) => Alone(E, a, n + 1)
    BY <2>6, <2>9, AloneMore
  <2>11. CASE ClosesBefore(o, p)
    <3>1. new.done = G /\ new.open = Append(Carried(o, p), p)
      BY <2>11 DEF AddPiece, D, o, G
    <3>2. \E x \in a..(n + 1) : Append(Carried(o, p), p) = SubSeq(E, x, n + 1) /\ Alone(E, x, n + 1)
      <4>1. CASE SameSource(o, p)
        <5>1. Carried(o, p) = <<>>
          BY <4>1 DEF Carried
        <5>2. Append(SubSeq(E, n + 1, n), p) = SubSeq(E, n + 1, n + 1)
          BY PartMore
        <5>3. SubSeq(E, n + 1, n) = <<>>
          OBVIOUS
        <5>4. Alone(E, n + 1, n + 1)
          BY DEF Alone
        <5>5. n + 1 \in a..(n + 1)
          BY <2>6
        <5> QED BY <5>1, <5>2, <5>3, <5>4, <5>5
      <4>2. CASE ~ SameSource(o, p)
        <5>1. PICK y \in 1..(Len(o) + 1) : Carried(o, p) = SubSeq(o, y, Len(o))
          BY <2>1, <4>2, CarriedIs
        <5>2. y \in 1..(n - a + 2) /\ Len(o) = n - a + 1
          BY <2>6, <2>7
        <5> DEFINE x == a + y - 1
        <5>3. SubSeq(SubSeq(E, a, n), y, n - a + 1) = SubSeq(E, x, n)
          BY <2>6, <5>2, PartOfPart
        <5>4. x \in a..(n + 1) /\ x \in Nat \ {0} /\ x <= n + 1 /\ a <= x
          BY <2>6, <5>2
        <5> HIDE DEF x
        <5>5. Append(SubSeq(E, x, n), p) = SubSeq(E, x, n + 1)
          BY <5>4, PartMore
        <5>6. Alone(E, x, n + 1)
          <6>1. Alone(E, a, n + 1) /\ n + 1 \in Nat /\ a \in Nat /\ x \in Nat
            BY <2>6, <2>10, <4>2, <5>4
          <6> QED BY <5>4, <6>1, AlonePart
        <5>7. Append(Carried(o, p), p) = SubSeq(E, x, n + 1)
          BY <2>6, <5>1, <5>2, <5>3, <5>5
        <5> QED BY <5>4, <5>6, <5>7
      <4> QED BY <4>1, <4>2
    <3>3. PICK x \in a..(n + 1) : Append(Carried(o, p), p) = SubSeq(E, x, n + 1) /\ Alone(E, x, n + 1)
      BY <3>2
    <3> DEFINE lo1 == Append(lo, x)
               hi1 == Append(hi, n + 1)
    <3>4. IsCut(Append(G, SubSeq(E, x, n + 1)), E, n + 1, lo1, hi1)
      <4>1. x \in lo[Len(G)]..(n + 1)
        BY <2>3, <3>3 DEF a
      <4> QED BY <2>3, <2>4, <4>1, CutOpens
    <3>5. AllAlone(E, lo1, hi1)
      <4>1. lo \in Seq(Nat) /\ hi \in Seq(Nat) /\ Len(lo) = l /\ Len(hi) = l
        BY <2>3, <2>4 DEF IsCut
      <4>2. /\ Len(lo1) = l + 1 /\ lo1[l + 1] = x /\ hi1[l + 1] = n + 1
            /\ \A k \in 1..l : lo1[k] = lo[k] /\ hi1[k] = hi[k]
        BY <2>3, <4>1
      <4> HIDE DEF lo1, hi1
      <4>3. \A k \in 1..(l + 1) : k \in 1..l \/ k = l + 1
        BY <2>3
      <4>4. \A k \in 1..l : Alone(E, lo[k], hi[k])
        BY <2>2, <4>1 DEF AllAlone
      <4>5. ASSUME NEW k \in 1..(l + 1) PROVE Alone(E, lo1[k], hi1[k])
        <5>1. CASE k \in 1..l
          BY <4>2, <4>4, <5>1
        <5>2. CASE k = l + 1
          BY <3>3, <4>2, <5>2
        <5> QED BY <4>3, <5>1, <5>2
      <4> QED BY <4>2, <4>5 DEF AllAlone
    <3>6. Append(new.done, new.open) = Append(G, SubSeq(E, x, n + 1))
      BY <3>1, <3>3
    <3> HIDE DEF lo1, hi1, new
    <3> QED BY <3>4, <3>5, <3>6
  <2>12. CASE ~ ClosesBefore(o, p)
    <3>1. new.done = D /\ new.open = Append(o, p)
      BY <2>12 DEF AddPiece, D, o
    <3>2. ~ SameSource(o, p)
      BY <2>8, <2>12 DEF ClosesBefore
    <3> DEFINE hi1 == [hi EXCEPT ![Len(hi)] = n + 1]
    <3>3. IsCut(Append(D, Append(o, p)), E, n + 1, lo, hi1)
      <4>1. IsCut(Append(D, o), E, n, lo, hi)
        BY <2>4 DEF G
      <4> QED BY <2>1, <4>1, CutGrows
    <3>4. AllAlone(E, lo, hi1)
      <4>1. lo \in Seq(Nat) /\ hi \in Seq(Nat) /\ Len(lo) = l /\ Len(hi) = l
        BY <2>3, <2>4 DEF IsCut
      <4>2. hi1[l] = n + 1 /\ \A k \in 1..l : k # l => hi1[k] = hi[k]
        BY <2>3, <4>1
      <4> HIDE DEF hi1
      <4>4. \A k \in 1..l : Alone(E, lo[k], hi[k])
        BY <2>2, <4>1 DEF AllAlone
      <4>5. ASSUME NEW k \in 1..l PROVE Alone(E, lo[k], hi1[k])
        <5>1. CASE k # l
          BY <4>2, <4>4, <5>1
        <5>2. CASE k = l
          BY <2>10, <3>2, <4>2, <5>2 DEF a
        <5> QED BY <5>1, <5>2
      <4> QED BY <4>1, <4>5 DEF AllAlone
    <3> HIDE DEF hi1, new
    <3> QED BY <3>1, <3>3, <3>4
  <2> QED BY <2>11, <2>12
<1> QED BY <1>2, <1>3

GroupChain(f, E) == f = [n \in 0..Len(E) |-> IF n = 0 THEN NoGroups ELSE AddPiece(f[n - 1], E[n])]

LEMMA GroupChainExists == ASSUME NEW E \in Seq(PieceRow) PROVE \E f : GroupChain(f, E)
<1> DEFINE m == Len(E)
           step == [q \in GroupRow \X (1..m) |-> AddPiece(q[1], E[q[2]])]
<1>1. m \in Nat /\ \A n \in 1..m : E[n] \in PieceRow
  OBVIOUS
<1>2. IsStep(step, GroupRow, m)
  <2> HIDE DEF m
  <2>1. \A acc \in GroupRow, n \in 1..m : AddPiece(acc, E[n]) \in GroupRow
    BY <1>1, AddPieceType
  <2> QED BY <2>1 DEF IsStep
<1>3. NoGroups \in GroupRow
  BY DEF NoGroups, GroupRow
<1>4. PICK f : /\ f \in [0..m -> GroupRow] /\ f[0] = NoGroups
               /\ \A n \in 1..m : f[n] = step[<<f[n - 1], n>>]
  <2> HIDE DEF step, m
  <2>2. PICK f : IsChain(f, GroupRow, NoGroups, step, m)
    BY <1>1, <1>2, <1>3, ChainExists, Zenon
  <2> QED BY <2>2 DEF IsChain
<1>5. ASSUME NEW n \in 1..m PROVE f[n] = AddPiece(f[n - 1], E[n])
  <2>1. n - 1 \in 0..m
    BY <1>1, <1>5
  <2>2. f[n - 1] \in GroupRow
    BY <1>4, <2>1
  <2> QED BY <1>4, <2>2
<1>6. f = [n \in 0..m |-> IF n = 0 THEN NoGroups ELSE AddPiece(f[n - 1], E[n])]
  <2>1. \A n \in 0..m : f[n] = IF n = 0 THEN NoGroups ELSE AddPiece(f[n - 1], E[n])
    BY <1>1, <1>4, <1>5
  <2>2. f = [n \in 0..m |-> f[n]]
    BY <1>4
  <2> HIDE DEF step
  <2> QED BY <2>1, <2>2
<1> QED BY <1>6 DEF GroupChain

\* The groups are a cut of the pieces, and none has two slices of one segment (_windowed).
LEMMA GroupsAre ==
    ASSUME NEW E \in Seq(PieceRow), InOrder(E), Len(E) > 0
    PROVE  /\ Groups(E) \in Seq(Seq(PieceRow))
           /\ \E lo, hi : IsCut(Groups(E), E, Len(E), lo, hi) /\ AllAlone(E, lo, hi)
<1> DEFINE m == Len(E)
           f == CHOOSE g : GroupChain(g, E)
           G == {n \in Nat : n <= m => Cutting(f[n], E, n)}
<1>1. Groups(E) = Append(f[m].done, f[m].open)
  BY DEF Groups, GroupChain
<1>2. GroupChain(f, E)
  BY GroupChainExists
<1> HIDE DEF f
<1>3. m \in Nat /\ m > 0
  OBVIOUS
<1>4. \A n \in 0..m : f[n] = IF n = 0 THEN NoGroups ELSE AddPiece(f[n - 1], E[n])
  BY <1>2 DEF GroupChain
<1>5. 0 \in G
  <2>1. f[0] = NoGroups
    BY <1>3, <1>4
  <2>2. Cutting(NoGroups, E, 0)
    BY DEF Cutting, NoGroups, GroupRow
  <2> QED BY <2>1, <2>2
<1>6. ASSUME NEW n \in Nat, n < m, n \in G PROVE n + 1 \in G
  <2>1. Cutting(f[n], E, n)
    BY <1>3, <1>6
  <2>2. f[n + 1] = AddPiece(f[n], E[n + 1])
    <3>1. n + 1 \in 0..m /\ n + 1 # 0 /\ (n + 1) - 1 = n
      BY <1>3, <1>6
    <3> QED BY <1>4, <3>1
  <2>3. Cutting(f[n + 1], E, n + 1)
    BY <1>6, <2>1, <2>2, GroupStep
  <2> QED BY <2>3
<1>7. m \in G
  <2> HIDE DEF G
  <2>1. \A n \in 0..m : n \in G
    BY <1>3, <1>5, <1>6, CountUp
  <2> QED BY <1>3, <2>1
<1>8. Cutting(f[m], E, m)
  BY <1>3, <1>7
<1>9. Append(f[m].done, f[m].open) \in Seq(Seq(PieceRow))
  BY <1>8 DEF Cutting, GroupRow
<1> HIDE DEF m
<1>10. \E lo, hi : IsCut(Append(f[m].done, f[m].open), E, m, lo, hi) /\ AllAlone(E, lo, hi)
  BY <1>3, <1>8, Zenon DEF Cutting
<1> QED BY <1>1, <1>9, <1>10 DEF m

-----------------------------------------------------------------------------
(* Joining two neighbours keeps the cut: what both have is taken once.     *)

Distinct(E) == \A i, j \in 1..Len(E) : i # j => E[i] # E[j]

UniqueChain(f, g) == f = [n \in 0..Len(g) |-> IF n = 0 THEN <<>> ELSE AddUnseen(f[n - 1], g[n])]

LEMMA UniqueChainExists == ASSUME NEW g \in Seq(PieceRow) PROVE \E f : UniqueChain(f, g)
<1> DEFINE m == Len(g)
           step == [q \in Seq(PieceRow) \X (1..m) |-> AddUnseen(q[1], g[q[2]])]
<1>1. m \in Nat /\ \A n \in 1..m : g[n] \in PieceRow
  OBVIOUS
<1>2. IsStep(step, Seq(PieceRow), m)
  <2> HIDE DEF m
  <2>1. \A out \in Seq(PieceRow), n \in 1..m : AddUnseen(out, g[n]) \in Seq(PieceRow)
    BY <1>1 DEF AddUnseen
  <2> QED BY <2>1 DEF IsStep
<1>3. <<>> \in Seq(PieceRow)
  OBVIOUS
<1>4. PICK f : /\ f \in [0..m -> Seq(PieceRow)] /\ f[0] = <<>>
               /\ \A n \in 1..m : f[n] = step[<<f[n - 1], n>>]
  <2> HIDE DEF step, m
  <2>2. PICK f : IsChain(f, Seq(PieceRow), <<>>, step, m)
    BY <1>1, <1>2, <1>3, ChainExists, Zenon
  <2> QED BY <2>2 DEF IsChain
<1>5. ASSUME NEW n \in 1..m PROVE f[n] = AddUnseen(f[n - 1], g[n])
  <2>1. n - 1 \in 0..m
    BY <1>1, <1>5
  <2>2. f[n - 1] \in Seq(PieceRow)
    BY <1>4, <2>1
  <2> QED BY <1>4, <2>2
<1>6. f = [n \in 0..m |-> IF n = 0 THEN <<>> ELSE AddUnseen(f[n - 1], g[n])]
  <2>1. \A n \in 0..m : f[n] = IF n = 0 THEN <<>> ELSE AddUnseen(f[n - 1], g[n])
    BY <1>1, <1>4, <1>5
  <2>2. f = [n \in 0..m |-> f[n]]
    BY <1>4
  <2> HIDE DEF step
  <2> QED BY <2>1, <2>2
<1> QED BY <1>6 DEF UniqueChain

\* A piece after a stretch of different pieces.
LEMMA SeenIs ==
    ASSUME NEW E \in Seq(PieceRow), Distinct(E), NEW a \in Nat \ {0}, NEW t \in Nat, a <= t + 1, t <= Len(E),
           NEW x \in a..Len(E)
    PROVE  /\ x <= t => AddUnseen(SubSeq(E, a, t), E[x]) = SubSeq(E, a, t)
           /\ x = t + 1 => AddUnseen(SubSeq(E, a, t), E[x]) = SubSeq(E, a, t + 1)
<1> DEFINE P == SubSeq(E, a, t)
           n == t - a + 1
<1>1. P \in Seq(PieceRow) /\ Len(P) = n /\ \A j \in 1..n : P[j] = E[a + j - 1]
  BY PartIs
<1>2. DOMAIN P = 1..n
  BY <1>1
<1> HIDE DEF P
<1>3. CASE x <= t
  <2>1. x - a + 1 \in 1..n /\ a + (x - a + 1) - 1 = x
    BY <1>3
  <2>2. P[x - a + 1] = E[x]
    BY <1>1, <2>1
  <2>3. AddUnseen(P, E[x]) = P
    BY <1>2, <2>1, <2>2 DEF AddUnseen
  <2> QED BY <1>3, <2>3 DEF P
<1>4. CASE x = t + 1
  <2>1. ASSUME NEW j \in 1..n PROVE P[j] # E[x]
    <3>1. a + j - 1 \in 1..Len(E) /\ x \in 1..Len(E) /\ a + j - 1 # x
      BY <1>4
    <3>2. E[a + j - 1] # E[x]
      BY <3>1 DEF Distinct
    <3> QED BY <1>1, <3>2
  <2>2. AddUnseen(P, E[x]) = Append(P, E[x])
    BY <1>2, <2>1 DEF AddUnseen
  <2>3. Append(SubSeq(E, a, t), E[t + 1]) = SubSeq(E, a, t + 1)
    <3>1. t < Len(E)
      BY <1>4
    <3> QED BY <3>1, PartMore
  <2> QED BY <1>4, <2>2, <2>3 DEF P
<1> QED BY <1>3, <1>4

\* Of two stretches that overlap or follow each other, every piece once.
LEMMA UniqueIs ==
    ASSUME NEW E \in Seq(PieceRow), Distinct(E), NEW a \in Nat \ {0}, NEW b \in Nat, NEW c \in Nat \ {0}, NEW d \in Nat,
           a <= b, b <= d, a <= c, c <= d, c <= b + 1, d <= Len(E)
    PROVE  Unique(SubSeq(E, a, b) \o SubSeq(E, c, d)) = SubSeq(E, a, d)
<1> DEFINE A == SubSeq(E, a, b)
           B == SubSeq(E, c, d)
           F == A \o B
           p == b - a + 1
           q == d - c + 1
           m == p + q
           f == CHOOSE h : UniqueChain(h, F)
           top(k) == IF k <= p THEN a + k - 1 ELSE IF c + (k - p) - 1 <= b THEN b ELSE c + (k - p) - 1
           G == {k \in Nat : k <= m => f[k] = SubSeq(E, a, top(k))}
<1>1. A \in Seq(PieceRow) /\ Len(A) = p /\ \A j \in 1..p : A[j] = E[a + j - 1]
  BY PartIs
<1>2. B \in Seq(PieceRow) /\ Len(B) = q /\ \A j \in 1..q : B[j] = E[c + j - 1]
  BY PartIs
<1>3. p \in Nat /\ q \in Nat /\ p > 0 /\ q > 0 /\ m \in Nat
  OBVIOUS
<1> HIDE DEF A, B
<1>4. /\ F \in Seq(PieceRow) /\ Len(F) = m
      /\ \A k \in 1..p : F[k] = E[a + k - 1]
      /\ \A k \in 1..q : F[p + k] = E[c + k - 1]
  <2>1. /\ F \in Seq(PieceRow) /\ Len(F) = Len(A) + Len(B)
        /\ \A k \in 1..Len(A) : F[k] = A[k]
        /\ \A k \in 1..Len(B) : F[Len(A) + k] = B[k]
    <3>1. A \in Seq(PieceRow) /\ B \in Seq(PieceRow)
      BY <1>1, <1>2
    <3> QED BY <3>1, Both
  <2> HIDE DEF F
  <2> QED BY <1>1, <1>2, <2>1
<1>5. UniqueChain(f, F)
  <2> HIDE DEF F
  <2> QED BY <1>4, UniqueChainExists
<1>6. Unique(F) = f[m]
  <2>1. Unique(F) = f[Len(F)]
    BY DEF Unique, UniqueChain
  <2> QED BY <1>4, <2>1
<1> HIDE DEF f, F
<1>7. \A k \in 0..m : f[k] = IF k = 0 THEN <<>> ELSE AddUnseen(f[k - 1], F[k])
  BY <1>4, <1>5 DEF UniqueChain
<1>8. 0 \in G
  <2>1. f[0] = <<>>
    <3>1. 0 \in 0..m
      BY <1>3
    <3> HIDE DEF m
    <3> QED BY <1>7, <3>1
  <2>2. top(0) = a - 1 /\ SubSeq(E, a, a - 1) = <<>>
    BY <1>3
  <2> QED BY <2>1, <2>2
<1>9. ASSUME NEW k \in Nat, k < m, k \in G PROVE k + 1 \in G
  <2>1. f[k] = SubSeq(E, a, top(k))
    BY <1>9
  <2>2. f[k + 1] = AddUnseen(f[k], F[k + 1])
    <3>1. k + 1 \in 0..m /\ k + 1 # 0 /\ (k + 1) - 1 = k
      BY <1>3, <1>9
    <3> QED BY <1>7, <3>1
  <2>3. CASE k + 1 <= p
    <3> DEFINE t == a + k - 1
               x == a + k
    <3>1. top(k) = t /\ top(k + 1) = t + 1 /\ k + 1 \in 1..p /\ a + (k + 1) - 1 = x
      BY <1>9, <2>3
    <3>2. F[k + 1] = E[x]
      BY <1>4, <3>1
    <3>3. t \in Nat /\ a <= t + 1 /\ t <= Len(E) /\ x \in a..Len(E) /\ x = t + 1
      BY <2>3
    <3> HIDE DEF t, x, top
    <3>4. AddUnseen(SubSeq(E, a, t), E[x]) = SubSeq(E, a, t + 1)
      BY <3>3, SeenIs
    <3>5. f[k + 1] = SubSeq(E, a, top(k + 1))
      BY <2>1, <2>2, <3>1, <3>2, <3>4
    <3> QED BY <3>5
  <2>4. CASE ~ (k + 1 <= p)
    <3> DEFINE x == c + (k + 1 - p) - 1
               t == IF x <= b THEN b ELSE x - 1
    <3>1. k + 1 - p \in 1..q /\ p + (k + 1 - p) = k + 1
      BY <1>3, <1>9, <2>4
    <3>2. F[k + 1] = E[x]
      BY <1>4, <3>1
    <3>3. top(k) = t
      BY <1>3, <1>9, <2>4
    <3>4. top(k + 1) = IF x <= b THEN b ELSE x
      BY <1>3, <1>9, <2>4
    <3>5. t \in Nat /\ a <= t + 1 /\ t <= Len(E) /\ x \in a..Len(E)
      BY <1>3, <1>9, <2>4
    <3>6. IF x <= b THEN x <= t ELSE x = t + 1
      BY <3>5
    <3> HIDE DEF t, top
    <3>7. CASE x <= b
      <4>1. top(k) = t /\ top(k + 1) = t /\ x <= t
        BY <3>3, <3>4, <3>6, <3>7 DEF t
      <4> HIDE DEF x
      <4>2. AddUnseen(SubSeq(E, a, t), E[x]) = SubSeq(E, a, t)
        BY <3>5, <4>1, SeenIs
      <4>3. f[k + 1] = SubSeq(E, a, top(k + 1))
        BY <2>1, <2>2, <3>2, <4>1, <4>2
      <4> QED BY <4>3
    <3>8. CASE ~ (x <= b)
      <4>1. top(k) = t /\ top(k + 1) = t + 1 /\ x = t + 1
        BY <3>3, <3>4, <3>5, <3>6, <3>8
      <4> HIDE DEF x
      <4>2. AddUnseen(SubSeq(E, a, t), E[x]) = SubSeq(E, a, t + 1)
        BY <3>5, <4>1, SeenIs
      <4>3. f[k + 1] = SubSeq(E, a, top(k + 1))
        BY <2>1, <2>2, <3>2, <4>1, <4>2
      <4> QED BY <4>3
    <3> QED BY <3>7, <3>8
  <2> QED BY <2>3, <2>4
<1>10. m \in G
  <2> HIDE DEF G, m
  <2>1. \A k \in 0..m : k \in G
    BY <1>3, <1>8, <1>9, CountUp
  <2> QED BY <1>3, <2>1
<1>11. top(m) = d
  BY <1>3
<1>12. f[m] = SubSeq(E, a, top(m))
  <2> HIDE DEF top
  <2> QED BY <1>3, <1>10
<1> HIDE DEF top
<1> QED BY <1>6, <1>11, <1>12 DEF F, A, B

\* Two neighbours become one (_coalesce_to_budget).
LEMMA CutJoins ==
    ASSUME NEW E \in Seq(PieceRow), Distinct(E), NEW G, NEW lo, NEW hi, IsCut(G, E, Len(E), lo, hi),
           NEW i \in 1..(Len(G) - 1)
    PROVE  /\ JoinAt(G, i) \in Seq(Seq(PieceRow)) /\ Len(JoinAt(G, i)) = Len(G) - 1
           /\ \E a, b : IsCut(JoinAt(G, i), E, Len(E), a, b)
<1> DEFINE l == Len(G) - 1
           H == JoinAt(G, i)
           a == [k \in 1..l |-> IF k <= i THEN lo[k] ELSE lo[k + 1]]
           b == [k \in 1..l |-> IF k < i THEN hi[k] ELSE hi[k + 1]]
           n == Len(E)
<1>1. /\ Len(G) \in Nat \ {0} /\ lo \in Seq(Nat) /\ hi \in Seq(Nat) /\ Len(lo) = Len(G) /\ Len(hi) = Len(G)
      /\ lo[1] = 1 /\ hi[Len(G)] = n
  BY DEF IsCut
<1>2. l \in Nat /\ l >= 1 /\ i \in 1..l /\ n \in Nat /\ Len(G) = l + 1
  BY <1>1
<1>3. ASSUME NEW k \in 1..(l + 1)
      PROVE  /\ lo[k] \in Nat \ {0} /\ hi[k] \in Nat /\ lo[k] <= hi[k] /\ hi[k] <= n
             /\ G[k] = SubSeq(E, lo[k], hi[k])
  BY <1>2, CutAt
<1>4. ASSUME NEW k \in 1..l
      PROVE  lo[k] <= lo[k + 1] /\ lo[k + 1] <= hi[k] + 1 /\ hi[k] <= hi[k + 1]
  BY <1>2, CutNext
<1>5. H = [k \in 1..l |-> IF k < i THEN G[k] ELSE IF k = i THEN Unique(G[i] \o G[i + 1]) ELSE G[k + 1]]
  BY DEF JoinAt
<1> HIDE DEF H, l
<1>6. ASSUME NEW k \in 1..l
      PROVE  /\ a[k] \in Nat \ {0} /\ b[k] \in Nat /\ a[k] <= b[k] /\ b[k] <= n
             /\ H[k] = SubSeq(E, a[k], b[k])
  <2>1. k \in 1..(l + 1) /\ k + 1 \in 1..(l + 1)
    BY <1>2
  <2>2. /\ lo[k] \in Nat \ {0} /\ hi[k] \in Nat /\ lo[k] <= hi[k] /\ hi[k] <= n
        /\ G[k] = SubSeq(E, lo[k], hi[k])
    BY <1>3, <2>1
  <2>3. /\ lo[k + 1] \in Nat \ {0} /\ hi[k + 1] \in Nat /\ lo[k + 1] <= hi[k + 1] /\ hi[k + 1] <= n
        /\ G[k + 1] = SubSeq(E, lo[k + 1], hi[k + 1])
    BY <1>3, <2>1
  <2>4. lo[k] <= lo[k + 1] /\ lo[k + 1] <= hi[k] + 1 /\ hi[k] <= hi[k + 1]
    BY <1>4
  <2>5. CASE k < i
    <3>1. a[k] = lo[k] /\ b[k] = hi[k] /\ H[k] = G[k]
      BY <1>2, <1>5, <2>5
    <3> QED BY <2>2, <3>1
  <2>6. CASE k = i
    <3>1. a[k] = lo[k] /\ b[k] = hi[k + 1] /\ H[k] = Unique(G[k] \o G[k + 1])
      BY <1>2, <1>5, <2>6
    <3> DEFINE w == lo[k]
               x == hi[k]
               y == lo[k + 1]
               z == hi[k + 1]
    <3>2. /\ w \in Nat \ {0} /\ x \in Nat /\ y \in Nat \ {0} /\ z \in Nat
          /\ w <= x /\ x <= z /\ w <= y /\ y <= z /\ y <= x + 1 /\ z <= Len(E)
      BY <2>2, <2>3, <2>4
    <3>3. G[k] = SubSeq(E, w, x) /\ G[k + 1] = SubSeq(E, y, z)
      BY <2>2, <2>3
    <3>4. a[k] = w /\ b[k] = z
      BY <3>1
    <3> HIDE DEF w, x, y, z, a, b
    <3>5. Unique(SubSeq(E, w, x) \o SubSeq(E, y, z)) = SubSeq(E, w, z)
      BY <3>2, UniqueIs
    <3>6. H[k] = SubSeq(E, w, z)
      BY <3>1, <3>3, <3>5
    <3> QED BY <3>2, <3>4, <3>6
  <2>7. CASE k > i
    <3>1. a[k] = lo[k + 1] /\ b[k] = hi[k + 1] /\ H[k] = G[k + 1]
      BY <1>2, <1>5, <2>7
    <3> QED BY <2>3, <3>1
  <2> QED BY <1>2, <2>5, <2>6, <2>7
<1>7. ASSUME NEW k \in 1..(l - 1)
      PROVE  a[k] <= a[k + 1] /\ a[k + 1] <= b[k] + 1 /\ b[k] <= b[k + 1]
  <2>1. k \in 1..(l + 1) /\ k + 1 \in 1..(l + 1) /\ (k + 1) + 1 \in 1..(l + 1)
        /\ k \in 1..l /\ k + 1 \in 1..l
    BY <1>2
  <2>2. lo[k] \in Nat /\ hi[k] \in Nat
    BY <1>3, <2>1
  <2>3. lo[k + 1] \in Nat /\ hi[k + 1] \in Nat
    BY <1>3, <2>1
  <2>4. lo[(k + 1) + 1] \in Nat /\ hi[(k + 1) + 1] \in Nat
    BY <1>3, <2>1
  <2>5. lo[k] <= lo[k + 1] /\ lo[k + 1] <= hi[k] + 1 /\ hi[k] <= hi[k + 1]
    BY <1>4, <2>1
  <2>6. lo[k + 1] <= lo[(k + 1) + 1] /\ lo[(k + 1) + 1] <= hi[k + 1] + 1 /\ hi[k + 1] <= hi[(k + 1) + 1]
    BY <1>4, <2>1
  <2>7. CASE k + 1 < i
    <3>1. a[k] = lo[k] /\ b[k] = hi[k] /\ a[k + 1] = lo[k + 1] /\ b[k + 1] = hi[k + 1]
      BY <1>2, <2>1, <2>7
    <3> QED BY <2>5, <3>1
  <2>8. CASE k + 1 = i
    <3>1. a[k] = lo[k] /\ b[k] = hi[k] /\ a[k + 1] = lo[k + 1] /\ b[k + 1] = hi[(k + 1) + 1]
      BY <1>2, <2>1, <2>8
    <3> HIDE DEF a, b
    <3> QED BY <2>2, <2>3, <2>4, <2>5, <2>6, <3>1
  <2>9. CASE k = i
    <3>1. a[k] = lo[k] /\ b[k] = hi[k + 1] /\ a[k + 1] = lo[(k + 1) + 1] /\ b[k + 1] = hi[(k + 1) + 1]
      BY <1>2, <2>1, <2>9
    <3> HIDE DEF a, b
    <3> QED BY <2>2, <2>3, <2>4, <2>5, <2>6, <3>1
  <2>10. CASE k > i
    <3>1. a[k] = lo[k + 1] /\ b[k] = hi[k + 1] /\ a[k + 1] = lo[(k + 1) + 1] /\ b[k + 1] = hi[(k + 1) + 1]
      BY <1>2, <2>1, <2>10
    <3> QED BY <2>6, <3>1
  <2>11. i \in Nat /\ k \in Nat
    BY <1>2
  <2> QED BY <2>7, <2>8, <2>9, <2>10, <2>11
<1>8. a \in Seq(Nat) /\ Len(a) = l /\ b \in Seq(Nat) /\ Len(b) = l
  <2>1. \A k \in 1..l : a[k] \in Nat /\ b[k] \in Nat
    BY <1>6
  <2>2. a \in Seq(Nat) /\ Len(a) = l
    <3>1. a \in [1..l -> Nat]
      BY <2>1
    <3> HIDE DEF a
    <3> QED BY <1>2, <3>1
  <2>3. b \in Seq(Nat) /\ Len(b) = l
    <3>1. b \in [1..l -> Nat]
      BY <2>1
    <3> HIDE DEF b
    <3> QED BY <1>2, <3>1
  <2> QED BY <2>2, <2>3
<1>9. a[1] = 1 /\ b[l] = n
  <2>1. 1 \in 1..l /\ l \in 1..l /\ 1 <= i /\ ~ (l < i)
    BY <1>2
  <2>2. a[1] = lo[1] /\ b[l] = hi[l + 1]
    BY <2>1
  <2> QED BY <1>1, <1>2, <2>2
<1> HIDE DEF a, b
<1>10. ASSUME NEW k \in 1..l PROVE H[k] \in Seq(PieceRow)
  <2> DEFINE w == a[k]
             z == b[k]
  <2>1. w \in Nat \ {0} /\ z \in Nat /\ w <= z /\ z <= Len(E) /\ H[k] = SubSeq(E, w, z)
    BY <1>6
  <2> HIDE DEF w, z
  <2>2. w <= z + 1
    BY <2>1
  <2> QED BY <2>1, <2>2, PartIs
<1>11. H \in Seq(Seq(PieceRow)) /\ Len(H) = l
  BY <1>2, <1>5, <1>10
<1>12. IsCut(H, E, n, a, b)
  <2>1. \A k \in 1..l : 1 <= a[k] /\ a[k] <= b[k] /\ b[k] <= n /\ H[k] = SubSeq(E, a[k], b[k])
    BY <1>6
  <2>2. l \in Nat \ {0}
    BY <1>2
  <2> HIDE DEF n
  <2> QED BY <1>7, <1>8, <1>9, <1>11, <2>1, <2>2 DEF IsCut
<1> QED BY <1>11, <1>12 DEF H, l

-----------------------------------------------------------------------------
(* Joining groups until the budget is met.                                 *)

TokenChain(f, g) == f = [n \in 0..Len(g) |-> IF n = 0 THEN 0 ELSE f[n - 1] + Size(g[n])]

LEMMA TokensNat ==
    ASSUME NEW g, Len(g) \in Nat, \A k \in 1..Len(g) : Size(g[k]) \in Nat PROVE Tokens(g) \in Nat
<1> DEFINE m == Len(g)
           step == [q \in Nat \X (1..m) |-> q[1] + Size(g[q[2]])]
<1>1. m \in Nat /\ 0 \in Nat
  OBVIOUS
<1>2. IsStep(step, Nat, m)
  <2>1. \A s \in Nat, n \in 1..m : s + Size(g[n]) \in Nat
    OBVIOUS
  <2> HIDE DEF m
  <2> QED BY <2>1 DEF IsStep
<1>4. PICK f : f \in [0..m -> Nat] /\ f[0] = 0 /\ \A n \in 1..m : f[n] = step[<<f[n - 1], n>>]
  <2> HIDE DEF step, m
  <2>2. PICK f : IsChain(f, Nat, 0, step, m)
    BY <1>1, <1>2, ChainExists, Zenon
  <2> QED BY <2>2 DEF IsChain
<1>5. ASSUME NEW n \in 1..m PROVE f[n] = f[n - 1] + Size(g[n])
  <2>1. n - 1 \in 0..m
    BY <1>1, <1>5
  <2>2. f[n - 1] \in Nat
    BY <1>4, <2>1
  <2> QED BY <1>4, <2>2
<1>6. f = [n \in 0..m |-> IF n = 0 THEN 0 ELSE f[n - 1] + Size(g[n])]
  <2>1. \A n \in 0..m : f[n] = IF n = 0 THEN 0 ELSE f[n - 1] + Size(g[n])
    BY <1>1, <1>4, <1>5
  <2>2. f = [n \in 0..m |-> f[n]]
    BY <1>4
  <2> HIDE DEF step
  <2> QED BY <2>1, <2>2
<1> DEFINE h == CHOOSE x : TokenChain(x, g)
           G == {n \in Nat : n <= m => h[n] \in Nat}
<1>7. TokenChain(h, g) /\ Tokens(g) = h[m]
  <2>1. \E x : TokenChain(x, g)
    BY <1>6 DEF TokenChain
  <2>2. Tokens(g) = h[m]
    BY DEF Tokens, TokenChain
  <2> QED BY <2>1, <2>2
<1> HIDE DEF h
<1>8. \A n \in 0..m : h[n] = IF n = 0 THEN 0 ELSE h[n - 1] + Size(g[n])
  BY <1>7 DEF TokenChain
<1>9. 0 \in G
  BY <1>1, <1>8
<1>10. ASSUME NEW n \in Nat, n < m, n \in G PROVE n + 1 \in G
  <2>1. n + 1 \in 0..m /\ n + 1 \in 1..m /\ (n + 1) - 1 = n /\ n + 1 # 0
    BY <1>1, <1>10
  <2>2. h[n + 1] = h[n] + Size(g[n + 1]) /\ h[n] \in Nat
    BY <1>8, <1>10, <2>1
  <2> QED BY <2>1, <2>2
<1>11. m \in G
  <2> HIDE DEF G
  <2>1. \A n \in 0..m : n \in G
    BY <1>1, <1>9, <1>10, CountUp
  <2> QED BY <1>1, <2>1
<1> QED BY <1>1, <1>7, <1>11

LEMMA CheapestIs ==
    ASSUME NEW G, Len(G) \in Nat, Len(G) > 1, \A k \in 1..Len(G) : Tokens(G[k]) \in Nat
    PROVE  Cheapest(G) \in 1..(Len(G) - 1)
<1> DEFINE cost(i) == Tokens(G[i]) + Tokens(G[i + 1])
           pairs == 1..(Len(G) - 1)
           least == {i \in pairs : \A j \in pairs : cost(i) <= cost(j)}
           C == {cost(i) : i \in pairs}
<1>1. \A i \in pairs : cost(i) \in Nat
  OBVIOUS
<1>2. 1 \in pairs /\ pairs \in SUBSET Nat
  OBVIOUS
<1> HIDE DEF pairs, cost
<1>3. C \in SUBSET Nat /\ C # {}
  BY <1>1, <1>2
<1>4. PICK d \in C : \A e \in C : d <= e
  BY <1>3, LeastNumber
<1>5. PICK i \in pairs : cost(i) = d
  OBVIOUS
<1>6. \A j \in pairs : cost(i) <= cost(j)
  BY <1>4, <1>5
<1>7. least \in SUBSET Nat /\ least # {} /\ least \subseteq pairs
  BY <1>2, <1>5, <1>6
<1> HIDE DEF least
<1>8. LeastOf(least) \in pairs
  BY <1>7, LeastOfIs
<1> QED BY <1>8 DEF Cheapest, least, cost, pairs

\* Pieces that are not empty.
Solid(E) == E \in Seq(PieceRow) /\ \A k \in 1..Len(E) : E[k].first < E[k].past

LEMMA CutTokens ==
    ASSUME NEW E, Solid(E), NEW G, NEW lo, NEW hi, IsCut(G, E, Len(E), lo, hi), NEW k \in 1..Len(G)
    PROVE  Tokens(G[k]) \in Nat
<1> DEFINE a == lo[k]
           b == hi[k]
           g == G[k]
           n == b - a + 1
<1>0. E \in Seq(PieceRow) /\ Len(E) \in Nat
  BY DEF Solid
<1>1. a \in Nat \ {0} /\ b \in Nat /\ a <= b /\ b <= Len(E) /\ g = SubSeq(E, a, b)
  BY <1>0, CutAt
<1> HIDE DEF a, b, g
<1>2. a <= b + 1 /\ n \in Nat
  BY <1>1
<1>3. Len(g) = n /\ \A j \in 1..n : g[j] = E[a + j - 1]
  BY <1>0, <1>1, <1>2, PartIs
<1>4. ASSUME NEW j \in 1..n PROVE Size(g[j]) \in Nat
  <2> DEFINE i == a + j - 1
  <2>1. i \in 1..Len(E) /\ g[j] = E[i]
    BY <1>0, <1>1, <1>3
  <2> HIDE DEF i
  <2>2. E[i] \in PieceRow /\ E[i].first < E[i].past
    BY <2>1 DEF Solid
  <2> QED BY <2>1, <2>2 DEF Size, PieceRow
<1>5. Tokens(g) \in Nat
  <2> HIDE DEF n
  <2> QED BY <1>2, <1>3, <1>4, TokensNat
<1> QED BY <1>5 DEF g

\* After n of the joins.
Shorter(H, E, l, n) ==
    /\ H \in Seq(Seq(PieceRow)) /\ Len(H) = l - n
    /\ \E lo, hi : IsCut(H, E, Len(E), lo, hi)

LEMMA ShorterStep ==
    ASSUME NEW E, Solid(E), Distinct(E), NEW l \in Nat, NEW n \in Nat, l - n > 1, NEW H, Shorter(H, E, l, n)
    PROVE  Shorter(JoinAt(H, Cheapest(H)), E, l, n + 1)
<1> DEFINE i == Cheapest(H)
<1>1. PICK lo, hi : IsCut(H, E, Len(E), lo, hi)
  BY DEF Shorter
<1>2. Len(H) \in Nat /\ Len(H) = l - n /\ Len(H) > 1 /\ E \in Seq(PieceRow)
  BY DEF Shorter, Solid
<1>3. \A k \in 1..Len(H) : Tokens(H[k]) \in Nat
  BY <1>1, CutTokens
<1>4. i \in 1..(Len(H) - 1)
  BY <1>2, <1>3, CheapestIs
<1> HIDE DEF i
<1>5. /\ JoinAt(H, i) \in Seq(Seq(PieceRow)) /\ Len(JoinAt(H, i)) = Len(H) - 1
      /\ \E a, b : IsCut(JoinAt(H, i), E, Len(E), a, b)
  BY <1>1, <1>2, <1>4, CutJoins
<1>6. Len(H) - 1 = l - (n + 1)
  BY <1>2
<1>7. Shorter(JoinAt(H, i), E, l, n + 1)
  BY <1>5, <1>6, Zenon DEF Shorter
<1> QED BY <1>7 DEF i

Surplus(G) == IF Len(G) > MaxWindows THEN Len(G) - MaxWindows ELSE 0

JoinChain(f, G) ==
    f = [k \in 0..Surplus(G) |-> IF k = 0 THEN G ELSE JoinAt(f[k - 1], Cheapest(f[k - 1]))]

LEMMA JoinRun ==
    ASSUME NEW E, Solid(E), Distinct(E), NEW G, Shorter(G, E, Len(G), 0), NEW f, f[0] = G,
           \A k \in 1..Surplus(G) : Shorter(f[k - 1], E, Len(G), k - 1)
                                       => f[k] = JoinAt(f[k - 1], Cheapest(f[k - 1]))
    PROVE  \A k \in 0..Surplus(G) : Shorter(f[k], E, Len(G), k)
<1> DEFINE l == Len(G)
           s == Surplus(G)
           R == {k \in Nat : k <= s => Shorter(f[k], E, l, k)}
<1>1. l \in Nat /\ s \in Nat /\ (s > 0 => s = l - MaxWindows) /\ MaxWindows \in Nat \ {0}
  BY PlanAssumption DEF Shorter, Surplus
<1> HIDE DEF s, l
<1>2. 0 \in R
  BY DEF l
<1>3. ASSUME NEW k \in Nat, k < s, k \in R PROVE k + 1 \in R
  <2>1. Shorter(f[k], E, l, k) /\ k + 1 \in 1..s /\ (k + 1) - 1 = k /\ l - k > 1
    BY <1>1, <1>3
  <2>2. f[k + 1] = JoinAt(f[k], Cheapest(f[k]))
    BY <2>1 DEF s, l
  <2>3. Shorter(f[k + 1], E, l, k + 1)
    BY <1>1, <2>1, <2>2, ShorterStep
  <2> QED BY <2>3
<1>4. \A k \in 0..s : k \in R
  <2> HIDE DEF R
  <2> QED BY <1>1, <1>2, <1>3, CountUp
<1>5. \A k \in 0..s : Shorter(f[k], E, l, k)
  BY <1>1, <1>4
<1> QED BY <1>5 DEF s, l

LEMMA JoinChainExists ==
    ASSUME NEW E, Solid(E), Distinct(E), NEW G, Shorter(G, E, Len(G), 0)
    PROVE  \E f : JoinChain(f, G)
<1> DEFINE m == Surplus(G)
           S == Seq(Seq(PieceRow))
           one(g) == JoinAt(g, Cheapest(g))
           step == [q \in S \X (1..m) |-> IF one(q[1]) \in S THEN one(q[1]) ELSE <<>>]
<1>1. m \in Nat /\ G \in S /\ <<>> \in S
  BY PlanAssumption DEF Surplus, Shorter
<1> HIDE DEF one
<1>2. IsStep(step, S, m)
  <2> HIDE DEF m, S
  <2> QED BY <1>1 DEF IsStep
<1>4. PICK f : f \in [0..m -> S] /\ f[0] = G /\ \A n \in 1..m : f[n] = step[<<f[n - 1], n>>]
  <2> HIDE DEF step, m, S
  <2>2. PICK f : IsChain(f, S, G, step, m)
    BY <1>1, <1>2, ChainExists, Zenon
  <2> QED BY <2>2 DEF IsChain
<1>5. ASSUME NEW n \in 1..m PROVE f[n] = IF one(f[n - 1]) \in S THEN one(f[n - 1]) ELSE <<>>
  <2>1. n - 1 \in 0..m
    BY <1>1, <1>5
  <2>2. f[n - 1] \in S
    BY <1>4, <2>1
  <2> HIDE DEF S
  <2> QED BY <1>4, <2>2
<1>6. ASSUME NEW n \in 1..m, Shorter(f[n - 1], E, Len(G), n - 1)
      PROVE  f[n] = one(f[n - 1]) /\ one(f[n - 1]) \in S
  <2>1. Len(G) \in Nat /\ n - 1 \in Nat /\ Len(G) - (n - 1) > 1
    BY <1>1, PlanAssumption DEF Surplus
  <2>2. Shorter(one(f[n - 1]), E, Len(G), (n - 1) + 1)
    BY <1>6, <2>1, ShorterStep DEF one
  <2>3. one(f[n - 1]) \in S
    BY <2>2 DEF Shorter
  <2> QED BY <1>5, <2>3
<1>7. \A k \in 0..m : Shorter(f[k], E, Len(G), k)
  <2>1. \A k \in 1..m : Shorter(f[k - 1], E, Len(G), k - 1)
                           => f[k] = JoinAt(f[k - 1], Cheapest(f[k - 1]))
    BY <1>6 DEF one
  <2>2. f[0] = G
    BY <1>4
  <2> QED BY <2>1, <2>2, JoinRun
<1>8. f = [k \in 0..m |-> IF k = 0 THEN G ELSE one(f[k - 1])]
  <2>1. ASSUME NEW k \in 0..m PROVE f[k] = IF k = 0 THEN G ELSE one(f[k - 1])
    <3>1. CASE k = 0
      BY <1>4, <3>1
    <3>2. CASE k # 0
      <4>1. k \in 1..m /\ k - 1 \in 0..m
        BY <1>1, <3>2
      <4>2. f[k] = one(f[k - 1])
        BY <1>6, <1>7, <4>1
      <4> QED BY <3>2, <4>2
    <3> QED BY <3>1, <3>2
  <2>2. f = [k \in 0..m |-> f[k]]
    BY <1>4
  <2> HIDE DEF step
  <2> QED BY <2>1, <2>2
<1> QED BY <1>8 DEF JoinChain, one

\* Joining leaves a cut of the same pieces, of no more groups than the budget pays for.
LEMMA CoalescedIs ==
    ASSUME NEW E, Solid(E), Distinct(E), NEW G \in Seq(Seq(PieceRow)), NEW lo, NEW hi,
           IsCut(G, E, Len(E), lo, hi)
    PROVE  /\ CoalesceToBudget(G) \in Seq(Seq(PieceRow)) /\ Len(CoalesceToBudget(G)) \in 1..MaxWindows
           /\ \E a, b : IsCut(CoalesceToBudget(G), E, Len(E), a, b)
           /\ Len(G) <= MaxWindows => CoalesceToBudget(G) = G
<1> DEFINE f == CHOOSE x : JoinChain(x, G)
           s == Surplus(G)
           W == CoalesceToBudget(G)
<1>1. W = f[s]
  BY DEF CoalesceToBudget, JoinChain, Surplus
<1>2. Shorter(G, E, Len(G), 0) /\ Len(G) \in Nat \ {0}
  <2>1. Len(G) = Len(G) - 0 /\ Len(G) \in Nat
    OBVIOUS
  <2>2. Len(G) # 0
    BY DEF IsCut
  <2> QED BY <2>1, <2>2 DEF Shorter
<1>3. JoinChain(f, G)
  BY <1>2, JoinChainExists
<1> HIDE DEF f, W
<1>4. s \in Nat /\ s = (IF Len(G) > MaxWindows THEN Len(G) - MaxWindows ELSE 0)
  BY <1>2, PlanAssumption DEF Surplus
<1>5. \A k \in 0..s : f[k] = IF k = 0 THEN G ELSE JoinAt(f[k - 1], Cheapest(f[k - 1]))
  BY <1>3 DEF JoinChain
<1>6. f[0] = G
  BY <1>4, <1>5
<1>7. \A k \in 1..s : f[k] = JoinAt(f[k - 1], Cheapest(f[k - 1]))
  BY <1>4, <1>5
<1>8. \A k \in 0..s : Shorter(f[k], E, Len(G), k)
  BY <1>2, <1>6, <1>7, JoinRun
<1>9. Shorter(W, E, Len(G), s)
  BY <1>1, <1>4, <1>8
<1>10. Len(G) - s \in 1..MaxWindows
  BY <1>2, <1>4, PlanAssumption
<1>11. Len(G) <= MaxWindows => W = G
  <2>1. Len(G) <= MaxWindows => s = 0
    BY <1>2, <1>4, PlanAssumption
  <2> QED BY <1>1, <1>6, <2>1
<1>12. W \in Seq(Seq(PieceRow)) /\ Len(W) \in 1..MaxWindows /\ \E a, b : IsCut(W, E, Len(E), a, b)
  BY <1>9, <1>10 DEF Shorter
<1> QED BY <1>11, <1>12 DEF W

-----------------------------------------------------------------------------
(* What the windows of a plan are: a cut of pieces that leave nothing out. *)

IsPlan(E, lo, hi) ==
    /\ PiecesFit(E, Len(tale)) /\ windows \in Seq(Seq(PieceRow)) /\ Len(windows) \in 1..MaxWindows
    /\ IsCut(windows, E, Len(E), lo, hi)
    /\ IsLong /\ Len(Groups(ExpandOversized)) <= MaxWindows => AllAlone(E, lo, hi)

PlanFits ==
    /\ tale \in Seq(Segment)
    /\ windows # <<>> => \E E, lo, hi : IsPlan(E, lo, hi)

LEMMA FitsSolid ==
    ASSUME NEW E, NEW n \in Nat, PiecesFit(E, n)
    PROVE  E \in Seq(PieceRow) /\ InOrder(E) /\ Solid(E) /\ Distinct(E)
<1>1. E \in Seq(PieceRow) /\ InOrder(E) /\ \A k \in 1..Len(E) : E[k] \in PieceRow /\ E[k].first < E[k].past
  BY DEF PiecesFit, InSegment
<1>2. Solid(E)
  BY <1>1 DEF Solid
<1>3. ASSUME NEW i \in 1..Len(E), NEW j \in 1..Len(E), i < j PROVE E[i] # E[j]
  <2>1. Before(E[i], E[j])
    BY <1>1, <1>3 DEF InOrder
  <2>2. /\ E[i].seg \in Nat /\ E[i].first \in Nat /\ E[i].past \in Nat /\ E[i].first < E[i].past
    BY <1>1 DEF PieceRow
  <2> SUFFICES ASSUME E[i] = E[j] PROVE FALSE
    OBVIOUS
  <2> QED BY <2>1, <2>2 DEF Before
<1>4. Distinct(E)
  <2> SUFFICES ASSUME NEW i \in 1..Len(E), NEW j \in 1..Len(E), i # j PROVE E[i] # E[j]
    BY DEF Distinct
  <2>1. i < j \/ j < i
    <3>1. i \in Nat /\ j \in Nat
      BY <1>1
    <3> QED BY <3>1
  <2> QED BY <1>3, <2>1
<1> QED BY <1>1, <1>2, <1>4

LEMMA NotNothing ==
    ASSUME tale \in Seq(Segment), tale # <<>>, NEW E, PiecesFit(E, Len(tale)) PROVE Len(E) > 0
<1>1. Len(tale) \in Nat /\ Len(tale) > 0 /\ 1 \in 1..Len(tale) /\ tale[1] \in Segment
  OBVIOUS
<1>2. Covers(E, 1) /\ tale[1].len \in Nat \ {0} /\ Len(E) \in Nat
  BY <1>1, SegmentIs DEF PiecesFit
<1>3. 0 \in 0..(tale[1].len - 1)
  BY <1>2
<1>4. \E k \in 1..Len(E) : TRUE
  BY <1>2, <1>3 DEF Covers
<1> QED BY <1>2, <1>4

\* A long tale.
LEMMA LongPlan ==
    ASSUME tale \in Seq(Segment), tale # <<>>, IsLong, windows = CoalesceToBudget(Groups(ExpandOversized))
    PROVE  \E E, lo, hi : IsPlan(E, lo, hi)
<1> DEFINE E == ExpandOversized
           G == Groups(E)
<1>1. PiecesFit(E, Len(tale)) /\ Len(tale) \in Nat
  BY ExpandedFits
<1> HIDE DEF E
<1>2. E \in Seq(PieceRow) /\ InOrder(E) /\ Solid(E) /\ Distinct(E) /\ Len(E) > 0
  BY <1>1, FitsSolid, NotNothing
<1>3. G \in Seq(Seq(PieceRow)) /\ \E lo, hi : IsCut(G, E, Len(E), lo, hi) /\ AllAlone(E, lo, hi)
  BY <1>2, GroupsAre
<1>4. windows = CoalesceToBudget(G)
  BY DEF E
<1> HIDE DEF G
<1>5. PICK lo, hi : IsCut(G, E, Len(E), lo, hi) /\ AllAlone(E, lo, hi)
  BY <1>3
<1>6. /\ windows \in Seq(Seq(PieceRow)) /\ Len(windows) \in 1..MaxWindows
      /\ \E a, b : IsCut(windows, E, Len(E), a, b)
      /\ Len(G) <= MaxWindows => windows = G
  BY <1>2, <1>3, <1>4, <1>5, CoalescedIs
<1>7. CASE Len(G) <= MaxWindows
  <2>1. IsCut(windows, E, Len(E), lo, hi)
    BY <1>5, <1>6, <1>7
  <2>2. IsPlan(E, lo, hi)
    BY <1>1, <1>5, <1>6, <2>1 DEF IsPlan
  <2> QED BY <2>2
<1>8. CASE ~ (Len(G) <= MaxWindows)
  <2>1. PICK a, b : IsCut(windows, E, Len(E), a, b)
    BY <1>6
  <2>2. IsPlan(E, a, b)
    BY <1>1, <1>6, <1>8, <2>1 DEF IsPlan, G, E
  <2> QED BY <2>2
<1> QED BY <1>7, <1>8

\* A short tale.
LEMMA ShortPlan ==
    ASSUME tale \in Seq(Segment), tale # <<>>, ~ IsLong, windows = <<WholeTale>>
    PROVE  \E E, lo, hi : IsPlan(E, lo, hi)
<1> DEFINE E == WholeTale
           n == Len(E)
           lo == <<1>>
           hi == <<n>>
<1>1. PiecesFit(E, Len(tale)) /\ Len(tale) \in Nat
  BY WholeFits
<1> HIDE DEF E
<1>2. E \in Seq(PieceRow) /\ n > 0 /\ n \in Nat
  <2>1. E \in Seq(PieceRow) /\ Len(E) > 0
    BY <1>1, FitsSolid, NotNothing
  <2> QED BY <2>1
<1>3. windows = <<E>>
  BY DEF E
<1>4. SubSeq(E, 1, n) = E
  <2>1. Len(SubSeq(E, 1, n)) = n /\ SubSeq(E, 1, n) \in Seq(PieceRow)
        /\ \A j \in 1..n : SubSeq(E, 1, n)[j] = E[j]
    BY <1>2
  <2> DEFINE P == SubSeq(E, 1, n)
  <2>2. P \in Seq(PieceRow) /\ Len(P) = n /\ \A j \in 1..n : P[j] = E[j]
    BY <2>1
  <2> HIDE DEF P
  <2>3. P = [j \in 1..n |-> P[j]] /\ E = [j \in 1..n |-> E[j]]
    BY <1>2, <2>2
  <2>4. P = E
    BY <2>2, <2>3
  <2> QED BY <2>4 DEF P
<1>5. lo \in Seq(Nat) /\ Len(lo) = 1 /\ lo[1] = 1 /\ hi \in Seq(Nat) /\ Len(hi) = 1 /\ hi[1] = n
  BY <1>2
<1>6. windows \in Seq(Seq(PieceRow)) /\ Len(windows) = 1 /\ windows[1] = E
  BY <1>2, <1>3
<1> HIDE DEF lo, hi, n
<1>7. IsCut(windows, E, n, lo, hi)
  <2>1. \A k \in 1..1 : k = 1
    OBVIOUS
  <2>2. \A k \in 1..Len(windows) : 1 <= lo[k] /\ lo[k] <= hi[k] /\ hi[k] <= n /\ windows[k] = SubSeq(E, lo[k], hi[k])
    <3>1. 1 <= lo[1] /\ lo[1] <= hi[1] /\ hi[1] <= n
      BY <1>2, <1>5
    <3> QED BY <1>4, <1>5, <1>6, <2>1, <3>1
  <2>3. \A k \in 1..(Len(windows) - 1) : FALSE
    BY <1>6
  <2>4. Len(windows) \in Nat \ {0} /\ hi[Len(windows)] = n
    BY <1>5, <1>6
  <2> QED BY <1>5, <1>6, <2>2, <2>3, <2>4 DEF IsCut
<1>8. IsPlan(E, lo, hi)
  <2>1. Len(windows) \in 1..MaxWindows
    BY <1>6, PlanAssumption
  <2> QED BY <1>1, <1>6, <1>7, <2>1 DEF IsPlan, n
<1> QED BY <1>8

\* The pieces of a window.
LEMMA WindowIs ==
    ASSUME NEW E, NEW lo, NEW hi, IsPlan(E, lo, hi), tale \in Seq(Segment), NEW k \in DOMAIN windows
    PROVE  /\ lo[k] \in Nat \ {0} /\ hi[k] \in Nat /\ hi[k] <= Len(E) /\ k \in 1..Len(windows)
           /\ DOMAIN windows[k] = 1..(hi[k] - lo[k] + 1)
           /\ \A j \in DOMAIN windows[k] : /\ windows[k][j] = E[lo[k] + j - 1] /\ lo[k] + j - 1 \in 1..Len(E)
                                           /\ lo[k] + j - 1 <= hi[k]
<1> DEFINE a == lo[k]
           b == hi[k]
           g == windows[k]
           n == b - a + 1
<1>0. E \in Seq(PieceRow) /\ Len(E) \in Nat /\ k \in 1..Len(windows) /\ IsCut(windows, E, Len(E), lo, hi)
  BY DEF IsPlan, PiecesFit
<1>1. a \in Nat \ {0} /\ b \in Nat /\ a <= b /\ b <= Len(E) /\ g = SubSeq(E, a, b)
  BY <1>0, CutAt
<1> HIDE DEF a, b, g
<1>2. a <= b + 1 /\ n \in Nat
  BY <1>1
<1>3. g \in Seq(PieceRow) /\ Len(g) = n /\ \A j \in 1..n : g[j] = E[a + j - 1]
  BY <1>0, <1>1, <1>2, PartIs
<1>4. DOMAIN g = 1..n
  BY <1>3
<1>5. \A j \in 1..n : a + j - 1 \in 1..Len(E) /\ a + j - 1 <= b
  BY <1>0, <1>1
<1> QED BY <1>0, <1>1, <1>3, <1>4, <1>5 DEF a, b, g

LEMMA PieceIs ==
    ASSUME NEW E, NEW lo, NEW hi, IsPlan(E, lo, hi), tale \in Seq(Segment), NEW x \in 1..Len(E)
    PROVE  /\ E[x].seg \in DOMAIN tale /\ E[x].first \in Nat /\ E[x].past \in Nat
           /\ E[x].first < E[x].past /\ E[x].past <= tale[E[x].seg].len
           /\ tale[E[x].seg].len \in Nat \ {0}
<1>1. E[x] \in PieceRow /\ E[x].seg \in 1..Len(tale) /\ InSegment(E[x])
  BY DEF IsPlan, PiecesFit
<1>2. E[x].seg \in DOMAIN tale /\ tale[E[x].seg] \in Segment
  BY <1>1
<1>3. tale[E[x].seg].len \in Nat \ {0}
  BY <1>2, SegmentIs
<1> QED BY <1>1, <1>2, <1>3 DEF PieceRow, InSegment

\* Every piece is in a window.
LEMMA PieceInWindow ==
    ASSUME NEW E, NEW lo, NEW hi, IsPlan(E, lo, hi), tale \in Seq(Segment), NEW x \in 1..Len(E)
    PROVE  \E k \in DOMAIN windows : \E j \in DOMAIN windows[k] : windows[k][j] = E[x]
<1> DEFINE l == Len(windows)
           S == {k \in 1..l : x <= hi[k]}
<1>0. /\ IsCut(windows, E, Len(E), lo, hi) /\ DOMAIN windows = 1..l /\ l \in Nat \ {0} /\ Len(E) \in Nat
      /\ lo[1] = 1 /\ hi[l] = Len(E)
  BY DEF IsPlan, IsCut, PiecesFit
<1> HIDE DEF l
<1>1. S \in SUBSET Nat /\ S # {}
  <2>1. l \in S
    BY <1>0
  <2> QED BY <1>0, <2>1
<1>2. PICK k \in S : \A n \in S : k <= n
  BY <1>1, LeastNumber
<1>3. /\ k \in 1..l /\ x <= hi[k] /\ lo[k] \in Nat \ {0} /\ hi[k] \in Nat
      /\ DOMAIN windows[k] = 1..(hi[k] - lo[k] + 1)
      /\ \A j \in DOMAIN windows[k] : windows[k][j] = E[lo[k] + j - 1]
  BY <1>0, <1>2, WindowIs
<1>4. lo[k] <= x
  <2>1. CASE k = 1
    BY <1>0, <2>1
  <2>2. CASE k # 1
    <3> DEFINE h == k - 1
    <3>1. h \in 1..(l - 1) /\ h + 1 = k /\ h \in 1..l /\ h < k
      BY <1>0, <1>3, <2>2
    <3> HIDE DEF h
    <3>2. lo[h + 1] <= hi[h] + 1
      BY <1>0, <3>1, CutNext DEF l
    <3>3. hi[h] \in Nat
      BY <1>0, <3>1, WindowIs
    <3>4. ~ (x <= hi[h])
      <4>1. h \notin S
        BY <1>0, <1>2, <1>3, <3>1
      <4> QED BY <3>1, <4>1
    <3> QED BY <1>3, <3>1, <3>2, <3>3, <3>4
  <2> QED BY <2>1, <2>2
<1> DEFINE j == x - lo[k] + 1
<1>5. j \in DOMAIN windows[k] /\ lo[k] + j - 1 = x
  BY <1>3, <1>4
<1>6. windows[k][j] = E[x]
  <2> HIDE DEF j
  <2> QED BY <1>3, <1>5
<1> QED BY <1>0, <1>3, <1>5, <1>6

\* A character that is told is in a piece of a window.
LEMMA ToldIs ==
    ASSUME NEW E, NEW lo, NEW hi, IsPlan(E, lo, hi), tale \in Seq(Segment), NEW t \in Told
    PROVE  /\ t = <<t[1], t[2]>> /\ t[1] \in DOMAIN tale /\ t[2] \in 0..(tale[t[1]].len - 1)
           /\ \E k \in DOMAIN windows : \E j \in DOMAIN windows[k] :
                 windows[k][j].seg = t[1] /\ t[2] \in windows[k][j].first..(windows[k][j].past - 1)
<1>1. PICK i \in DOMAIN tale : \E c \in 0..(tale[i].len - 1) : t = <<i, c>>
  BY DEF Told
<1>2. PICK c \in 0..(tale[i].len - 1) : t = <<i, c>>
  BY <1>1
<1>3. t[1] = i /\ t[2] = c
  BY <1>2
<1>4. Covers(E, i)
  BY DEF IsPlan, PiecesFit
<1>5. PICK x \in 1..Len(E) : E[x].seg = i /\ c \in E[x].first..(E[x].past - 1)
  BY <1>4 DEF Covers
<1>6. PICK k \in DOMAIN windows : \E j \in DOMAIN windows[k] : windows[k][j] = E[x]
  BY PieceInWindow
<1>7. PICK j \in DOMAIN windows[k] : windows[k][j] = E[x]
  BY <1>6
<1> QED BY <1>2, <1>3, <1>5, <1>7

\* What a piece of a window holds.
LEMMA HeldIs ==
    ASSUME NEW E, NEW lo, NEW hi, IsPlan(E, lo, hi), tale \in Seq(Segment), NEW k \in DOMAIN windows,
           NEW j \in DOMAIN windows[k]
    PROVE  LET p == windows[k][j] IN
           /\ p.seg \in DOMAIN tale /\ p.first \in Nat /\ p.past \in Nat /\ p.first < p.past
           /\ p.past <= tale[p.seg].len /\ tale[p.seg].len \in Nat \ {0}
<1>1. PICK x \in 1..Len(E) : windows[k][j] = E[x]
  BY WindowIs
<1> QED BY <1>1, PieceIs

LEMMA HeldInOrder ==
    ASSUME NEW E, NEW lo, NEW hi, IsPlan(E, lo, hi), tale \in Seq(Segment), NEW k \in DOMAIN windows,
           NEW i \in DOMAIN windows[k], NEW j \in DOMAIN windows[k], i < j
    PROVE  Before(windows[k][i], windows[k][j])
<1> DEFINE x == lo[k] + i - 1
           y == lo[k] + j - 1
<1>1. x \in 1..Len(E) /\ y \in 1..Len(E) /\ windows[k][i] = E[x] /\ windows[k][j] = E[y]
  BY WindowIs
<1>2. x < y
  <2>1. lo[k] \in Nat \ {0} /\ DOMAIN windows[k] = 1..(hi[k] - lo[k] + 1)
    BY WindowIs
  <2>2. i \in Int /\ j \in Int
    BY <2>1
  <2> QED BY <2>1, <2>2
<1>3. InOrder(E)
  BY DEF IsPlan, PiecesFit
<1> HIDE DEF x, y
<1> QED BY <1>1, <1>2, <1>3 DEF InOrder

LEMMA PlanTyped ==
    ASSUME NEW E, NEW lo, NEW hi, IsPlan(E, lo, hi), tale \in Seq(Segment) PROVE PlanTypeOK
  BY HeldIs DEF PlanTypeOK

HeldBy(p) == {<<p.seg, c>> : c \in p.first..(p.past - 1)}

LEMMA PlanCovers ==
    ASSUME NEW E, NEW lo, NEW hi, IsPlan(E, lo, hi), tale \in Seq(Segment) PROVE PlanCoversTale
<1> DEFINE Held(k) == UNION {HeldBy(p) : p \in {windows[k][j] : j \in DOMAIN windows[k]}}
           All == UNION {Held(k) : k \in DOMAIN windows}
<1>1. ASSUME NEW t \in Told PROVE t \in All
  <2>1. PICK k \in DOMAIN windows : \E j \in DOMAIN windows[k] :
           windows[k][j].seg = t[1] /\ t[2] \in windows[k][j].first..(windows[k][j].past - 1)
    BY ToldIs
  <2>2. PICK j \in DOMAIN windows[k] :
           windows[k][j].seg = t[1] /\ t[2] \in windows[k][j].first..(windows[k][j].past - 1)
    BY <2>1
  <2>3. t = <<t[1], t[2]>>
    BY ToldIs
  <2>4. t \in HeldBy(windows[k][j])
    BY <2>2, <2>3 DEF HeldBy
  <2>5. t \in Held(k)
    BY <2>4
  <2> QED BY <2>5
<1>2. ASSUME NEW t \in All PROVE t \in Told
  <2>1. PICK k \in DOMAIN windows : t \in Held(k)
    OBVIOUS
  <2>2. PICK j \in DOMAIN windows[k] : t \in HeldBy(windows[k][j])
    BY <2>1
  <2> DEFINE p == windows[k][j]
  <2>3. /\ p.seg \in DOMAIN tale /\ p.first \in Nat /\ p.past \in Nat /\ p.first < p.past
        /\ p.past <= tale[p.seg].len /\ tale[p.seg].len \in Nat \ {0}
    BY HeldIs
  <2> HIDE DEF p
  <2>4. PICK c \in p.first..(p.past - 1) : t = <<p.seg, c>>
    BY <2>2 DEF HeldBy, p
  <2>5. c \in 0..(tale[p.seg].len - 1)
    BY <2>3
  <2> QED BY <2>3, <2>4, <2>5 DEF Told
<1>3. Told = All
  <2> HIDE DEF All
  <2> QED BY <1>1, <1>2
<1>4. Told = UNION {UNION {{<<p.seg, c>> : c \in p.first..(p.past - 1)} :
                           p \in {windows[k][j] : j \in DOMAIN windows[k]}} : k \in DOMAIN windows}
  BY <1>3 DEF HeldBy
<1>5. ASSUME NEW k \in DOMAIN windows, NEW j \in DOMAIN windows[k]
      PROVE  LET p == windows[k][j] IN
             /\ p.first < p.past
             /\ \A i \in 1..(j - 1) : LET q == windows[k][i] IN
                   q.seg < p.seg \/ (q.seg = p.seg /\ q.past <= p.first)
  <2>1. windows[k][j].first < windows[k][j].past
    BY HeldIs
  <2>2. ASSUME NEW i \in 1..(j - 1) PROVE Before(windows[k][i], windows[k][j])
    <3>1. lo[k] \in Nat \ {0} /\ hi[k] \in Nat /\ DOMAIN windows[k] = 1..(hi[k] - lo[k] + 1)
      BY WindowIs
    <3>2. i \in DOMAIN windows[k] /\ i < j
      BY <3>1
    <3> QED BY <3>2, HeldInOrder
  <2> QED BY <2>1, <2>2 DEF Before
<1>6. Len(windows) \in 1..MaxWindows
  BY DEF IsPlan
<1> HIDE DEF All
<1> QED BY <1>4, <1>5, <1>6 DEF PlanCoversTale

\* The slices of a segment in a window, the last one of them, and the text that stands for it.
SlicesIn(w, i) == {j \in DOMAIN w : w[j].seg = i /\ ~ Whole(w[j])}
LastSlice(w, i) == CHOOSE j \in SlicesIn(w, i) : \A l \in SlicesIn(w, i) : l <= j
TextOf(w, i) ==
    IF SlicesIn(w, i) = {} THEN 0..(tale[i].len - 1)
    ELSE w[LastSlice(w, i)].first..(w[LastSlice(w, i)].past - 1)

LEMMA MaterializedIs ==
    ASSUME NEW w
    PROVE  Materialized(w) = UNION {{<<w[k].seg, c>> : c \in TextOf(w, w[k].seg)} : k \in DOMAIN w}
  BY DEF Materialized, SlicesIn, LastSlice, TextOf

LEMMA LastSliceIs ==
    ASSUME NEW E, NEW lo, NEW hi, IsPlan(E, lo, hi), tale \in Seq(Segment), NEW k \in DOMAIN windows, NEW i,
           SlicesIn(windows[k], i) # {}
    PROVE  /\ LastSlice(windows[k], i) \in SlicesIn(windows[k], i)
           /\ \A l \in SlicesIn(windows[k], i) : l <= LastSlice(windows[k], i)
<1> DEFINE S == SlicesIn(windows[k], i)
           n == hi[k] - lo[k] + 1
           B == {b \in Nat : \A l \in S : l <= b}
<1>1. lo[k] \in Nat \ {0} /\ hi[k] \in Nat /\ DOMAIN windows[k] = 1..n
  BY WindowIs
<1>2. S \subseteq 1..n /\ n \in Int
  BY <1>1 DEF SlicesIn
<1> HIDE DEF S, n
<1>3. S # {} /\ n \in Nat
  <2>1. S # {}
    BY DEF S
  <2>2. PICK l \in S : TRUE
    BY <2>1
  <2> QED BY <1>2, <2>1, <2>2
<1>4. B \in SUBSET Nat /\ n \in B
  BY <1>2, <1>3
<1>5. PICK b \in B : \A d \in B : b <= d
  BY <1>4, LeastNumber
<1>6. b \in S
  <2> SUFFICES ASSUME b \notin S PROVE FALSE
    OBVIOUS
  <2>1. \A l \in S : l \in Nat /\ l > 0 /\ l <= b /\ l # b
    BY <1>2, <1>3, <1>5
  <2>2. b \in Nat /\ b > 0
    BY <1>3, <1>5, <2>1
  <2>3. b - 1 \in B
    BY <2>1, <2>2
  <2>4. ~ (b <= b - 1)
    BY <2>2
  <2> HIDE DEF B
  <2> QED BY <1>5, <2>3, <2>4
<1>7. \E j \in S : \A l \in S : l <= j
  BY <1>5, <1>6
<1> QED BY <1>7 DEF LastSlice, S

\* A piece that is whole is the only piece of its segment in a window.
LEMMA WholeAlone ==
    ASSUME NEW E, NEW lo, NEW hi, IsPlan(E, lo, hi), tale \in Seq(Segment), NEW k \in DOMAIN windows,
           NEW j \in DOMAIN windows[k], Whole(windows[k][j]), NEW l \in DOMAIN windows[k],
           windows[k][l].seg = windows[k][j].seg
    PROVE  l = j
<1> DEFINE p == windows[k][j]
           q == windows[k][l]
<1>1. /\ p.first \in Nat /\ p.past \in Nat /\ p.first < p.past
      /\ p.past <= tale[p.seg].len /\ tale[p.seg].len \in Nat \ {0} /\ p.seg \in DOMAIN tale
  BY HeldIs
<1>2. /\ q.first \in Nat /\ q.past \in Nat /\ q.first < q.past /\ q.past <= tale[q.seg].len
  BY HeldIs
<1>3. p.first = 0 /\ p.past = tale[p.seg].len /\ q.seg = p.seg /\ p.seg \in Nat
  BY <1>1 DEF Whole
<1>4. DOMAIN windows[k] = 1..(hi[k] - lo[k] + 1) /\ j \in Int /\ l \in Int
  BY WindowIs, SMTT(30)
<1>5. l < j => Before(q, p)
  BY HeldInOrder
<1>6. j < l => Before(p, q)
  BY HeldInOrder
<1> HIDE DEF p, q
<1>7. ~ Before(q, p) /\ ~ Before(p, q)
  BY <1>1, <1>2, <1>3 DEF Before
<1> QED BY <1>4, <1>5, <1>6, <1>7

Heard == UNION {Materialized(windows[k]) : k \in DOMAIN windows}

\* What is lost stands in a slice that a later slice of its segment replaces.
LEMMA LostIs ==
    ASSUME NEW E, NEW lo, NEW hi, IsPlan(E, lo, hi), tale \in Seq(Segment), NEW t \in Told, t \notin Heard
    PROVE  \E k \in DOMAIN windows : \E i, j \in DOMAIN windows[k] :
              /\ i < j /\ windows[k][i].seg = t[1] /\ windows[k][j].seg = t[1]
              /\ t[2] \in windows[k][i].first..(windows[k][i].past - 1)
<1>1. t = <<t[1], t[2]>> /\ t[1] \in DOMAIN tale /\ t[2] \in 0..(tale[t[1]].len - 1)
  BY ToldIs
<1>2. PICK k \in DOMAIN windows : \E i \in DOMAIN windows[k] :
         windows[k][i].seg = t[1] /\ t[2] \in windows[k][i].first..(windows[k][i].past - 1)
  BY ToldIs
<1>3. PICK i \in DOMAIN windows[k] :
         windows[k][i].seg = t[1] /\ t[2] \in windows[k][i].first..(windows[k][i].past - 1)
  BY <1>2
<1> DEFINE w == windows[k]
           S == SlicesIn(w, t[1])
           j == LastSlice(w, t[1])
<1>4. t[2] \notin TextOf(w, t[1])
  <2> SUFFICES ASSUME t[2] \in TextOf(w, t[1]) PROVE FALSE
    OBVIOUS
  <2>1. t \in {<<w[i].seg, c>> : c \in TextOf(w, w[i].seg)}
    BY <1>1, <1>3
  <2>2. t \in Materialized(w)
    BY <1>3, <2>1, MaterializedIs
  <2> QED BY <2>2 DEF Heard
<1>5. S # {}
  BY <1>1, <1>4 DEF TextOf
<1>6. j \in S /\ \A l \in S : l <= j
  BY <1>5, LastSliceIs
<1>7. j \in DOMAIN w /\ w[j].seg = t[1] /\ ~ Whole(w[j])
  BY <1>6 DEF SlicesIn
<1>8. i # j
  <2>1. TextOf(w, t[1]) = w[j].first..(w[j].past - 1)
    BY <1>5 DEF TextOf
  <2> QED BY <1>3, <1>4, <2>1
<1>9. i \in S
  <2>1. ~ Whole(w[i])
    <3>1. w[j].seg = w[i].seg /\ i \in DOMAIN w /\ j \in DOMAIN w
      BY <1>3, <1>7
    <3> QED BY <1>8, <3>1, WholeAlone
  <2> QED BY <1>3, <2>1 DEF SlicesIn
<1>10. i < j
  <2>1. i <= j
    BY <1>6, <1>9
  <2>2. DOMAIN w = 1..(hi[k] - lo[k] + 1)
    BY WindowIs
  <2>3. i \in Int /\ j \in Int
    BY <1>3, <1>7, <2>2
  <2> QED BY <1>8, <2>1, <2>3
<1> HIDE DEF j, S
<1> QED BY <1>3, <1>7, <1>10

LEMMA HeardIsTold ==
    ASSUME NEW E, NEW lo, NEW hi, IsPlan(E, lo, hi), tale \in Seq(Segment), NEW t \in Heard
    PROVE  t \in Told
<1>1. PICK k \in DOMAIN windows : t \in Materialized(windows[k])
  BY DEF Heard
<1> DEFINE w == windows[k]
<1>2. PICK j \in DOMAIN w : t \in {<<w[j].seg, c>> : c \in TextOf(w, w[j].seg)}
  BY <1>1, MaterializedIs
<1> DEFINE i == w[j].seg
<1>3. PICK c \in TextOf(w, i) : t = <<i, c>>
  BY <1>2
<1>4. i \in DOMAIN tale /\ tale[i].len \in Nat \ {0}
  BY HeldIs
<1>5. c \in 0..(tale[i].len - 1)
  <2>1. CASE SlicesIn(w, i) = {}
    BY <1>3, <2>1 DEF TextOf
  <2>2. CASE SlicesIn(w, i) # {}
    <3> DEFINE l == LastSlice(w, i)
    <3>1. l \in SlicesIn(w, i)
      BY <2>2, LastSliceIs
    <3>2. l \in DOMAIN w /\ w[l].seg = i
      BY <3>1 DEF SlicesIn
    <3>3. c \in w[l].first..(w[l].past - 1)
      BY <1>3, <2>2 DEF TextOf
    <3> HIDE DEF l
    <3>4. w[l].first \in Nat /\ w[l].past \in Nat /\ w[l].past <= tale[w[l].seg].len
      BY <3>2, HeldIs
    <3> QED BY <1>4, <3>2, <3>3, <3>4
  <2> QED BY <2>1, <2>2
<1> HIDE DEF i
<1> QED BY <1>3, <1>4, <1>5 DEF Told

LEMMA PlanHeard ==
    ASSUME NEW E, NEW lo, NEW hi, IsPlan(E, lo, hi), tale \in Seq(Segment) PROVE NothingUnheard
<1>1. ASSUME IsLong, Len(Groups(ExpandOversized)) <= MaxWindows PROVE Heard = Told
  <2>1. AllAlone(E, lo, hi)
    BY <1>1 DEF IsPlan
  <2>2. ASSUME NEW t \in Told, t \notin Heard PROVE FALSE
    <3>1. PICK k \in DOMAIN windows : \E i, j \in DOMAIN windows[k] :
              i < j /\ windows[k][i].seg = t[1] /\ windows[k][j].seg = t[1]
      BY <2>2, LostIs
    <3>2. PICK i \in DOMAIN windows[k], j \in DOMAIN windows[k] :
              i < j /\ windows[k][i].seg = t[1] /\ windows[k][j].seg = t[1]
      BY <3>1
    <3>3. /\ lo[k] \in Nat \ {0} /\ hi[k] \in Nat /\ k \in 1..Len(windows)
          /\ DOMAIN windows[k] = 1..(hi[k] - lo[k] + 1)
          /\ windows[k][i] = E[lo[k] + i - 1] /\ windows[k][j] = E[lo[k] + j - 1]
      BY WindowIs
    <3>4. Alone(E, lo[k], hi[k])
      BY <2>1, <3>3 DEF IsPlan, IsCut, AllAlone
    <3> DEFINE x == lo[k] + i - 1
               y == lo[k] + j - 1
    <3>5. x \in lo[k]..hi[k] /\ y \in lo[k]..hi[k] /\ x # y
      BY <3>2, <3>3, SMTT(30)
    <3>6. E[x].seg = E[y].seg
      BY <3>2, <3>3
    <3> HIDE DEF x, y
    <3> QED BY <3>4, <3>5, <3>6 DEF Alone
  <2> QED BY <2>2, HeardIsTold
<1>2. \A t \in Told \ Heard : \E k \in DOMAIN windows : \E i, j \in DOMAIN windows[k] :
         /\ i < j /\ windows[k][i].seg = t[1] /\ windows[k][j].seg = t[1]
         /\ t[2] \in windows[k][i].first..(windows[k][i].past - 1)
  BY LostIs
<1> QED BY <1>1, <1>2 DEF NothingUnheard, Heard

LEMMA PlanGood == ASSUME PlanFits PROVE WindowPlanInv
<1>1. tale \in Seq(Segment)
  BY DEF PlanFits
<1>2. CASE windows = <<>>
  <2>1. PlanTypeOK
    BY <1>1, <1>2 DEF PlanTypeOK
  <2> QED BY <1>2, <2>1 DEF WindowPlanInv, PlanCoversTale, NothingUnheard
<1>3. CASE windows # <<>>
  <2>1. PICK E, lo, hi : IsPlan(E, lo, hi)
    BY <1>3 DEF PlanFits
  <2> QED BY <1>1, <2>1, PlanTyped, PlanCovers, PlanHeard DEF WindowPlanInv
<1> QED BY <1>2, <1>3

Planned == IF IsLong THEN CoalesceToBudget(Groups(ExpandOversized)) ELSE <<WholeTale>>

LEMMA SamePlanned == ASSUME tale' = tale PROVE Planned' = Planned
<1>1. IsLong' <=> IsLong
  BY DEF IsLong
<1>2. Groups(ExpandOversized)' = Groups(ExpandOversized)
  BY SMT DEF Groups, AddPiece, ClosesBefore, ExpandOversized, PiecesOf
<1>3. WholeTale' = WholeTale
  BY DEF WholeTale
<1> QED BY <1>1, <1>2, <1>3 DEF Planned

\* The windows are what was planned for the tale.
PlanIInv ==
    /\ tale \in Seq(Segment)
    /\ windows = <<>> \/ (tale # <<>> /\ windows = Planned)

LEMMA PlanHolds == ASSUME PlanIInv PROVE WindowPlanInv
<1>1. windows # <<>> => \E E, lo, hi : IsPlan(E, lo, hi)
  <2> SUFFICES ASSUME windows # <<>> PROVE \E E, lo, hi : IsPlan(E, lo, hi)
    OBVIOUS
  <2>1. tale \in Seq(Segment) /\ tale # <<>> /\ windows = Planned
    BY DEF PlanIInv
  <2>2. CASE IsLong
    BY <2>1, <2>2, LongPlan DEF Planned
  <2>3. CASE ~ IsLong
    BY <2>1, <2>3, ShortPlan DEF Planned
  <2> QED BY <2>2, <2>3
<1>2. PlanFits
  BY <1>1 DEF PlanFits, PlanIInv
<1> QED BY <1>2, PlanGood

LEMMA PlanStart == PlanInit => PlanIInv
<1>1. <<>> \in Seq(Segment)
  OBVIOUS
<1> QED BY <1>1 DEF PlanInit, PlanIInv

LEMMA PlanStutter == ASSUME PlanIInv, UNCHANGED planVars PROVE PlanIInv'
<1>1. tale' = tale /\ windows' = windows
  BY DEF planVars
<1>2. Planned' = Planned
  BY <1>1, SamePlanned
<1> QED BY <1>1, <1>2 DEF PlanIInv

LEMMA PlanStep == ASSUME PlanIInv, PlanNext PROVE PlanIInv'
<1>1. ASSUME NEW n \in 1..MaxSegments,
             NEW segments \in [1..n -> [len : Lengths, marks : {{}}, pause : BOOLEAN]
                                       \cup [len : {k \in Lengths : k > MaxWindow},
                                             marks : Punctuation, pause : {FALSE}]],
             Narrate(segments)
      PROVE  PlanIInv'
  <2>1. n \in Nat
    OBVIOUS
  <2>4. ASSUME NEW k \in 1..n PROVE segments[k] \in Segment
    <3> DEFINE r == segments[k]
    <3>1. \/ r \in [len : Lengths, marks : {{}}, pause : BOOLEAN]
          \/ r \in [len : {m \in Lengths : m > MaxWindow}, marks : Punctuation, pause : {FALSE}]
      OBVIOUS
    <3> HIDE DEF r
    <3>2. r \in Segment
      BY <3>1 DEF Segment
    <3> QED BY <3>2 DEF r
  <2>2. segments \in Seq(Segment)
    BY <2>1, <2>4
  <2>3. windows = <<>>
    BY <1>1 DEF PlanIInv, Narrate
  <2> QED BY <1>1, <2>2, <2>3 DEF Narrate, PlanIInv
<1>2. CASE Plan
  <2>1. tale' = tale /\ tale # <<>> /\ tale \in Seq(Segment) /\ windows' = Planned
    BY <1>2 DEF Plan, Planned, PlanIInv
  <2>2. Planned' = Planned
    BY <2>1, SamePlanned
  <2> QED BY <2>1, <2>2 DEF PlanIInv
<1> QED BY <1>1, <1>2 DEF PlanNext

\* The windows of a long recording cover it (plan, materialize_window).
THEOREM PlanCorrect == PlanSpec => []WindowPlanInv
<1>1. PlanIInv /\ [PlanNext]_planVars => PlanIInv'
  BY PlanStep, PlanStutter
<1> QED BY <1>1, PlanStart, PlanHolds, PTL DEF PlanSpec

-----------------------------------------------------------------------------
(* The merge of windows (WindowMerge): people first, then facts.           *)

MergeSpec == MergeInit /\ [][MergeNext]_mergeVars

PersonRow == [name : Names, src : SUBSET SourceSegments, told : {{s} : s \in SourceSegments}]

PeopleSoFar == [people : Seq(PersonRow), to : Seq(Nat), review : Nat]

LEMMA MentionIsPerson ==
    ASSUME NEW m \in Mention
    PROVE  /\ m \in PersonRow /\ m.name \in Names /\ m.src \in SUBSET SourceSegments
           /\ m.told \in SUBSET SourceSegments /\ m.told \subseteq m.src
  BY DEF Mention, PersonRow

LEMMA JoinedIs ==
    ASSUME NEW p \in PersonRow, NEW m \in PersonRow
    PROVE  /\ Joined(p, m) \in PersonRow /\ Joined(p, m).name = p.name
           /\ Joined(p, m).src = p.src \cup m.src
  BY DEF Joined, PersonRow

Rivals(acc, m) == {k \in DOMAIN acc.people : acc.people[k].name = m.name}

Matches(acc, m) == {k \in Rivals(acc, m) : Shares(acc.people[k], m)}

LEMMA AddMentionIs ==
    ASSUME NEW acc, NEW m
    PROVE  AddMention(acc, m) =
             IF Matches(acc, m) # {}
             THEN [people |-> [acc.people EXCEPT ![LeastOf(Matches(acc, m))] = Joined(@, m)],
                   to |-> Append(acc.to, LeastOf(Matches(acc, m))), review |-> acc.review]
             ELSE [people |-> Append(acc.people, m), to |-> Append(acc.to, Len(acc.people) + 1),
                   review |-> acc.review + (IF Rivals(acc, m) = {} THEN 0 ELSE 1)]
  BY DEF AddMention, Matches, Rivals

\* One more mention: either it joins a person of its name with a segment in common, or it is a
\* new person, for review when there was one of that name.
Joins(acc, m, next, one) ==
    /\ one \in DOMAIN acc.people /\ acc.people[one].name = m.name
    /\ acc.people[one].src \cap m.src # {}
    /\ Len(next.people) = Len(acc.people) /\ next.people[one] = Joined(acc.people[one], m)
    /\ \A k \in DOMAIN acc.people : k # one => next.people[k] = acc.people[k]
    /\ next.to = Append(acc.to, one) /\ next.review = acc.review

IsNew(acc, m, next) ==
    /\ next.people = Append(acc.people, m) /\ next.to = Append(acc.to, Len(acc.people) + 1)
    /\ next.review = acc.review \/ next.review = acc.review + 1
    /\ (\E k \in DOMAIN acc.people : acc.people[k].name = m.name) => next.review = acc.review + 1

LEMMA AddMentionCases ==
    ASSUME NEW acc \in PeopleSoFar, NEW m \in Mention
    PROVE  /\ AddMention(acc, m) \in PeopleSoFar
           /\ \/ \E one \in 1..Len(acc.people) : Joins(acc, m, AddMention(acc, m), one)
              \/ IsNew(acc, m, AddMention(acc, m))
<1>1. /\ acc.people \in Seq(PersonRow) /\ acc.to \in Seq(Nat) /\ acc.review \in Nat
      /\ DOMAIN acc.people = 1..Len(acc.people) /\ Len(acc.people) \in Nat
  BY DEF PeopleSoFar
<1>2. m \in PersonRow
  BY MentionIsPerson
<1> DEFINE M == Matches(acc, m)
           one == LeastOf(M)
<1>3. M \in SUBSET (1..Len(acc.people)) /\ \A k \in M : acc.people[k].name = m.name /\ Shares(acc.people[k], m)
  BY <1>1 DEF Matches, Rivals
<1>4. CASE M # {}
  <2>1. one \in M
    <3>1. M \in SUBSET Nat
      BY <1>1, <1>3
    <3> HIDE DEF M
    <3> QED BY <1>4, <3>1, LeastOfIs
  <2> DEFINE ps == [acc.people EXCEPT ![one] = Joined(@, m)]
             next == [people |-> ps, to |-> Append(acc.to, one), review |-> acc.review]
  <2>2. AddMention(acc, m) = next
    BY <1>4, AddMentionIs
  <2> HIDE DEF M, one
  <2>3. one \in 1..Len(acc.people) /\ one \in Nat /\ acc.people[one] \in PersonRow
    BY <1>1, <1>3, <2>1
  <2>4. Joined(acc.people[one], m) \in PersonRow
    BY <1>2, <2>3, JoinedIs
  <2>5. /\ ps \in Seq(PersonRow) /\ Len(ps) = Len(acc.people) /\ ps[one] = Joined(acc.people[one], m)
        /\ \A k \in DOMAIN acc.people : k # one => ps[k] = acc.people[k]
    BY <1>1, <2>3, <2>4
  <2>6. next \in PeopleSoFar
    <3> HIDE DEF ps
    <3> QED BY <1>1, <2>3, <2>5 DEF PeopleSoFar
  <2>7. Joins(acc, m, next, one)
    <3> HIDE DEF ps
    <3> QED BY <1>1, <1>3, <2>1, <2>3, <2>5 DEF Joins, Shares
  <2> HIDE DEF next
  <2> QED BY <2>2, <2>3, <2>6, <2>7
<1>5. CASE M = {}
  <2> DEFINE more == IF Rivals(acc, m) = {} THEN 0 ELSE 1
             next == [people |-> Append(acc.people, m), to |-> Append(acc.to, Len(acc.people) + 1),
                      review |-> acc.review + more]
  <2>1. AddMention(acc, m) = next
    BY <1>5, AddMentionIs
  <2>2. next \in PeopleSoFar
    BY <1>1, <1>2 DEF PeopleSoFar
  <2>3. (\E k \in DOMAIN acc.people : acc.people[k].name = m.name) => more = 1
    BY DEF Rivals
  <2>4. IsNew(acc, m, next)
    <3>1. more = 0 \/ more = 1
      OBVIOUS
    <3> HIDE DEF more
    <3> QED BY <1>1, <2>3, <3>1 DEF IsNew
  <2> HIDE DEF next
  <2> QED BY <2>1, <2>2, <2>4
<1> QED BY <1>4, <1>5

\* What n mentions have become: a person has the name of every mention that became it and just
\* their segments, two of one name are there only with a review, and no part of a person's
\* mentions is without a segment in common with the rest.
Of(to, n, k) == {i \in 1..n : to[i] = k}

\* The sources hang together: no part of the mentions is without a segment shared with the rest.
Hangs(src, whole) ==
    \A part \in SUBSET whole :
       part # {} /\ part # whole => \E i \in part, j \in whole \ part : src[i] \cap src[j] # {}

SourcesOf(found) == [i \in DOMAIN found |-> found[i].src]

PeopleFit(found, n, acc) ==
    /\ acc \in PeopleSoFar /\ Len(acc.to) = n
    /\ \A i \in 1..n : acc.to[i] \in 1..Len(acc.people) /\ acc.people[acc.to[i]].name = found[i].name
    /\ \A k \in 1..Len(acc.people) :
          \A s \in acc.people[k].src : \E i \in Of(acc.to, n, k) : s \in found[i].src
    /\ \A i, j \in 1..n : acc.to[i] # acc.to[j] /\ found[i].name = found[j].name => acc.review > 0
    /\ \A k \in 1..Len(acc.people) : Hangs(SourcesOf(found), Of(acc.to, n, k))

\* What hangs together still does with one more that shares a segment with one of it.
LEMMA HangsWith ==
    ASSUME NEW src, NEW whole, NEW x, x \notin whole, Hangs(src, whole),
           NEW y \in whole, src[x] \cap src[y] # {}
    PROVE  Hangs(src, whole \cup {x})
<1> SUFFICES ASSUME NEW part \in SUBSET (whole \cup {x}), part # {}, part # whole \cup {x}
             PROVE  \E i \in part, j \in (whole \cup {x}) \ part : src[i] \cap src[j] # {}
  BY DEF Hangs
<1>1. CASE x \in part /\ part \ {x} = {}
  <2>1. y \in (whole \cup {x}) \ part
    BY <1>1
  <2> QED BY <1>1, <2>1
<1>2. CASE x \in part /\ part \ {x} # {}
  <2>1. part \ {x} \in SUBSET whole /\ part \ {x} # whole
    BY <1>2
  <2>2. PICK i \in part \ {x}, j \in whole \ (part \ {x}) : src[i] \cap src[j] # {}
    BY <1>2, <2>1 DEF Hangs
  <2> QED BY <2>2
<1>3. CASE x \notin part /\ part = whole
  <2>1. src[y] \cap src[x] # {}
    OBVIOUS
  <2> QED BY <1>3, <2>1
<1>4. CASE x \notin part /\ part # whole
  <2>1. part \in SUBSET whole
    BY <1>4
  <2>2. PICK i \in part, j \in whole \ part : src[i] \cap src[j] # {}
    BY <1>4, <2>1 DEF Hangs
  <2> QED BY <2>2
<1> QED BY <1>1, <1>2, <1>3, <1>4

LEMMA HangsAlone == ASSUME NEW src, NEW x PROVE Hangs(src, {x}) /\ Hangs(src, {})
<1>1. \A part \in SUBSET {x} : part = {} \/ part = {x}
  OBVIOUS
<1> QED BY <1>1 DEF Hangs

LEMMA PeopleStart ==
    ASSUME NEW found PROVE NoPeople \in PeopleSoFar /\ PeopleFit(found, 0, NoPeople)
<1>1. NoPeople.people = <<>> /\ NoPeople.to = <<>> /\ NoPeople.review = 0 /\ NoPeople \in PeopleSoFar
  BY DEF NoPeople, PeopleSoFar
<1> QED BY <1>1 DEF PeopleFit

\* Whoever a mention becomes, the mentions before it stay where they were.
GoesTo(t, n, to, x) ==
    /\ t \in Seq(Nat) /\ Len(t) = n + 1 /\ t[n + 1] = x /\ \A i \in 1..n : t[i] = to[i]
    /\ Of(t, n + 1, x) = Of(to, n, x) \cup {n + 1}
    /\ \A k : k # x => Of(t, n + 1, k) = Of(to, n, k)

LEMMA OfMore ==
    ASSUME NEW n \in Nat, NEW to \in Seq(Nat), Len(to) = n, NEW x \in Nat
    PROVE  GoesTo(Append(to, x), n, to, x)
<1>1. /\ Append(to, x) \in Seq(Nat) /\ Len(Append(to, x)) = n + 1
      /\ Append(to, x)[n + 1] = x /\ \A i \in 1..n : Append(to, x)[i] = to[i]
  OBVIOUS
<1>2. 1..(n + 1) = (1..n) \cup {n + 1}
  OBVIOUS
<1> DEFINE t == Append(to, x)
<1> HIDE DEF t
<1>3. t[n + 1] = x /\ \A i \in 1..n : t[i] = to[i]
  BY <1>1 DEF t
<1>4. Of(t, n + 1, x) = Of(to, n, x) \cup {n + 1} /\ \A k : k # x => Of(t, n + 1, k) = Of(to, n, k)
  BY <1>2, <1>3 DEF Of
<1> QED BY <1>1, <1>4 DEF t, GoesTo

LEMMA PeopleStep ==
    ASSUME NEW found \in Seq(Mention), NEW n \in Nat, n < Len(found), NEW acc, PeopleFit(found, n, acc)
    PROVE  PeopleFit(found, n + 1, AddMention(acc, found[n + 1]))
<1> DEFINE m == found[n + 1]
           next == AddMention(acc, m)
           src == SourcesOf(found)
<1> SUFFICES PeopleFit(found, n + 1, next)
  OBVIOUS
<1>1. m \in Mention /\ \A i \in 1..(n + 1) : src[i] = found[i].src
  BY DEF SourcesOf
<1>2. m.src \in SUBSET SourceSegments /\ m \in PersonRow /\ src[n + 1] = m.src
  BY <1>1, MentionIsPerson
<1>3. /\ acc \in PeopleSoFar /\ Len(acc.to) = n /\ acc.people \in Seq(PersonRow) /\ acc.to \in Seq(Nat)
      /\ acc.review \in Nat /\ DOMAIN acc.people = 1..Len(acc.people) /\ Len(acc.people) \in Nat
  BY DEF PeopleFit, PeopleSoFar
<1>4. /\ \A i \in 1..n : acc.to[i] \in 1..Len(acc.people) /\ acc.people[acc.to[i]].name = found[i].name
      /\ \A k \in 1..Len(acc.people) :
            \A s \in acc.people[k].src : \E i \in Of(acc.to, n, k) : s \in found[i].src
      /\ \A i, j \in 1..n : acc.to[i] # acc.to[j] /\ found[i].name = found[j].name => acc.review > 0
      /\ \A k \in 1..Len(acc.people) : Hangs(src, Of(acc.to, n, k))
  BY DEF PeopleFit
<1>5. /\ next \in PeopleSoFar
      /\ (\E one \in 1..Len(acc.people) : Joins(acc, m, next, one)) \/ IsNew(acc, m, next)
  BY <1>1, <1>3, AddMentionCases
<1> HIDE DEF next, src
<1>6. 1..(n + 1) = (1..n) \cup {n + 1} /\ n + 1 \notin 1..n
  OBVIOUS
<1>7. CASE \E one \in 1..Len(acc.people) : Joins(acc, m, next, one)
  <2>1. PICK one \in 1..Len(acc.people) : Joins(acc, m, next, one)
    BY <1>7
  <2>2. /\ acc.people[one].name = m.name /\ acc.people[one].src \cap m.src # {}
        /\ Len(next.people) = Len(acc.people) /\ next.people[one] = Joined(acc.people[one], m)
        /\ \A k \in 1..Len(acc.people) : k # one => next.people[k] = acc.people[k]
        /\ next.to = Append(acc.to, one) /\ next.review = acc.review
    BY <1>3, <2>1 DEF Joins
  <2>3. /\ Len(next.to) = n + 1 /\ next.to[n + 1] = one /\ \A i \in 1..n : next.to[i] = acc.to[i]
        /\ Of(next.to, n + 1, one) = Of(acc.to, n, one) \cup {n + 1}
        /\ \A k : k # one => Of(next.to, n + 1, k) = Of(acc.to, n, k)
    <3>1. one \in Nat /\ acc.to \in Seq(Nat) /\ Len(acc.to) = n
      BY <1>3
    <3>2. GoesTo(Append(acc.to, one), n, acc.to, one)
      BY <3>1, OfMore, Zenon
    <3>3. GoesTo(next.to, n, acc.to, one)
      BY <2>2, <3>2
    <3> QED BY <3>3 DEF GoesTo
  <2>4. next.people[one].name = acc.people[one].name /\ next.people[one].src = acc.people[one].src \cup m.src
    <3>1. acc.people[one] \in PersonRow
      BY <1>3
    <3> QED BY <1>2, <2>2, <3>1, JoinedIs
  <2>5. \A k \in 1..Len(acc.people) : next.people[k].name = acc.people[k].name
    BY <2>2, <2>4
  <2>6. \A i \in 1..(n + 1) : next.to[i] \in 1..Len(next.people) /\ next.people[next.to[i]].name = found[i].name
    <3>1. ASSUME NEW i \in 1..n PROVE next.to[i] \in 1..Len(next.people) /\ next.people[next.to[i]].name = found[i].name
      <4>1. next.to[i] = acc.to[i] /\ acc.to[i] \in 1..Len(acc.people) /\ acc.people[acc.to[i]].name = found[i].name
        BY <1>4, <2>3
      <4> QED BY <2>2, <2>5, <4>1
    <3>2. next.to[n + 1] \in 1..Len(next.people) /\ next.people[next.to[n + 1]].name = found[n + 1].name
      BY <2>2, <2>3, <2>5
    <3> QED BY <1>6, <3>1, <3>2
  <2>7. ASSUME NEW k \in 1..Len(next.people), NEW s \in next.people[k].src
        PROVE  \E i \in Of(next.to, n + 1, k) : s \in found[i].src
    <3>1. CASE k # one
      <4>1. k \in 1..Len(acc.people) /\ next.people[k] = acc.people[k] /\ Of(next.to, n + 1, k) = Of(acc.to, n, k)
        BY <2>2, <2>3, <3>1
      <4>2. s \in acc.people[k].src
        BY <2>7, <4>1
      <4>3. \E i \in Of(acc.to, n, k) : s \in found[i].src
        BY <1>4, <4>1, <4>2
      <4> QED BY <4>1, <4>3
    <3>2. CASE k = one /\ s \in m.src
      BY <2>3, <3>2
    <3>3. CASE k = one /\ s \in acc.people[one].src
      BY <1>4, <2>3, <3>3
    <3> QED BY <2>4, <2>7, <3>1, <3>2, <3>3
  <2>8. ASSUME NEW i \in 1..(n + 1), NEW j \in 1..(n + 1), next.to[i] # next.to[j], found[i].name = found[j].name
        PROVE  next.review > 0
    <3>1. PICK i0 \in 1..n : acc.to[i0] = one
      <4>1. PICK s \in acc.people[one].src : s \in m.src
        BY <2>2
      <4> QED BY <1>4, <4>1 DEF Of
    <3>2. found[i0].name = m.name
      BY <1>4, <2>2, <3>1
    <3>3. CASE i \in 1..n /\ j \in 1..n
      BY <1>4, <2>2, <2>3, <2>8, <3>3
    <3>4. CASE i = n + 1 /\ j \in 1..n
      BY <1>4, <2>2, <2>3, <2>8, <3>1, <3>2, <3>4
    <3>5. CASE i \in 1..n /\ j = n + 1
      BY <1>4, <2>2, <2>3, <2>8, <3>1, <3>2, <3>5
    <3> QED BY <1>6, <2>8, <3>3, <3>4, <3>5
  <2>9. ASSUME NEW k \in 1..Len(next.people) PROVE Hangs(src, Of(next.to, n + 1, k))
    <3>1. CASE k # one
      BY <1>4, <2>2, <2>3, <3>1
    <3>2. CASE k = one
      <4>1. PICK s \in acc.people[one].src : s \in m.src
        BY <2>2
      <4>2. PICK y \in Of(acc.to, n, one) : s \in found[y].src
        BY <1>4, <4>1
      <4>3. src[n + 1] \cap src[y] # {} /\ n + 1 \notin Of(acc.to, n, one)
        BY <1>1, <1>2, <1>6, <4>1, <4>2 DEF Of
      <4>4. Hangs(src, Of(acc.to, n, one) \cup {n + 1})
        BY <1>4, <4>3, HangsWith
      <4> QED BY <2>3, <3>2, <4>4
    <3> QED BY <3>1, <3>2
  <2> QED BY <1>5, <2>3, <2>6, <2>7, <2>8, <2>9, Zenon DEF PeopleFit, src
<1>8. CASE IsNew(acc, m, next)
  <2> DEFINE one == Len(acc.people) + 1
  <2>1. /\ next.people = Append(acc.people, m) /\ next.to = Append(acc.to, one)
        /\ next.review = acc.review \/ next.review = acc.review + 1
        /\ (\E k \in 1..Len(acc.people) : acc.people[k].name = m.name) => next.review = acc.review + 1
    BY <1>3, <1>8 DEF IsNew
  <2>2. /\ Len(next.people) = one /\ next.people[one] = m
        /\ \A k \in 1..Len(acc.people) : next.people[k] = acc.people[k]
    BY <1>2, <1>3, <2>1
  <2>3. /\ one \in Nat /\ 1..one = (1..Len(acc.people)) \cup {one} /\ one \notin 1..Len(acc.people)
    BY <1>3
  <2> HIDE DEF one
  <2>4. /\ Len(next.to) = n + 1 /\ next.to[n + 1] = one /\ \A i \in 1..n : next.to[i] = acc.to[i]
        /\ Of(next.to, n + 1, one) = Of(acc.to, n, one) \cup {n + 1}
        /\ \A k : k # one => Of(next.to, n + 1, k) = Of(acc.to, n, k)
    <3>1. one \in Nat /\ acc.to \in Seq(Nat) /\ Len(acc.to) = n
      BY <1>3, <2>3
    <3>2. GoesTo(Append(acc.to, one), n, acc.to, one)
      BY <3>1, OfMore, Zenon
    <3>3. GoesTo(next.to, n, acc.to, one)
      BY <2>1, <3>2
    <3> QED BY <3>3 DEF GoesTo
  <2>5. Of(next.to, n + 1, one) = {n + 1}
    <3>1. Of(acc.to, n, one) = {}
      BY <1>4, <2>3 DEF Of
    <3> QED BY <2>4, <3>1
  <2>6. \A i \in 1..(n + 1) : next.to[i] \in 1..Len(next.people) /\ next.people[next.to[i]].name = found[i].name
    <3>1. ASSUME NEW i \in 1..n
          PROVE  next.to[i] \in 1..Len(next.people) /\ next.people[next.to[i]].name = found[i].name
      <4>1. next.to[i] = acc.to[i] /\ acc.to[i] \in 1..Len(acc.people) /\ acc.people[acc.to[i]].name = found[i].name
        BY <1>4, <2>4
      <4>2. next.people[acc.to[i]] = acc.people[acc.to[i]] /\ acc.to[i] \in 1..one
        BY <2>2, <2>3, <4>1
      <4> QED BY <2>2, <4>1, <4>2
    <3>2. next.to[n + 1] \in 1..Len(next.people) /\ next.people[next.to[n + 1]].name = found[n + 1].name
      BY <2>2, <2>3, <2>4
    <3> QED BY <1>6, <3>1, <3>2
  <2>7. ASSUME NEW k \in 1..Len(next.people), NEW s \in next.people[k].src
        PROVE  \E i \in Of(next.to, n + 1, k) : s \in found[i].src
    <3>1. CASE k \in 1..Len(acc.people)
      <4>1. s \in acc.people[k].src /\ k # one
        BY <2>2, <2>3, <2>7, <3>1
      <4>2. PICK i \in Of(acc.to, n, k) : s \in found[i].src
        BY <1>4, <3>1, <4>1
      <4>3. i \in Of(next.to, n + 1, k)
        BY <2>4, <4>1, <4>2
      <4> QED BY <4>2, <4>3
    <3>2. CASE k = one
      BY <2>2, <2>5, <2>7, <3>2
    <3> QED BY <2>2, <2>3, <3>1, <3>2
  <2>8. ASSUME NEW i \in 1..(n + 1), NEW j \in 1..(n + 1), next.to[i] # next.to[j], found[i].name = found[j].name
        PROVE  next.review > 0
    <3>1. ASSUME NEW l \in 1..n, found[l].name = m.name PROVE next.review > 0
      <4>1. acc.to[l] \in 1..Len(acc.people) /\ acc.people[acc.to[l]].name = m.name
        BY <1>4, <3>1
      <4>2. next.review = acc.review + 1
        BY <2>1, <4>1
      <4> QED BY <1>3, <4>2
    <3>2. CASE i \in 1..n /\ j \in 1..n
      <4>1. acc.review > 0
        BY <1>4, <2>4, <2>8, <3>2
      <4> QED BY <1>3, <2>1, <4>1
    <3>3. CASE i = n + 1 /\ j \in 1..n
      BY <2>8, <3>1, <3>3
    <3>4. CASE i \in 1..n /\ j = n + 1
      BY <2>8, <3>1, <3>4
    <3> QED BY <1>6, <2>8, <3>2, <3>3, <3>4
  <2>9. ASSUME NEW k \in 1..Len(next.people) PROVE Hangs(src, Of(next.to, n + 1, k))
    <3>1. CASE k \in 1..Len(acc.people)
      BY <1>4, <2>3, <2>4, <3>1
    <3>2. CASE k = one
      BY <2>5, <3>2, HangsAlone
    <3> QED BY <2>2, <2>3, <3>1, <3>2
  <2> QED BY <1>5, <2>4, <2>6, <2>7, <2>8, <2>9, Zenon DEF PeopleFit, src
<1> QED BY <1>5, <1>7, <1>8

\* The table of what the first mentions have become.
PeopleChain(f, found) ==
    f = [n \in 0..Len(found) |-> IF n = 0 THEN NoPeople ELSE AddMention(f[n - 1], found[n])]

LEMMA PeopleChainExists ==
    ASSUME NEW found \in Seq(Mention) PROVE \E f : PeopleChain(f, found)
<1> DEFINE m == Len(found)
           step == [p \in PeopleSoFar \X (1..m) |-> AddMention(p[1], found[p[2]])]
<1>1. m \in Nat /\ \A n \in 1..m : found[n] \in Mention
  OBVIOUS
<1>2. step \in [PeopleSoFar \X (1..m) -> PeopleSoFar]
  BY <1>1, AddMentionCases
<1>3. NoPeople \in PeopleSoFar
  BY PeopleStart
<1>4. PICK f : /\ f \in [0..m -> PeopleSoFar] /\ f[0] = NoPeople
               /\ \A n \in 1..m : f[n] = step[<<f[n - 1], n>>]
  <2>1. IsStep(step, PeopleSoFar, m)
    BY <1>2 DEF IsStep
  <2> HIDE DEF step, m
  <2>2. PICK f : IsChain(f, PeopleSoFar, NoPeople, step, m)
    BY <1>1, <1>3, <2>1, ChainExists, Zenon
  <2> QED BY <2>2 DEF IsChain
<1>5. ASSUME NEW n \in 1..m PROVE f[n] = AddMention(f[n - 1], found[n])
  <2>1. n - 1 \in 0..m
    BY <1>1, <1>5
  <2>2. f[n - 1] \in PeopleSoFar
    BY <1>4, <2>1
  <2> QED BY <1>4, <2>2
<1>6. f = [n \in 0..m |-> IF n = 0 THEN NoPeople ELSE AddMention(f[n - 1], found[n])]
  <2>1. \A n \in 0..m : f[n] = IF n = 0 THEN NoPeople ELSE AddMention(f[n - 1], found[n])
    BY <1>1, <1>4, <1>5
  <2>2. f = [n \in 0..m |-> f[n]]
    BY <1>4
  <2> HIDE DEF step
  <2> QED BY <2>1, <2>2
<1> QED BY <1>6 DEF PeopleChain

\* DeduplicatePeople keeps names apart, loses nobody and joins only along shared segments.
LEMMA PeopleAre ==
    ASSUME NEW found \in Seq(Mention)
    PROVE  PeopleFit(found, Len(found), DeduplicatePeople(found))
<1> DEFINE m == Len(found)
           f == CHOOSE g : PeopleChain(g, found)
           G == {n \in Nat : n <= m => PeopleFit(found, n, f[n])}
<1>1. DeduplicatePeople(found) = f[m]
  BY DEF DeduplicatePeople, PeopleChain
<1>2. PeopleChain(f, found)
  BY PeopleChainExists
<1> HIDE DEF f
<1>3. m \in Nat
  OBVIOUS
<1>4. \A n \in 0..m : f[n] = IF n = 0 THEN NoPeople ELSE AddMention(f[n - 1], found[n])
  BY <1>2 DEF PeopleChain
<1>5. 0 \in G
  <2>1. f[0] = NoPeople
    BY <1>3, <1>4
  <2> QED BY <2>1, PeopleStart
<1>6. ASSUME NEW n \in Nat, n < m, n \in G PROVE n + 1 \in G
  <2>1. PeopleFit(found, n, f[n]) /\ n < Len(found)
    BY <1>3, <1>6
  <2>2. f[n + 1] = AddMention(f[n], found[n + 1])
    BY <1>3, <1>4, <1>6
  <2>3. PeopleFit(found, n + 1, f[n + 1])
    BY <2>1, <2>2, PeopleStep
  <2> QED BY <2>3
<1>7. m \in G
  <2> HIDE DEF G
  <2>1. \A n \in 0..m : n \in G
    BY <1>3, <1>5, <1>6, CountUp
  <2> QED BY <1>3, <2>1
<1> QED BY <1>1, <1>7

-----------------------------------------------------------------------------
(* Facts that say the same.                                                *)

FactRow == [about : Nat, src : SUBSET SourceSegments, of : SUBSET Nat]

FactMatches(kind, out, f) == {k \in DOMAIN out : SameFact(kind, out[k], f)}

WithFact(g, f) == [about |-> g.about, src |-> g.src \cup f.src, of |-> g.of \cup f.of]

LEMMA AddFactIs ==
    ASSUME NEW kind, NEW out, NEW f
    PROVE  AddFact(kind, out, f) =
             IF FactMatches(kind, out, f) = {} THEN Append(out, f)
             ELSE [out EXCEPT ![LeastOf(FactMatches(kind, out, f))] = WithFact(@, f)]
  BY DEF AddFact, FactMatches, WithFact

FactJoins(kind, out, f, next, one) ==
    /\ one \in DOMAIN out /\ SameFact(kind, out[one], f)
    /\ Len(next) = Len(out) /\ next[one] = WithFact(out[one], f)
    /\ \A k \in DOMAIN out : k # one => next[k] = out[k]

LEMMA AddFactCases ==
    ASSUME NEW kind, NEW out \in Seq(FactRow), NEW f \in FactRow
    PROVE  /\ AddFact(kind, out, f) \in Seq(FactRow)
           /\ \/ \E one \in 1..Len(out) : FactJoins(kind, out, f, AddFact(kind, out, f), one)
              \/ AddFact(kind, out, f) = Append(out, f)
<1> DEFINE M == FactMatches(kind, out, f)
           one == LeastOf(M)
<1>1. M \in SUBSET (1..Len(out)) /\ \A k \in M : SameFact(kind, out[k], f)
  BY DEF FactMatches
<1>2. CASE M = {}
  BY <1>2, AddFactIs
<1>3. CASE M # {}
  <2>1. one \in M
    <3>1. M \in SUBSET Nat
      BY <1>1
    <3> HIDE DEF M
    <3> QED BY <1>3, <3>1, LeastOfIs
  <2> DEFINE next == [out EXCEPT ![one] = WithFact(@, f)]
  <2>2. AddFact(kind, out, f) = next
    BY <1>3, AddFactIs
  <2> HIDE DEF M, one
  <2>3. one \in 1..Len(out) /\ one \in DOMAIN out /\ out[one] \in FactRow
    BY <1>1, <2>1
  <2>4. WithFact(out[one], f) \in FactRow
    BY <2>3 DEF WithFact, FactRow
  <2>5. /\ next \in Seq(FactRow) /\ Len(next) = Len(out) /\ next[one] = WithFact(out[one], f)
        /\ \A k \in DOMAIN out : k # one => next[k] = out[k]
    BY <2>3, <2>4
  <2>6. FactJoins(kind, out, f, next, one)
    <3> HIDE DEF next
    <3> QED BY <1>1, <2>1, <2>3, <2>5 DEF FactJoins
  <2> HIDE DEF next
  <2> QED BY <2>2, <2>3, <2>5, <2>6
<1> QED BY <1>2, <1>3

\* What n facts have become: each is in one result only, which is about the same person and
\* has the sources of its facts, and events hang together by their segments.
FactsFit(kind, facts, n, out) ==
    /\ out \in Seq(FactRow)
    /\ \A k \in 1..Len(out) : out[k].of \in SUBSET (1..n) /\ out[k].of # {}
    /\ \A i \in 1..n : \E k \in 1..Len(out) : i \in out[k].of
    /\ \A k, l \in 1..Len(out) : k # l => out[k].of \cap out[l].of = {}
    /\ \A k \in 1..Len(out) : \A i \in out[k].of :
          out[k].about = facts[i].about /\ facts[i].src \subseteq out[k].src
    /\ \A k \in 1..Len(out) : \A s \in out[k].src : \E i \in out[k].of : s \in facts[i].src
    /\ kind = "event" => \A k \in 1..Len(out) : Hangs(SourcesOf(facts), out[k].of)

LEMMA FactStart == ASSUME NEW kind, NEW facts PROVE <<>> \in Seq(FactRow) /\ FactsFit(kind, facts, 0, <<>>)
  BY DEF FactsFit

LEMMA FactStep ==
    ASSUME NEW kind, NEW facts \in Seq(FactRow), NEW n \in Nat, n < Len(facts), facts[n + 1].of = {n + 1},
           NEW out, FactsFit(kind, facts, n, out)
    PROVE  FactsFit(kind, facts, n + 1, AddFact(kind, out, facts[n + 1]))
<1> DEFINE f == facts[n + 1]
           next == AddFact(kind, out, f)
           src == SourcesOf(facts)
<1> SUFFICES FactsFit(kind, facts, n + 1, next)
  OBVIOUS
<1>1. f \in FactRow /\ f.of = {n + 1} /\ \A i \in 1..(n + 1) : src[i] = facts[i].src
  BY DEF SourcesOf
<1>2. f.src \in SUBSET SourceSegments /\ src[n + 1] = f.src
  BY <1>1 DEF FactRow
<1>3. /\ out \in Seq(FactRow) /\ DOMAIN out = 1..Len(out) /\ Len(out) \in Nat
      /\ \A k \in 1..Len(out) : out[k].of \in SUBSET (1..n) /\ out[k].of # {}
      /\ \A i \in 1..n : \E k \in 1..Len(out) : i \in out[k].of
      /\ \A k, l \in 1..Len(out) : k # l => out[k].of \cap out[l].of = {}
  BY DEF FactsFit
<1>4. /\ \A k \in 1..Len(out) : \A i \in out[k].of :
            out[k].about = facts[i].about /\ facts[i].src \subseteq out[k].src
      /\ \A k \in 1..Len(out) : \A s \in out[k].src : \E i \in out[k].of : s \in facts[i].src
      /\ kind = "event" => \A k \in 1..Len(out) : Hangs(src, out[k].of)
  BY DEF FactsFit
<1>5. /\ next \in Seq(FactRow)
      /\ (\E one \in 1..Len(out) : FactJoins(kind, out, f, next, one)) \/ next = Append(out, f)
  <2>1. f \in FactRow /\ out \in Seq(FactRow)
    BY <1>1, <1>3
  <2> HIDE DEF f
  <2> QED BY <2>1, AddFactCases
<1> HIDE DEF next, src, f
<1>6. 1..(n + 1) = (1..n) \cup {n + 1} /\ n + 1 \notin 1..n
  OBVIOUS
<1>7. CASE \E one \in 1..Len(out) : FactJoins(kind, out, f, next, one)
  <2>1. PICK one \in 1..Len(out) : FactJoins(kind, out, f, next, one)
    BY <1>7
  <2>2. /\ out[one].about = f.about
        /\ kind = "event" => out[one].src \cap f.src # {}
    BY <2>1 DEF FactJoins, SameFact
  <2>3. /\ Len(next) = Len(out) /\ next[one] = WithFact(out[one], f)
        /\ \A k \in 1..Len(out) : k # one => next[k] = out[k]
    BY <1>3, <2>1 DEF FactJoins
  <2>4. /\ next[one].about = out[one].about /\ next[one].src = out[one].src \cup f.src
        /\ next[one].of = out[one].of \cup {n + 1}
    BY <1>1, <2>3 DEF WithFact
  <2>5. \A k \in 1..Len(next) : next[k].of \in SUBSET (1..(n + 1)) /\ next[k].of # {}
    <3>1. ASSUME NEW k \in 1..Len(out), k # one PROVE next[k].of \in SUBSET (1..(n + 1)) /\ next[k].of # {}
      BY <1>3, <1>6, <2>3, <3>1
    <3>2. next[one].of \in SUBSET (1..(n + 1)) /\ next[one].of # {}
      BY <1>3, <1>6, <2>4
    <3> QED BY <2>3, <3>1, <3>2
  <2>6. ASSUME NEW i \in 1..(n + 1) PROVE \E k \in 1..Len(next) : i \in next[k].of
    <3>1. CASE i = n + 1
      BY <2>3, <2>4, <3>1
    <3>2. CASE i \in 1..n
      BY <1>3, <2>3, <2>4, <3>2
    <3> QED BY <1>6, <3>1, <3>2
  <2>7. ASSUME NEW k \in 1..Len(next), NEW l \in 1..Len(next), k # l PROVE next[k].of \cap next[l].of = {}
    <3>1. out[k].of \cap out[l].of = {} /\ n + 1 \notin out[k].of /\ n + 1 \notin out[l].of
      BY <1>3, <1>6, <2>3, <2>7
    <3>2. CASE k = one
      BY <2>3, <2>4, <2>7, <3>1, <3>2
    <3>3. CASE l = one
      BY <2>3, <2>4, <2>7, <3>1, <3>3
    <3>4. CASE k # one /\ l # one
      BY <2>3, <3>1, <3>4
    <3> QED BY <3>2, <3>3, <3>4
  <2>8. ASSUME NEW k \in 1..Len(next), NEW i \in next[k].of
        PROVE  next[k].about = facts[i].about /\ facts[i].src \subseteq next[k].src
    <3>1. CASE k # one
      BY <1>4, <2>3, <2>8, <3>1
    <3>2. CASE k = one /\ i = n + 1
      <4>1. facts[i] = f
        BY <3>2 DEF f
      <4> QED BY <2>2, <2>4, <3>2, <4>1
    <3>3. CASE k = one /\ i \in out[one].of
      BY <1>4, <2>4, <3>3
    <3> QED BY <2>4, <2>8, <3>1, <3>2, <3>3
  <2>9. ASSUME NEW k \in 1..Len(next), NEW s \in next[k].src PROVE \E i \in next[k].of : s \in facts[i].src
    <3>1. CASE k # one
      BY <1>4, <2>3, <2>9, <3>1
    <3>2. CASE k = one /\ s \in f.src
      BY <2>4, <3>2 DEF f
    <3>3. CASE k = one /\ s \in out[one].src
      BY <1>4, <2>4, <3>3
    <3> QED BY <2>4, <2>9, <3>1, <3>2, <3>3
  <2>10. ASSUME kind = "event", NEW k \in 1..Len(next) PROVE Hangs(src, next[k].of)
    <3>1. CASE k # one
      BY <1>4, <2>3, <2>10, <3>1
    <3>2. CASE k = one
      <4>1. PICK s \in out[one].src : s \in f.src
        BY <2>2, <2>10
      <4>2. PICK y \in out[one].of : s \in facts[y].src
        BY <1>4, <4>1
      <4>3. y \in 1..n /\ n + 1 \notin out[one].of
        BY <1>3, <1>6
      <4>4. src[n + 1] \cap src[y] # {}
        BY <1>1, <1>2, <1>6, <4>1, <4>2, <4>3
      <4>5. Hangs(src, out[one].of)
        BY <1>4, <2>10
      <4>6. Hangs(src, out[one].of \cup {n + 1})
        BY <4>3, <4>4, <4>5, HangsWith
      <4> QED BY <2>4, <3>2, <4>6
    <3> QED BY <3>1, <3>2
  <2> QED BY <1>5, <2>5, <2>6, <2>7, <2>8, <2>9, <2>10, Zenon DEF FactsFit, src
<1>8. CASE next = Append(out, f)
  <2> DEFINE one == Len(out) + 1
  <2>1. /\ Len(next) = one /\ next[one] = f /\ \A k \in 1..Len(out) : next[k] = out[k]
        /\ one \in Nat /\ 1..one = (1..Len(out)) \cup {one} /\ one \notin 1..Len(out)
    BY <1>1, <1>3, <1>8
  <2> HIDE DEF one
  <2>5. \A k \in 1..Len(next) : next[k].of \in SUBSET (1..(n + 1)) /\ next[k].of # {}
    <3>1. ASSUME NEW k \in 1..Len(out) PROVE next[k].of \in SUBSET (1..(n + 1)) /\ next[k].of # {}
      BY <1>3, <1>6, <2>1, <3>1
    <3>2. next[one].of \in SUBSET (1..(n + 1)) /\ next[one].of # {}
      BY <1>1, <1>6, <2>1
    <3> QED BY <2>1, <3>1, <3>2
  <2>6. ASSUME NEW i \in 1..(n + 1) PROVE \E k \in 1..Len(next) : i \in next[k].of
    <3>1. CASE i = n + 1
      BY <1>1, <2>1, <3>1
    <3>2. CASE i \in 1..n
      BY <1>3, <2>1, <3>2
    <3> QED BY <1>6, <3>1, <3>2
  <2>7. ASSUME NEW k \in 1..Len(next), NEW l \in 1..Len(next), k # l PROVE next[k].of \cap next[l].of = {}
    <3>1. ASSUME NEW j \in 1..Len(out) PROVE n + 1 \notin next[j].of
      BY <1>3, <1>6, <2>1, <3>1
    <3>0. next[one].of = {n + 1}
      BY <1>1, <2>1
    <3>2. CASE k = one
      <4>1. l \in 1..Len(out)
        BY <2>1, <2>7, <3>2
      <4> QED BY <3>0, <3>1, <3>2, <4>1
    <3>3. CASE l = one
      <4>1. k \in 1..Len(out)
        BY <2>1, <2>7, <3>3
      <4> QED BY <3>0, <3>1, <3>3, <4>1
    <3>4. CASE k # one /\ l # one
      <4>1. k \in 1..Len(out) /\ l \in 1..Len(out)
        BY <2>1, <3>4
      <4> QED BY <1>3, <2>1, <2>7, <4>1
    <3> QED BY <3>2, <3>3, <3>4
  <2>8. ASSUME NEW k \in 1..Len(next), NEW i \in next[k].of
        PROVE  next[k].about = facts[i].about /\ facts[i].src \subseteq next[k].src
    <3>1. CASE k \in 1..Len(out)
      BY <1>4, <2>1, <2>8, <3>1
    <3>2. CASE k = one
      BY <1>1, <2>1, <2>8, <3>2 DEF f
    <3> QED BY <2>1, <3>1, <3>2
  <2>9. ASSUME NEW k \in 1..Len(next), NEW s \in next[k].src PROVE \E i \in next[k].of : s \in facts[i].src
    <3>1. CASE k \in 1..Len(out)
      BY <1>4, <2>1, <2>9, <3>1
    <3>2. CASE k = one
      BY <1>1, <2>1, <2>9, <3>2 DEF f
    <3> QED BY <2>1, <3>1, <3>2
  <2>10. ASSUME kind = "event", NEW k \in 1..Len(next) PROVE Hangs(src, next[k].of)
    <3>1. CASE k \in 1..Len(out)
      BY <1>4, <2>1, <2>10, <3>1
    <3>2. CASE k = one
      <4>1. next[k].of = {n + 1}
        BY <1>1, <2>1, <3>2
      <4> QED BY <4>1, HangsAlone
    <3> QED BY <2>1, <3>1, <3>2
  <2> QED BY <1>5, <2>5, <2>6, <2>7, <2>8, <2>9, <2>10, Zenon DEF FactsFit, src
<1> QED BY <1>5, <1>7, <1>8

FactChain(f, kind, facts) ==
    f = [n \in 0..Len(facts) |-> IF n = 0 THEN <<>> ELSE AddFact(kind, f[n - 1], facts[n])]

LEMMA FactChainExists ==
    ASSUME NEW kind, NEW facts \in Seq(FactRow) PROVE \E f : FactChain(f, kind, facts)
<1> DEFINE m == Len(facts)
           step == [p \in Seq(FactRow) \X (1..m) |-> AddFact(kind, p[1], facts[p[2]])]
<1>1. m \in Nat /\ \A n \in 1..m : facts[n] \in FactRow
  OBVIOUS
<1>2. step \in [Seq(FactRow) \X (1..m) -> Seq(FactRow)]
  BY <1>1, AddFactCases
<1>3. <<>> \in Seq(FactRow)
  OBVIOUS
<1>4. PICK f : /\ f \in [0..m -> Seq(FactRow)] /\ f[0] = <<>>
               /\ \A n \in 1..m : f[n] = step[<<f[n - 1], n>>]
  <2>1. IsStep(step, Seq(FactRow), m)
    BY <1>2 DEF IsStep
  <2> HIDE DEF step, m
  <2>2. PICK f : IsChain(f, Seq(FactRow), <<>>, step, m)
    BY <1>1, <1>3, <2>1, ChainExists, Zenon
  <2> QED BY <2>2 DEF IsChain
<1>5. ASSUME NEW n \in 1..m PROVE f[n] = AddFact(kind, f[n - 1], facts[n])
  <2>1. n - 1 \in 0..m
    BY <1>1, <1>5
  <2>2. f[n - 1] \in Seq(FactRow)
    BY <1>4, <2>1
  <2> QED BY <1>4, <2>2
<1>6. f = [n \in 0..m |-> IF n = 0 THEN <<>> ELSE AddFact(kind, f[n - 1], facts[n])]
  <2>1. \A n \in 0..m : f[n] = IF n = 0 THEN <<>> ELSE AddFact(kind, f[n - 1], facts[n])
    BY <1>1, <1>4, <1>5
  <2>2. f = [n \in 0..m |-> f[n]]
    BY <1>4
  <2> HIDE DEF step
  <2> QED BY <2>1, <2>2
<1> QED BY <1>6 DEF FactChain

LEMMA FactsAre ==
    ASSUME NEW kind, NEW facts \in Seq(FactRow), \A i \in 1..Len(facts) : facts[i].of = {i}
    PROVE  FactsFit(kind, facts, Len(facts), DeduplicateCollection(kind, facts))
<1> DEFINE m == Len(facts)
           f == CHOOSE g : FactChain(g, kind, facts)
           G == {n \in Nat : n <= m => FactsFit(kind, facts, n, f[n])}
<1>1. DeduplicateCollection(kind, facts) = f[m]
  BY DEF DeduplicateCollection, FactChain
<1>2. FactChain(f, kind, facts)
  BY FactChainExists
<1> HIDE DEF f
<1>3. m \in Nat
  OBVIOUS
<1>4. \A n \in 0..m : f[n] = IF n = 0 THEN <<>> ELSE AddFact(kind, f[n - 1], facts[n])
  BY <1>2 DEF FactChain
<1>5. 0 \in G
  <2>1. f[0] = <<>>
    BY <1>3, <1>4
  <2> QED BY <2>1, FactStart
<1>6. ASSUME NEW n \in Nat, n < m, n \in G PROVE n + 1 \in G
  <2>1. FactsFit(kind, facts, n, f[n]) /\ n < Len(facts) /\ facts[n + 1].of = {n + 1}
    BY <1>3, <1>6
  <2>2. f[n + 1] = AddFact(kind, f[n], facts[n + 1])
    BY <1>3, <1>4, <1>6
  <2>3. FactsFit(kind, facts, n + 1, f[n + 1])
    BY <2>1, <2>2, FactStep
  <2> QED BY <2>3
<1>7. m \in G
  <2> HIDE DEF G
  <2>1. \A n \in 0..m : n \in G
    BY <1>3, <1>5, <1>6, CountUp
  <2> QED BY <1>3, <2>1
<1> QED BY <1>1, <1>7

-----------------------------------------------------------------------------
(* The merge.                                                              *)

MergedOf(found, kind) ==
    [people |-> DeduplicatePeople(found).people, to |-> DeduplicatePeople(found).to,
     review |-> DeduplicatePeople(found).review,
     facts |-> DeduplicateCollection(kind, RemappedFacts(found, DeduplicatePeople(found).to))]

MergeIInv ==
    /\ mentions \in Seq(Mention)
    /\ merged = NotMerged \/ (mentions # <<>> /\ merged = MergedOf(mentions, factKind))

\* What the people and the facts of a merge are.
LEMMA MergedFits ==
    ASSUME NEW found \in Seq(Mention), NEW kind
    PROVE  LET r == MergedOf(found, kind)
               facts == RemappedFacts(found, r.to)
           IN  /\ PeopleFit(found, Len(found), [people |-> r.people, to |-> r.to, review |-> r.review])
               /\ facts \in Seq(FactRow) /\ Len(facts) = Len(found)
               /\ \A i \in 1..Len(found) : facts[i].about = r.to[i] /\ facts[i].src = found[i].told
               /\ FactsFit(kind, facts, Len(found), r.facts)
<1> DEFINE p == DeduplicatePeople(found)
           r == MergedOf(found, kind)
           facts == RemappedFacts(found, p.to)
<1>1. PeopleFit(found, Len(found), p)
  BY PeopleAre
<1>2. p \in PeopleSoFar /\ Len(p.to) = Len(found) /\ p.to \in Seq(Nat) /\ Len(found) \in Nat
  BY <1>1 DEF PeopleFit, PeopleSoFar
<1>3. p = [people |-> p.people, to |-> p.to, review |-> p.review]
  BY <1>2 DEF PeopleSoFar
<1>4. r.people = p.people /\ r.to = p.to /\ r.review = p.review /\ r.facts = DeduplicateCollection(kind, facts)
  BY DEF MergedOf
<1> HIDE DEF p, r
<1>5. facts = [i \in 1..Len(found) |-> [about |-> p.to[i], src |-> found[i].told, of |-> {i}]]
  BY DEF RemappedFacts
<1>6. ASSUME NEW i \in 1..Len(found)
      PROVE  facts[i].of = {i} /\ facts[i].about = p.to[i] /\ facts[i].src = found[i].told /\ facts[i] \in FactRow
  <2>1. facts[i] = [about |-> p.to[i], src |-> found[i].told, of |-> {i}]
    BY <1>5
  <2>2. found[i] \in Mention /\ i \in Nat /\ p.to[i] \in Nat
    BY <1>2
  <2>3. found[i].told \in SUBSET SourceSegments
    BY <2>2, MentionIsPerson
  <2> QED BY <2>1, <2>2, <2>3 DEF FactRow
<1>7. facts \in Seq(FactRow) /\ Len(facts) = Len(found)
  <2>1. facts \in [1..Len(found) -> FactRow]
    BY <1>5, <1>6
  <2> HIDE DEF facts
  <2> QED BY <1>2, <2>1
<1> HIDE DEF facts
<1>8. FactsFit(kind, facts, Len(found), DeduplicateCollection(kind, facts))
  BY <1>6, <1>7, FactsAre
<1> QED BY <1>1, <1>3, <1>4, <1>6, <1>7, <1>8, Zenon DEF r, facts

LEMMA MergeHolds ==
    ASSUME NEW found \in Seq(Mention), mentions = found, merged = MergedOf(found, factKind)
    PROVE  WindowMergeInv
<1> DEFINE p == [people |-> merged.people, to |-> merged.to, review |-> merged.review]
           facts == RemappedFacts(found, merged.to)
           n == Len(found)
<1>1. /\ PeopleFit(found, n, p) /\ facts \in Seq(FactRow) /\ Len(facts) = n /\ n \in Nat
      /\ \A i \in 1..n : facts[i].about = merged.to[i] /\ facts[i].src = found[i].told
      /\ FactsFit(factKind, facts, n, merged.facts)
  BY MergedFits
<1>2. p.people = merged.people /\ p.to = merged.to /\ p.review = merged.review
  OBVIOUS
<1>3. DOMAIN mentions = 1..n /\ mentions = found
  OBVIOUS
<1> HIDE DEF p, facts, n
<1>4. /\ merged.people \in Seq(PersonRow) /\ DOMAIN merged.people = 1..Len(merged.people)
      /\ \A i \in 1..n : merged.to[i] \in 1..Len(merged.people) /\ merged.people[merged.to[i]].name = found[i].name
      /\ \A i, j \in 1..n : merged.to[i] # merged.to[j] /\ found[i].name = found[j].name => merged.review > 0
      /\ \A k \in 1..Len(merged.people) : Hangs(SourcesOf(found), Of(merged.to, n, k))
  BY <1>1, <1>2 DEF PeopleFit, PeopleSoFar
<1>5. ASSUME NEW k \in DOMAIN merged.people,
             NEW part \in SUBSET {i \in 1..n : merged.to[i] = k}, part # {}, part # {i \in 1..n : merged.to[i] = k}
      PROVE  \E i \in part, j \in {i \in 1..n : merged.to[i] = k} \ part : found[i].src \cap found[j].src # {}
  <2>1. Hangs(SourcesOf(found), {i \in 1..n : merged.to[i] = k})
    BY <1>4 DEF Of
  <2>2. PICK i \in part, j \in {i \in 1..n : merged.to[i] = k} \ part : SourcesOf(found)[i] \cap SourcesOf(found)[j] # {}
    BY <1>5, <2>1 DEF Hangs
  <2>3. SourcesOf(found)[i] = found[i].src /\ SourcesOf(found)[j] = found[j].src
    BY <1>3 DEF SourcesOf
  <2> QED BY <2>2, <2>3
<1>6. SameNameKeptApart
  <2>1. \A i \in DOMAIN mentions : merged.people[merged.to[i]].name = mentions[i].name
    BY <1>3, <1>4
  <2>2. \A i, j \in DOMAIN mentions :
           merged.to[i] # merged.to[j] /\ mentions[i].name = mentions[j].name => merged.review > 0
    BY <1>3, <1>4
  <2>3. ASSUME NEW k \in DOMAIN merged.people,
               NEW part \in SUBSET {i \in DOMAIN mentions : merged.to[i] = k},
               part # {}, part # {i \in DOMAIN mentions : merged.to[i] = k}
        PROVE  \E i \in part, j \in {i \in DOMAIN mentions : merged.to[i] = k} \ part :
                  mentions[i].src \cap mentions[j].src # {}
    BY <1>3, <1>5, <2>3
  <2> QED BY <2>1, <2>2, <2>3 DEF SameNameKeptApart
<1>7. /\ merged.facts \in Seq(FactRow) /\ DOMAIN merged.facts = 1..Len(merged.facts)
      /\ \A k \in 1..Len(merged.facts) : merged.facts[k].of \in SUBSET (1..n) /\ merged.facts[k].of # {}
      /\ \A i \in 1..n : \E k \in 1..Len(merged.facts) : i \in merged.facts[k].of
      /\ \A k, l \in 1..Len(merged.facts) : k # l => merged.facts[k].of \cap merged.facts[l].of = {}
      /\ \A k \in 1..Len(merged.facts) : \A i \in merged.facts[k].of :
            merged.facts[k].about = facts[i].about /\ facts[i].src \subseteq merged.facts[k].src
      /\ factKind = "event" => \A k \in 1..Len(merged.facts) : Hangs(SourcesOf(facts), merged.facts[k].of)
  <2>1. FactsFit(factKind, facts, n, merged.facts)
    BY <1>1
  <2>2. merged.facts \in Seq(FactRow)
    BY <2>1 DEF FactsFit
  <2>3. /\ \A k \in 1..Len(merged.facts) : merged.facts[k].of \in SUBSET (1..n) /\ merged.facts[k].of # {}
        /\ \A i \in 1..n : \E k \in 1..Len(merged.facts) : i \in merged.facts[k].of
        /\ \A k, l \in 1..Len(merged.facts) : k # l => merged.facts[k].of \cap merged.facts[l].of = {}
        /\ \A k \in 1..Len(merged.facts) : \A i \in merged.facts[k].of :
              merged.facts[k].about = facts[i].about /\ facts[i].src \subseteq merged.facts[k].src
        /\ factKind = "event" => \A k \in 1..Len(merged.facts) : Hangs(SourcesOf(facts), merged.facts[k].of)
    BY <2>1, Zenon DEF FactsFit
  <2>4. DOMAIN merged.facts = 1..Len(merged.facts)
    BY <2>2
  <2> QED BY <2>2, <2>3, <2>4, Zenon
<1>8. FactsFollowTheirPerson
  <2>1. ASSUME NEW i \in 1..n
        PROVE  \E k \in DOMAIN merged.facts :
                 /\ i \in merged.facts[k].of /\ merged.facts[k].about = merged.to[i]
                 /\ mentions[i].told \subseteq merged.facts[k].src
                 /\ \A l \in DOMAIN merged.facts : i \in merged.facts[l].of => l = k
    <3>1. PICK k \in 1..Len(merged.facts) : i \in merged.facts[k].of
      BY <1>7
    <3>2. merged.facts[k].about = merged.to[i] /\ mentions[i].told \subseteq merged.facts[k].src
      <4>1. facts[i].about = merged.to[i] /\ facts[i].src = mentions[i].told
        BY <1>1, <1>3
      <4>2. merged.facts[k].about = facts[i].about /\ facts[i].src \subseteq merged.facts[k].src
        BY <1>7, <3>1
      <4> QED BY <4>1, <4>2
    <3>3. \A l \in DOMAIN merged.facts : i \in merged.facts[l].of => l = k
      BY <1>7, <3>1
    <3>4. k \in DOMAIN merged.facts
      BY <1>7
    <3> QED BY <3>1, <3>2, <3>3, <3>4
  <2>2. ASSUME NEW k \in DOMAIN merged.facts PROVE merged.facts[k].about \in DOMAIN merged.people
    <3>1. PICK i \in merged.facts[k].of : i \in 1..n
      BY <1>7
    <3>2. merged.facts[k].about = merged.to[i]
      BY <1>1, <1>7, <3>1
    <3> QED BY <1>4, <3>1, <3>2
  <2> QED BY <1>3, <2>1, <2>2 DEF FactsFollowTheirPerson
<1>9. EventsKeptApart
  <2> SUFFICES ASSUME factKind = "event", NEW k \in DOMAIN merged.facts,
                      NEW part \in SUBSET merged.facts[k].of, part # {}, part # merged.facts[k].of
               PROVE  \E i \in part, j \in merged.facts[k].of \ part : mentions[i].told \cap mentions[j].told # {}
    BY DEF EventsKeptApart
  <2>1. Hangs(SourcesOf(facts), merged.facts[k].of) /\ merged.facts[k].of \in SUBSET (1..n)
    BY <1>7
  <2>2. PICK i \in part, j \in merged.facts[k].of \ part : SourcesOf(facts)[i] \cap SourcesOf(facts)[j] # {}
    BY <2>1 DEF Hangs
  <2>3. i \in 1..n /\ j \in 1..n
    BY <2>1
  <2>4. \A l \in 1..n : SourcesOf(facts)[l] = found[l].told
    BY <1>1 DEF SourcesOf
  <2>5. SourcesOf(facts)[i] = mentions[i].told /\ SourcesOf(facts)[j] = mentions[j].told
    BY <1>3, <2>3, <2>4
  <2> QED BY <2>2, <2>5
<1> QED BY <1>6, <1>8, <1>9 DEF WindowMergeInv

LEMMA MergeStart == MergeInit => MergeIInv
  BY DEF MergeInit, MergeIInv

LEMMA MergeStep == MergeIInv /\ [MergeNext]_mergeVars => MergeIInv'
<1> SUFFICES ASSUME MergeIInv, [MergeNext]_mergeVars PROVE MergeIInv'
  OBVIOUS
<1>1. ASSUME mentions = <<>>, NEW n \in 1..MaxMentions, NEW found \in [1..n -> Mention],
             NEW kind \in {"event", "relationship"}, FindMentions(found, kind)
      PROVE  MergeIInv'
  <2>1. n \in Nat /\ found \in Seq(Mention)
    OBVIOUS
  <2>2. merged = NotMerged
    BY <1>1 DEF MergeIInv
  <2> QED BY <1>1, <2>1, <2>2 DEF FindMentions, MergeIInv
<1>2. CASE MergeWindows
  BY <1>2 DEF MergeWindows, MergeIInv, MergedOf
<1>3. CASE UNCHANGED mergeVars
  BY <1>3 DEF MergeIInv, mergeVars
<1> QED BY <1>1, <1>2, <1>3 DEF MergeNext

LEMMA MergeImplies == MergeIInv => WindowMergeInv
<1> SUFFICES ASSUME MergeIInv PROVE WindowMergeInv
  OBVIOUS
<1>1. CASE merged = NotMerged
  BY <1>1 DEF WindowMergeInv, SameNameKeptApart, FactsFollowTheirPerson, EventsKeptApart
<1>2. CASE merged # NotMerged
  BY <1>2, MergeHolds DEF MergeIInv
<1> QED BY <1>1, <1>2

\* Whatever the windows found, merging joins what is one and nothing else
\* (merge_window_extractions).
THEOREM MergeCorrect == MergeSpec => []WindowMergeInv
<1>1. MergeInit => MergeIInv
  BY MergeStart
<1>2. MergeIInv /\ [MergeNext]_mergeVars => MergeIInv'
  BY MergeStep
<1>3. MergeIInv => WindowMergeInv
  BY MergeImplies
<1> QED BY <1>1, <1>2, <1>3, PTL DEF MergeSpec

\* Planning windows and merging them share no state: a step is one of either.
WindowsSpec ==
    /\ PlanInit /\ MergeInit
    /\ [][(PlanNext /\ UNCHANGED mergeVars) \/ (MergeNext /\ UNCHANGED planVars)]_<<planVars, mergeVars>>

\* For any limits, any tale and any mentions: the windows cover the whole of a recording, none of
\* it is unheard but what joining for the budget hides, and merging them joins what is one and
\* nothing else (plan, materialize_window, merge_window_extractions).
THEOREM WindowsCorrect == WindowsSpec => []WindowsInv
<1>1. WindowsSpec => PlanSpec
  <2>1. [(PlanNext /\ UNCHANGED mergeVars)
            \/ (MergeNext /\ UNCHANGED planVars)]_<<planVars, mergeVars>> => [PlanNext]_planVars
    OBVIOUS
  <2> QED BY <2>1, PTL DEF WindowsSpec, PlanSpec
<1>2. WindowsSpec => MergeSpec
  <2>1. [(PlanNext /\ UNCHANGED mergeVars)
            \/ (MergeNext /\ UNCHANGED planVars)]_<<planVars, mergeVars>> => [MergeNext]_mergeVars
    OBVIOUS
  <2> QED BY <2>1, PTL DEF WindowsSpec, MergeSpec
<1>3. WindowPlanInv /\ WindowMergeInv => WindowsInv
  BY DEF WindowsInv
<1> QED BY <1>1, <1>2, <1>3, PlanCorrect, MergeCorrect, PTL

-----------------------------------------------------------------------------
(* Cutting and merging speech (SpeechChunks).                              *)

\* Stretches in order, none longer than allowed, each begins with speech.
Stretch == [first : Int, past : Int]

StretchFits(r, S, bound, longest) ==
    /\ r \in Stretch /\ 0 <= r.first /\ r.first < r.past /\ r.past <= bound
    /\ r.past - r.first <= longest /\ r.first \in S

Follows(r, p, apart) == p.past <= r.first /\ p.first + apart <= r.first

Laid(q, S, bound, longest, apart) ==
    /\ q \in Seq(Stretch)
    /\ \A i \in 1..Len(q) : StretchFits(q[i], S, bound, longest)
    /\ \A i \in 2..Len(q) : Follows(q[i], q[i - 1], apart)

HasSample(r, s) == r.first <= s /\ s < r.past

Covered(q, s) == \E i \in 1..Len(q) : HasSample(q[i], s)

LEMMA WidenedIs ==
    ASSUME NEW q \in Seq(Stretch), q # <<>>, NEW p \in Int
    PROVE  /\ Widened(q, p) \in Seq(Stretch) /\ Len(Widened(q, p)) = Len(q) /\ Len(q) >= 1
           /\ \A i \in 1..Len(q) : i # Len(q) => Widened(q, p)[i] = q[i]
           /\ Widened(q, p)[Len(q)].first = q[Len(q)].first
           /\ Widened(q, p)[Len(q)].past = p
<1> DEFINE l == Len(q)
           r == [q[l] EXCEPT !.past = p]
           w == [q EXCEPT ![l] = r]
<1>1. l \in Nat /\ l >= 1 /\ l \in 1..l /\ q[l] \in Stretch
  BY EmptySeq
<1>2. r \in Stretch /\ r.first = q[l].first /\ r.past = p
  BY <1>1 DEF Stretch
<1>3. Widened(q, p) = w
  BY <1>1 DEF Widened
<1> HIDE DEF r
<1>4. w \in Seq(Stretch) /\ Len(w) = l
  BY <1>1, <1>2
<1>5. \A i \in 1..l : w[i] = IF i = l THEN r ELSE q[i]
  BY <1>1
<1> HIDE DEF w, l
<1>6. w[l] = r /\ \A i \in 1..l : i # l => w[i] = q[i]
  BY <1>1, <1>5
<1> QED BY <1>1, <1>2, <1>3, <1>4, <1>6 DEF l

LEMMA LastIs ==
    ASSUME NEW q \in Seq(Stretch), q # <<>>
    PROVE  Len(q) \in Nat /\ Len(q) >= 1 /\ Last(q) = q[Len(q)] /\ q[Len(q)] \in Stretch
BY EmptySeq DEF Last

LEMMA StretchWidened ==
    ASSUME NEW r, NEW v \in Stretch, NEW S, NEW b \in Int, NEW c \in Int, NEW longest \in Int, NEW p \in Int,
           StretchFits(r, S, b, longest), v.first = r.first, v.past = p, r.past <= p, p <= c,
           p - r.first <= longest
    PROVE  StretchFits(v, S, c, longest)
BY DEF StretchFits, Stretch

LEMMA StretchStays ==
    ASSUME NEW r, NEW S, NEW b \in Int, NEW c \in Int, NEW longest \in Int, StretchFits(r, S, b, longest), b <= c
    PROVE  StretchFits(r, S, c, longest)
BY DEF StretchFits, Stretch

WidenedFits(w, q, p, S, c, longest, apart) ==
    /\ Laid(w, S, c, longest, apart) /\ w # <<>>
    /\ Last(w).first = Last(q).first /\ Last(w).past = p
    /\ \A s : Covered(q, s) /\ s \in Int => Covered(w, s)
    /\ \A s : Last(q).first <= s /\ s < p => Covered(w, s)

LEMMA LaidWidened ==
    ASSUME NEW q, NEW S, NEW b \in Int, NEW c \in Int, NEW longest \in Int, NEW apart \in Int,
           Laid(q, S, b, longest, apart), q # <<>>, b <= c,
           NEW p \in Int, Last(q).past <= p, p <= c, p - Last(q).first <= longest
    PROVE  WidenedFits(Widened(q, p), q, p, S, c, longest, apart)
<1> DEFINE w == Widened(q, p)
           l == Len(q)
<1>1. q \in Seq(Stretch)
  BY DEF Laid
<1>2. l \in Nat /\ l >= 1 /\ l \in 1..l /\ Last(q) = q[l] /\ q[l] \in Stretch
  BY <1>1, LastIs
<1>3. /\ w \in Seq(Stretch) /\ Len(w) = l
      /\ \A i \in 1..l : i # l => w[i] = q[i]
      /\ w[l].first = q[l].first /\ w[l].past = p
  BY <1>1, WidenedIs
<1> HIDE DEF w, l
<1>4. Last(w) = w[l] /\ w # <<>>
  BY <1>2, <1>3 DEF Last
<1>5. w[l] \in Stretch
  BY <1>2, <1>3
<1>6. \A i \in 1..l : StretchFits(q[i], S, b, longest)
  BY DEF Laid, l
<1>7. ASSUME NEW i \in 1..l PROVE StretchFits(w[i], S, c, longest)
  <2>1. CASE i = l
    <3>1. StretchFits(q[l], S, b, longest)
      BY <1>2, <1>6
    <3>2. w[l].first = q[l].first /\ w[l].past = p /\ q[l].past <= p /\ p - q[l].first <= longest
      BY <1>2, <1>3
    <3>3. StretchFits(w[l], S, c, longest)
      BY <1>5, <3>1, <3>2, StretchWidened
    <3> QED BY <2>1, <3>3
  <2>2. CASE i # l
    BY <1>3, <1>6, <2>2, StretchStays
  <2> QED BY <2>1, <2>2
<1>8. \A i \in 2..l : Follows(q[i], q[i - 1], apart)
  BY DEF Laid, l
<1>9. ASSUME NEW i \in 2..l PROVE Follows(w[i], w[i - 1], apart)
  <2>1. i - 1 \in 1..l /\ i - 1 # l /\ i \in 1..l
    BY <1>2
  <2>2. w[i - 1] = q[i - 1] /\ w[i].first = q[i].first
    BY <1>3, <2>1
  <2> QED BY <1>8, <2>2 DEF Follows
<1>10. Laid(w, S, c, longest, apart)
  BY <1>3, <1>7, <1>9 DEF Laid
<1>11. ASSUME NEW s, s \in Int, Covered(q, s) PROVE Covered(w, s)
  <2>1. PICK i \in 1..l : HasSample(q[i], s)
    BY <1>11 DEF Covered, l
  <2>2. HasSample(w[i], s)
    <3>1. CASE i = l
      BY <1>2, <1>3, <1>11, <2>1, <3>1 DEF HasSample, Stretch
    <3>2. CASE i # l
      BY <1>3, <2>1, <3>2
    <3> QED BY <3>1, <3>2
  <2> QED BY <1>3, <2>2 DEF Covered
<1>12. ASSUME NEW s, Last(q).first <= s, s < p PROVE Covered(w, s)
  BY <1>2, <1>3, <1>12 DEF Covered, HasSample
<1> QED BY <1>2, <1>3, <1>4, <1>10, <1>11, <1>12 DEF w, WidenedFits

AppendedFits(w, q, r, S, c, longest, apart) ==
    /\ Laid(w, S, c, longest, apart) /\ w # <<>> /\ Last(w) = r
    /\ \A s : Covered(q, s) => Covered(w, s)
    /\ \A s : HasSample(r, s) => Covered(w, s)

LEMMA LaidAppend ==
    ASSUME NEW q, NEW S, NEW b \in Int, NEW c \in Int, NEW longest \in Int, NEW apart \in Int,
           Laid(q, S, b, longest, apart), b <= c,
           NEW r, StretchFits(r, S, c, longest), q # <<>> => Follows(r, Last(q), apart)
    PROVE  AppendedFits(Append(q, r), q, r, S, c, longest, apart)
<1> DEFINE w == Append(q, r)
           l == Len(q)
<1>1. q \in Seq(Stretch) /\ r \in Stretch
  BY DEF Laid, StretchFits
<1>2. /\ l \in Nat /\ w \in Seq(Stretch) /\ Len(w) = l + 1 /\ w[l + 1] = r /\ w # <<>>
      /\ \A i \in 1..l : w[i] = q[i]
  <2>1. l \in Nat /\ w \in Seq(Stretch) /\ Len(w) = l + 1 /\ w[l + 1] = r
    BY <1>1
  <2>2. \A i \in 1..l : w[i] = q[i]
    BY <1>1
  <2>3. w # <<>>
    BY <2>1
  <2> QED BY <2>1, <2>2, <2>3
<1>3. q # <<>> => l >= 1 /\ Last(q) = q[l]
  BY <1>1, LastIs
<1>4. q = <<>> => l = 0
  OBVIOUS
<1>5. /\ \A i \in 1..l : StretchFits(q[i], S, b, longest)
      /\ \A i \in 2..l : Follows(q[i], q[i - 1], apart)
  BY DEF Laid
<1> HIDE DEF w, l
<1>6. Last(w) = r
  BY <1>2 DEF Last
<1>7. ASSUME NEW i \in 1..(l + 1) PROVE StretchFits(w[i], S, c, longest)
  <2>1. CASE i = l + 1
    BY <1>2, <2>1
  <2>2. CASE i \in 1..l
    BY <1>2, <1>5, <2>2, StretchStays
  <2> QED BY <1>2, <2>1, <2>2
<1>8. ASSUME NEW i \in 2..(l + 1) PROVE Follows(w[i], w[i - 1], apart)
  <2>0. i - 1 \in 1..l
    BY <1>2
  <2>1. CASE i = l + 1
    <3>1. l >= 1 /\ q # <<>>
      BY <1>2, <1>4, <2>1
    <3> QED BY <1>2, <1>3, <2>0, <2>1, <3>1
  <2>2. CASE i \in 2..l
    <3>1. i \in 1..l
      BY <2>2
    <3> QED BY <1>2, <1>5, <2>0, <2>2, <3>1
  <2> QED BY <1>2, <2>1, <2>2
<1>9. Laid(w, S, c, longest, apart)
  BY <1>2, <1>7, <1>8 DEF Laid
<1>10. ASSUME NEW s, Covered(q, s) PROVE Covered(w, s)
  <2>1. PICK i \in 1..l : HasSample(q[i], s)
    BY <1>10 DEF Covered, l
  <2>2. i \in 1..(l + 1) /\ w[i] = q[i]
    BY <1>2
  <2> QED BY <1>2, <2>1, <2>2 DEF Covered
<1>11. ASSUME NEW s, HasSample(r, s) PROVE Covered(w, s)
  <2>1. l + 1 \in 1..(l + 1)
    BY <1>2
  <2> QED BY <1>2, <1>11, <2>1 DEF Covered
<1> QED BY <1>2, <1>6, <1>9, <1>10, <1>11 DEF w, AppendedFits

\* The detector, one sample: what it has found goes on to cover the speech up to there.
RegionsFit(q, S, n) ==
    /\ Laid(q, S, n, MaxRegion, 0)
    /\ \A s \in S : s < n => Covered(q, s)

LEMMA DetectFits ==
    ASSUME NEW S, S \in SUBSET (0..(Samples - 1)), NEW n \in Nat, NEW q, RegionsFit(q, S, n)
    PROVE  RegionsFit(Detect(q, S, n), S, n + 1)
<1>1. n + 1 \in Int /\ n \in Int /\ MaxRegion \in Int /\ MaxRegion >= 1 /\ 0 \in Int /\ n <= n + 1
  BY ChunkAssumption
<1>2. Laid(q, S, n, MaxRegion, 0) /\ q \in Seq(Stretch)
  BY DEF RegionsFit, Laid
<1>3. \A s \in S : s \in Int /\ (s < n + 1 => s < n \/ s = n)
  OBVIOUS
<1>4. CASE n \notin S
  <2>1. Detect(q, S, n) = q
    BY <1>4 DEF Detect
  <2>2. Laid(q, S, n + 1, MaxRegion, 0)
    BY <1>1, <1>2, StretchStays DEF Laid
  <2>3. \A s \in S : s < n + 1 => Covered(q, s)
    BY <1>3, <1>4 DEF RegionsFit
  <2> QED BY <2>1, <2>2, <2>3 DEF RegionsFit
<1>5. CASE n \in S /\ q # <<>> /\ Last(q).past = n /\ n - Last(q).first < MaxRegion
  <2>1. Detect(q, S, n) = Widened(q, n + 1)
    BY <1>5 DEF Detect
  <2>2. Last(q) \in Stretch
    BY <1>2, <1>5, LastIs
  <2>3. Last(q).first \in Int /\ Last(q).past \in Int
    BY <2>2 DEF Stretch
  <2>4. Last(q).past <= n + 1 /\ n + 1 - Last(q).first <= MaxRegion /\ n + 1 <= n + 1
    BY <1>1, <1>5, <2>3
  <2>5. /\ Laid(Widened(q, n + 1), S, n + 1, MaxRegion, 0)
        /\ \A s : Covered(q, s) /\ s \in Int => Covered(Widened(q, n + 1), s)
        /\ \A s : Last(q).first <= s /\ s < n + 1 => Covered(Widened(q, n + 1), s)
    <3>1. q # <<>> /\ Laid(q, S, n, MaxRegion, 0)
      BY <1>2, <1>5
    <3>2. ASSUME NEW p \in Int, p = n + 1 PROVE WidenedFits(Widened(q, p), q, p, S, p, MaxRegion, 0)
      <4>1. Last(q).past <= p /\ p - Last(q).first <= MaxRegion /\ p <= p /\ n <= p
        BY <1>1, <2>3, <2>4, <3>2
      <4> QED BY <1>1, <3>1, <3>2, <4>1, LaidWidened, Zenon
    <3>3. WidenedFits(Widened(q, n + 1), q, n + 1, S, n + 1, MaxRegion, 0)
      BY <1>1, <3>2
    <3> QED BY <3>3 DEF WidenedFits
  <2>6. Last(q).first < Last(q).past
    BY <1>2, <1>5, LastIs DEF Laid, StretchFits
  <2>7. Last(q).first <= n
    BY <1>5, <2>3, <2>6
  <2>8. n < n + 1
    OBVIOUS
  <2>9. ASSUME NEW s \in S, s < n + 1 PROVE Covered(Widened(q, n + 1), s)
    <3>1. CASE s < n
      BY <1>3, <2>5, <3>1 DEF RegionsFit
    <3>2. CASE s = n
      BY <2>5, <2>7, <2>8, <3>2
    <3> QED BY <1>3, <2>9, <3>1, <3>2
  <2> QED BY <2>1, <2>5, <2>9 DEF RegionsFit
<1>6. CASE n \in S /\ ~ (q # <<>> /\ Last(q).past = n /\ n - Last(q).first < MaxRegion)
  <2> DEFINE r == [first |-> n, past |-> n + 1]
  <2>1. Detect(q, S, n) = Append(q, r)
    BY <1>6 DEF Detect
  <2>2. StretchFits(r, S, n + 1, MaxRegion) /\ r.first = n
    BY <1>1, <1>6 DEF StretchFits, Stretch
  <2>3. q # <<>> => Follows(r, Last(q), 0)
    <3> SUFFICES ASSUME q # <<>> PROVE Follows(r, Last(q), 0)
      OBVIOUS
    <3>1. StretchFits(Last(q), S, n, MaxRegion)
      BY <1>2, LastIs DEF Laid
    <3> QED BY <2>2, <3>1 DEF StretchFits, Stretch, Follows
  <2>4. HasSample(r, n)
    BY DEF HasSample
  <2> HIDE DEF r
  <2>5. /\ Laid(Append(q, r), S, n + 1, MaxRegion, 0)
        /\ \A s : Covered(q, s) => Covered(Append(q, r), s)
        /\ \A s : HasSample(r, s) => Covered(Append(q, r), s)
    <3>1. AppendedFits(Append(q, r), q, r, S, n + 1, MaxRegion, 0)
      BY <1>1, <1>2, <2>2, <2>3, LaidAppend, Zenon
    <3> QED BY <3>1 DEF AppendedFits
  <2>6. ASSUME NEW s \in S, s < n + 1 PROVE Covered(Append(q, r), s)
    BY <1>3, <2>4, <2>5, <2>6 DEF RegionsFit
  <2> QED BY <2>1, <2>5, <2>6 DEF RegionsFit
<1> QED BY <1>4, <1>5, <1>6

DetectChain(f, S) == f = [n \in 0..Samples |-> IF n = 0 THEN <<>> ELSE Detect(f[n - 1], S, n - 1)]

LEMMA DetectChainExists == ASSUME NEW S PROVE \E f : DetectChain(f, S)
<1> DEFINE m == Samples
           Q == Seq(Stretch)
           step == [p \in Q \X (1..m) |-> Detect(p[1], S, p[2] - 1)]
<1>1. m \in Nat /\ <<>> \in Q
  BY ChunkAssumption
<1>2. ASSUME NEW q \in Q, NEW n \in 1..m PROVE Detect(q, S, n - 1) \in Q
  <2>1. n \in Int /\ n - 1 \in Int /\ (n - 1) + 1 \in Int
    BY <1>1
  <2>2. [first |-> n - 1, past |-> (n - 1) + 1] \in Stretch
    BY <2>1 DEF Stretch
  <2>3. Append(q, [first |-> n - 1, past |-> (n - 1) + 1]) \in Q
    BY <2>2
  <2>4. q # <<>> => Widened(q, (n - 1) + 1) \in Q
    BY <2>1, WidenedIs
  <2> QED BY <2>3, <2>4 DEF Detect
<1>3. IsStep(step, Q, m)
  <2> HIDE DEF m, Q
  <2> QED BY <1>2 DEF IsStep
<1>4. PICK f : f \in [0..m -> Q] /\ f[0] = <<>> /\ \A n \in 1..m : f[n] = step[<<f[n - 1], n>>]
  <2> HIDE DEF step, m, Q
  <2>1. PICK f : IsChain(f, Q, <<>>, step, m)
    BY <1>1, <1>3, ChainExists, Zenon
  <2> QED BY <2>1 DEF IsChain
<1>5. ASSUME NEW n \in 1..m PROVE f[n] = Detect(f[n - 1], S, n - 1)
  <2>1. n - 1 \in 0..m
    BY <1>1, <1>5
  <2>2. f[n - 1] \in Q
    BY <1>4, <2>1
  <2> QED BY <1>4, <2>2
<1>6. f = [n \in 0..m |-> IF n = 0 THEN <<>> ELSE Detect(f[n - 1], S, n - 1)]
  <2>1. \A n \in 0..m : f[n] = IF n = 0 THEN <<>> ELSE Detect(f[n - 1], S, n - 1)
    BY <1>1, <1>4, <1>5
  <2>2. f = [n \in 0..m |-> f[n]]
    BY <1>4
  <2> HIDE DEF step, m
  <2> QED BY <2>1, <2>2
<1> QED BY <1>6 DEF DetectChain

LEMMA RegionsAreFit ==
    ASSUME NEW S, S \in SUBSET (0..(Samples - 1)) PROVE RegionsFit(Regions(S), S, Samples)
<1> DEFINE f == CHOOSE g : DetectChain(g, S)
           G == {n \in Nat : n <= Samples => RegionsFit(f[n], S, n)}
<1>1. Regions(S) = f[Samples]
  BY DEF Regions, DetectChain
<1>2. DetectChain(f, S)
  BY DetectChainExists
<1> HIDE DEF f
<1>3. Samples \in Nat
  BY ChunkAssumption
<1>4. f[0] = <<>> /\ \A n \in 1..Samples : f[n] = Detect(f[n - 1], S, n - 1)
  BY <1>2, <1>3 DEF DetectChain
<1>5. 0 \in G
  <2>1. RegionsFit(<<>>, S, 0)
    BY DEF RegionsFit, Laid
  <2> QED BY <1>4, <2>1
<1>6. ASSUME NEW n \in Nat, n < Samples, n \in G PROVE n + 1 \in G
  <2>1. RegionsFit(f[n], S, n) /\ n + 1 \in 1..Samples /\ (n + 1) - 1 = n
    BY <1>3, <1>6
  <2>2. f[n + 1] = Detect(f[n], S, n)
    BY <1>4, <2>1
  <2>3. RegionsFit(f[n + 1], S, n + 1)
    BY <2>1, <2>2, DetectFits
  <2> QED BY <2>3
<1>7. Samples \in G
  <2> HIDE DEF G
  <2>1. \A n \in 0..Samples : n \in G
    BY <1>3, <1>5, <1>6, CountUp
  <2> QED BY <1>3, <2>1
<1> QED BY <1>1, <1>3, <1>7

\* The ranges of the first n regions: the last ends where the last region does.
RangesFit(q, S, R, n) ==
    /\ Laid(q, S, Samples, MaxRange, 2 * Padding)
    /\ n = 0 => q = <<>>
    /\ n > 0 => q # <<>> /\ Last(q).past = R[n].past
    /\ \A i \in 1..n, s \in Int : HasSample(R[i], s) => Covered(q, s)

LEMMA AddRegionFits ==
    ASSUME NEW S, NEW R, Laid(R, S, Samples, MaxRegion, 0), NEW n \in Nat, n < Len(R),
           NEW q, RangesFit(q, S, R, n)
    PROVE  RangesFit(AddRegion(q, R[n + 1]), S, R, n + 1)
<1> DEFINE r == R[n + 1]
<1>1. /\ Samples \in Int /\ MaxRange \in Int /\ MaxRegion \in Int /\ MaxGap \in Int /\ Padding \in Int
      /\ 2 * Padding \in Int /\ Samples <= Samples
      /\ MaxRegion <= MaxRange /\ 2 * Padding <= MaxGap + 1 /\ 2 * Padding <= MaxRange - MaxRegion + 1
  BY ChunkAssumption
<1>2. Laid(q, S, Samples, MaxRange, 2 * Padding) /\ q \in Seq(Stretch)
  BY DEF RangesFit, Laid
<1>3. StretchFits(r, S, Samples, MaxRegion) /\ r.first \in Int /\ r.past \in Int
  <2>1. n + 1 \in 1..Len(R)
    BY DEF Laid
  <2>2. StretchFits(r, S, Samples, MaxRegion)
    BY <2>1 DEF Laid
  <2> QED BY <2>2 DEF StretchFits, Stretch
<1>4. q # <<>> => Last(q).first \in Int /\ Last(q).past \in Int /\ Last(q).first < Last(q).past
  <2> SUFFICES ASSUME q # <<>> PROVE Last(q).first \in Int /\ Last(q).past \in Int /\ Last(q).first < Last(q).past
    OBVIOUS
  <2>1. StretchFits(Last(q), S, Samples, MaxRange)
    BY <1>2, LastIs DEF Laid
  <2> QED BY <2>1 DEF StretchFits, Stretch
<1>5. n > 0 => q # <<>> /\ Last(q).past <= r.first
  <2> SUFFICES ASSUME n > 0 PROVE q # <<>> /\ Last(q).past <= r.first
    OBVIOUS
  <2>1. n + 1 \in 2..Len(R) /\ (n + 1) - 1 = n
    BY DEF Laid
  <2>2. Follows(R[n + 1], R[n], 0)
    BY <2>1 DEF Laid
  <2> QED BY <2>2 DEF Follows, RangesFit
<1>6. q # <<>> => n > 0
  BY DEF RangesFit
<1>7. \A i \in 1..(n + 1) : i \in 1..n \/ i = n + 1
  OBVIOUS
<1>8. CASE q # <<>> /\ n > 0 /\ r.past - Last(q).first <= MaxRange /\ r.first - Last(q).past <= MaxGap
  <2>1. Larger(Last(q).past, r.past) = r.past /\ Last(q).past <= r.past
    BY <1>3, <1>4, <1>5, <1>8 DEF Larger, StretchFits
  <2>2. AddRegion(q, r) = Widened(q, r.past)
    BY <1>8, <2>1 DEF AddRegion
  <2>3. r.past <= Samples /\ q # <<>> /\ r.past - Last(q).first <= MaxRange /\ Last(q).past <= r.first
    BY <1>3, <1>5, <1>8 DEF StretchFits
  <2> HIDE DEF r
  <2>4. WidenedFits(Widened(q, r.past), q, r.past, S, Samples, MaxRange, 2 * Padding)
    BY <1>1, <1>2, <1>3, <2>1, <2>3, LaidWidened, Zenon
  <2>5. ASSUME NEW i \in 1..(n + 1), NEW s \in Int, HasSample(R[i], s) PROVE Covered(Widened(q, r.past), s)
    <3>1. CASE i \in 1..n
      <4>1. Covered(q, s)
        BY <2>5, <3>1 DEF RangesFit
      <4> QED BY <2>4, <4>1 DEF WidenedFits
    <3>2. CASE i = n + 1
      <4>1. r.first <= s /\ s < r.past
        BY <2>5, <3>2 DEF HasSample, r
      <4>2. Last(q).first <= s
        BY <1>3, <1>4, <2>3, <4>1
      <4> QED BY <2>4, <4>1, <4>2 DEF WidenedFits
    <3> QED BY <1>7, <3>1, <3>2
  <2>6. RangesFit(Widened(q, r.past), S, R, n + 1)
    <3>1. r = R[n + 1]
      BY DEF r
    <3> QED BY <2>4, <2>5, <3>1 DEF RangesFit, WidenedFits
  <2> QED BY <2>2, <2>6 DEF r
<1>9. CASE ~ (q # <<>> /\ r.past - Last(q).first <= MaxRange /\ r.first - Last(q).past <= MaxGap)
  <2>1. AddRegion(q, r) = Append(q, r)
    BY <1>9 DEF AddRegion
  <2>2. StretchFits(r, S, Samples, MaxRange)
    BY <1>1, <1>3 DEF StretchFits
  <2>3. q # <<>> => Follows(r, Last(q), 2 * Padding)
    <3> SUFFICES ASSUME q # <<>> PROVE Follows(r, Last(q), 2 * Padding)
      OBVIOUS
    <3>1. Last(q).past <= r.first /\ Last(q).first < Last(q).past
      BY <1>4, <1>5, <1>6
    <3>2. r.past - r.first <= MaxRegion
      BY <1>3 DEF StretchFits
    <3>3. r.past - Last(q).first > MaxRange \/ r.first - Last(q).past > MaxGap
      BY <1>1, <1>3, <1>4, <1>9
    <3> HIDE DEF r
    <3>4. Last(q).first + 2 * Padding <= r.first
      BY <1>1, <1>3, <1>4, <3>1, <3>2, <3>3
    <3> QED BY <3>1, <3>4 DEF Follows
  <2> HIDE DEF r
  <2>4. AppendedFits(Append(q, r), q, r, S, Samples, MaxRange, 2 * Padding)
    BY <1>1, <1>2, <2>2, <2>3, LaidAppend, Zenon
  <2>5. ASSUME NEW i \in 1..(n + 1), NEW s \in Int, HasSample(R[i], s) PROVE Covered(Append(q, r), s)
    <3>1. CASE i \in 1..n
      <4>1. Covered(q, s)
        BY <2>5, <3>1 DEF RangesFit
      <4> QED BY <2>4, <4>1 DEF AppendedFits
    <3>2. CASE i = n + 1
      BY <2>4, <2>5, <3>2 DEF AppendedFits, r
    <3> QED BY <1>7, <3>1, <3>2
  <2>6. RangesFit(Append(q, r), S, R, n + 1)
    <3>1. r = R[n + 1]
      BY DEF r
    <3> QED BY <2>4, <2>5, <3>1 DEF RangesFit, AppendedFits
  <2> QED BY <2>1, <2>6 DEF r
<1> QED BY <1>6, <1>8, <1>9

BuildChain(f, R) == f = [n \in 0..Len(R) |-> IF n = 0 THEN <<>> ELSE AddRegion(f[n - 1], R[n])]

LEMMA BuildChainExists == ASSUME NEW R \in Seq(Stretch) PROVE \E f : BuildChain(f, R)
<1> DEFINE m == Len(R)
           Q == Seq(Stretch)
           step == [p \in Q \X (1..m) |-> AddRegion(p[1], R[p[2]])]
<1>1. m \in Nat /\ <<>> \in Q
  OBVIOUS
<1>2. ASSUME NEW q \in Q, NEW n \in 1..m PROVE AddRegion(q, R[n]) \in Q
  <2>1. R[n] \in Stretch
    OBVIOUS
  <2>2. Append(q, R[n]) \in Q
    BY <2>1
  <2>3. ASSUME q # <<>> PROVE Widened(q, Larger(Last(q).past, R[n].past)) \in Q
    <3>1. Last(q) \in Stretch
      BY <2>3, LastIs
    <3>2. Larger(Last(q).past, R[n].past) \in Int
      BY <2>1, <3>1 DEF Larger, Stretch
    <3> QED BY <2>3, <3>2, WidenedIs
  <2> QED BY <2>2, <2>3 DEF AddRegion
<1>3. IsStep(step, Q, m)
  <2> HIDE DEF m, Q
  <2> QED BY <1>2 DEF IsStep
<1>4. PICK f : f \in [0..m -> Q] /\ f[0] = <<>> /\ \A n \in 1..m : f[n] = step[<<f[n - 1], n>>]
  <2> HIDE DEF step, m, Q
  <2>1. PICK f : IsChain(f, Q, <<>>, step, m)
    BY <1>1, <1>3, ChainExists, Zenon
  <2> QED BY <2>1 DEF IsChain
<1>5. ASSUME NEW n \in 1..m PROVE f[n] = AddRegion(f[n - 1], R[n])
  <2>1. n - 1 \in 0..m
    BY <1>1, <1>5
  <2>2. f[n - 1] \in Q
    BY <1>4, <2>1
  <2> QED BY <1>4, <2>2
<1>6. f = [n \in 0..m |-> IF n = 0 THEN <<>> ELSE AddRegion(f[n - 1], R[n])]
  <2>1. \A n \in 0..m : f[n] = IF n = 0 THEN <<>> ELSE AddRegion(f[n - 1], R[n])
    BY <1>1, <1>4, <1>5
  <2>2. f = [n \in 0..m |-> f[n]]
    BY <1>4
  <2> HIDE DEF step, m
  <2> QED BY <2>1, <2>2
<1> QED BY <1>6 DEF BuildChain

LEMMA BuiltFits ==
    ASSUME NEW S, NEW R, Laid(R, S, Samples, MaxRegion, 0)
    PROVE  RangesFit(BuildSmartRanges(R), S, R, Len(R))
<1> DEFINE m == Len(R)
           f == CHOOSE g : BuildChain(g, R)
           G == {n \in Nat : n <= m => RangesFit(f[n], S, R, n)}
<1>1. BuildSmartRanges(R) = f[m] /\ R \in Seq(Stretch)
  BY DEF BuildSmartRanges, BuildChain, Laid
<1>2. BuildChain(f, R)
  BY <1>1, BuildChainExists
<1> HIDE DEF f
<1>3. m \in Nat
  BY <1>1
<1>4. f[0] = <<>> /\ \A n \in 1..m : f[n] = AddRegion(f[n - 1], R[n])
  BY <1>2, <1>3 DEF BuildChain
<1>5. 0 \in G
  <2>1. RangesFit(<<>>, S, R, 0)
    BY DEF RangesFit, Laid
  <2> QED BY <1>4, <2>1
<1>6. ASSUME NEW n \in Nat, n < m, n \in G PROVE n + 1 \in G
  <2>1. RangesFit(f[n], S, R, n) /\ n + 1 \in 1..m /\ (n + 1) - 1 = n
    BY <1>3, <1>6
  <2>2. f[n + 1] = AddRegion(f[n], R[n + 1])
    BY <1>4, <2>1
  <2>3. RangesFit(f[n + 1], S, R, n + 1)
    BY <1>6, <2>1, <2>2, AddRegionFits
  <2> QED BY <2>3
<1>7. m \in G
  <2> HIDE DEF G, m
  <2>1. \A n \in 0..m : n \in G
    BY <1>3, <1>5, <1>6, CountUp
  <2> QED BY <1>3, <2>1
<1> QED BY <1>1, <1>3, <1>7

\* A chunk holds its range, reaches no further than the padding, and is not too long; what was
\* trimmed is long.
PaddedFits(c, r) ==
    /\ c \in Stretch /\ 0 <= c.first /\ c.first <= r.first /\ r.past <= c.past /\ c.past <= Samples
    /\ r.first - Padding <= c.first /\ c.past <= r.past + Padding /\ c.past - c.first <= MaxFinal
    /\ c.past = Samples \/ c.past = r.past + Padding \/ r.past - r.first >= MaxRange - Padding + 1

LEMMA PaddingFits ==
    ASSUME NEW q, NEW S, Laid(q, S, Samples, MaxRange, 2 * Padding)
    PROVE  /\ ApplyEdgePadding(q) \in Seq(Stretch) /\ Len(ApplyEdgePadding(q)) = Len(q)
           /\ \A i \in 1..Len(q) : PaddedFits(ApplyEdgePadding(q)[i], q[i])
<1> DEFINE c == ApplyEdgePadding(q)
<1>1. q \in Seq(Stretch) /\ DOMAIN q = 1..Len(q) /\ Len(q) \in Nat
  BY DEF Laid
<1>2. /\ Samples \in Int /\ MaxRange \in Int /\ Padding \in Int /\ MaxFinal \in Int /\ 0 <= Padding
      /\ MaxRange + Padding <= MaxFinal
  BY ChunkAssumption
<1>3. ASSUME NEW i \in 1..Len(q) PROVE c[i] \in Stretch /\ PaddedFits(c[i], q[i])
  <2> DEFINE r == q[i]
             first == Larger(0, r.first - Padding)
             past == Smaller(Samples, r.past + Padding)
             overflow == Larger(0, (past - first) - MaxFinal)
             half == overflow \div 2
             x == first + half
             y == past - (overflow - half)
  <2>1. c[i] = [first |-> x, past |-> y]
    BY <1>1 DEF ApplyEdgePadding
  <2>2. StretchFits(r, S, Samples, MaxRange)
    BY DEF Laid
  <2> HIDE DEF r
  <2>3. /\ r.first \in Int /\ r.past \in Int /\ 0 <= r.first /\ r.first < r.past /\ r.past <= Samples
        /\ r.past - r.first <= MaxRange
    BY <2>2 DEF StretchFits, Stretch
  <2>4. first \in Int /\ 0 <= first /\ first <= r.first /\ r.first - Padding <= first
    BY <1>2, <2>3 DEF Larger
  <2>5. past \in Int /\ past <= Samples /\ r.past <= past /\ past <= r.past + Padding
        /\ (past = Samples \/ past = r.past + Padding)
    BY <1>2, <2>3 DEF Smaller
  <2> HIDE DEF first, past
  <2>6. overflow \in Int /\ overflow >= 0 /\ overflow >= (past - first) - MaxFinal
        /\ (overflow = 0 \/ overflow = (past - first) - MaxFinal)
    BY <1>2, <2>4, <2>5 DEF Larger
  <2> HIDE DEF overflow
  <2>7. half \in Int /\ 0 <= half /\ half <= overflow
    BY <2>6
  <2> HIDE DEF half
  <2> DEFINE a == r.first
             b == r.past
  <2>a. a \in Int /\ b \in Int /\ a < b /\ b - a <= MaxRange /\ first <= a /\ a - Padding <= first
        /\ b <= past /\ past <= b + Padding
    BY <2>3, <2>4, <2>5
  <2> HIDE DEF a, b
  <2>b. past - a <= MaxFinal /\ b - first <= MaxFinal
    BY <1>2, <2>4, <2>5, <2>a
  <2>c. overflow <= a - first /\ overflow <= past - b
    <3>1. (past - first) - MaxFinal <= a - first
      BY <1>2, <2>4, <2>5, <2>a, <2>b
    <3>2. (past - first) - MaxFinal <= past - b
      BY <1>2, <2>4, <2>5, <2>a, <2>b
    <3>3. 0 <= a - first /\ 0 <= past - b
      BY <2>4, <2>5, <2>a
    <3> QED BY <2>6, <3>1, <3>2, <3>3
  <2>8. overflow <= r.first - first /\ overflow <= past - r.past
    BY <2>c DEF a, b
  <2>9. x \in Int /\ first <= x /\ x <= r.first /\ y \in Int /\ r.past <= y /\ y <= past /\ y - x <= MaxFinal
    <3>1. x \in Int /\ first <= x /\ x <= r.first
      BY <2>3, <2>4, <2>6, <2>7, <2>8
    <3>2. y \in Int /\ r.past <= y /\ y <= past
      BY <2>3, <2>5, <2>6, <2>7, <2>8
    <3>3. y - x = (past - first) - overflow
      BY <2>4, <2>5, <2>6, <2>7
    <3> HIDE DEF x, y
    <3>4. y - x <= MaxFinal
      BY <1>2, <2>4, <2>5, <2>6, <3>3
    <3> QED BY <3>1, <3>2, <3>4
  <2>10. y = past \/ r.past - r.first >= MaxRange - Padding + 1
    <3>1. CASE overflow = 0
      <4>1. half = 0
        BY <2>7, <3>1
      <4> QED BY <2>5, <3>1, <4>1
    <3>2. CASE overflow # 0
      <4>1. (past - first) - MaxFinal >= 1
        BY <2>6, <3>2
      <4>2. b - a >= MaxRange - Padding + 1
        BY <1>2, <2>4, <2>5, <2>a, <4>1
      <4> QED BY <4>2 DEF a, b
    <3> QED BY <3>1, <3>2
  <2> HIDE DEF x, y
  <2>11. [first |-> x, past |-> y] \in Stretch
    BY <2>9 DEF Stretch
  <2>12. PaddedFits([first |-> x, past |-> y], r)
    <3> DEFINE d == [first |-> x, past |-> y]
    <3>1. d.first = x /\ d.past = y /\ d \in Stretch
      BY <2>11
    <3>2. 0 <= x /\ y <= Samples /\ r.first - Padding <= x /\ y <= r.past + Padding
      <4>1. 0 <= x
        BY <2>4, <2>9
      <4>2. y <= Samples
        BY <1>2, <2>5, <2>9
      <4>3. a - Padding <= x
        BY <1>2, <2>4, <2>9, <2>a
      <4>4. y <= b + Padding
        BY <1>2, <2>5, <2>9, <2>a
      <4> QED BY <4>1, <4>2, <4>3, <4>4 DEF a, b
    <3>3. y = Samples \/ y = r.past + Padding \/ r.past - r.first >= MaxRange - Padding + 1
      BY <2>5, <2>10
    <3> HIDE DEF d
    <3> QED BY <2>9, <3>1, <3>2, <3>3 DEF PaddedFits, d
  <2> QED BY <2>1, <2>11, <2>12 DEF r
<1>4. c = [i \in 1..Len(q) |-> c[i]]
  BY <1>1 DEF ApplyEdgePadding
<1>5. c \in Seq(Stretch) /\ Len(c) = Len(q)
  <2> HIDE DEF c
  <2> QED BY <1>1, <1>3, <1>4
<1> QED BY <1>3, <1>5

\* What is transcribed: chunks in order that hold all speech; only neighbours overlap.
ChunkFits(c, S) ==
    /\ 0 <= c.first /\ c.past <= Samples /\ c.past - c.first \in 1..MaxFinal
    /\ \E s \in S : HasSample(c, s)

Overlaps(c, b) == b.first <= c.first /\ b.past <= c.past /\ b.past - c.first <= 2 * Padding

ChunksFit(cs, S) ==
    /\ cs \in Seq(Stretch)
    /\ \A i \in 1..Len(cs) : ChunkFits(cs[i], S)
    /\ \A i \in 2..Len(cs) : Overlaps(cs[i], cs[i - 1])
    /\ \A i \in 3..Len(cs) : cs[i - 2].past <= cs[i].first
    /\ \A s \in S : Covered(cs, s)

LEMMA PaddedOverlap ==
    ASSUME NEW c, NEW r, NEW b, NEW p, PaddedFits(c, r), PaddedFits(b, p), Follows(r, p, 2 * Padding),
           r \in Stretch, p \in Stretch, r.first < r.past, p.first < p.past
    PROVE  Overlaps(c, b)
<1>1. /\ Samples \in Int /\ MaxRange \in Int /\ Padding \in Int /\ MaxRegion \in Int /\ MaxRegion >= 1 /\ 0 <= Padding
      /\ 2 * Padding <= MaxRange - MaxRegion + 1
  BY ChunkAssumption
<1>2. /\ c.first \in Int /\ c.past \in Int /\ r.first \in Int /\ r.past \in Int
      /\ b.first \in Int /\ b.past \in Int /\ p.first \in Int /\ p.past \in Int
  BY DEF PaddedFits, Stretch
<1>3. c.first >= r.first - Padding /\ r.past <= c.past /\ b.first <= p.first /\ b.past <= p.past + Padding /\ b.past <= Samples
  BY DEF PaddedFits
<1>4. c.past = Samples \/ c.past = r.past + Padding \/ r.past - r.first >= MaxRange - Padding + 1
  BY DEF PaddedFits
<1>5. p.past <= r.first /\ p.first + 2 * Padding <= r.first
  BY DEF Follows
<1>6. b.past <= c.past
  BY <1>1, <1>2, <1>3, <1>4, <1>5
<1>7. b.first <= c.first /\ b.past - c.first <= 2 * Padding
  BY <1>1, <1>2, <1>3, <1>5
<1> QED BY <1>6, <1>7 DEF Overlaps

LEMMA PaddedHolds ==
    ASSUME NEW c, NEW r, PaddedFits(c, r), r \in Stretch, NEW s \in Int, HasSample(r, s)
    PROVE  HasSample(c, s)
BY DEF PaddedFits, Stretch, HasSample

LEMMA CutFits ==
    ASSUME NEW S, S \in SUBSET (0..(Samples - 1))
    PROVE  /\ ChunksFit(ApplyEdgePadding(BuildSmartRanges(Regions(S))), S)
           /\ S # {} => ApplyEdgePadding(BuildSmartRanges(Regions(S))) # <<>>
<1> DEFINE R == Regions(S)
           q == BuildSmartRanges(R)
           cs == ApplyEdgePadding(q)
<1>1. RegionsFit(R, S, Samples) /\ Laid(R, S, Samples, MaxRegion, 0)
  BY RegionsAreFit DEF RegionsFit
<1>2. RangesFit(q, S, R, Len(R))
  BY <1>1, BuiltFits
<1> HIDE DEF q, R
<1>3. /\ Laid(q, S, Samples, MaxRange, 2 * Padding) /\ q \in Seq(Stretch) /\ Len(q) \in Nat
      /\ \A i \in 1..Len(q) : q[i] \in Stretch /\ q[i].first \in Int /\ q[i].past \in Int
                              /\ q[i].first < q[i].past /\ q[i].first \in S
  BY <1>2 DEF RangesFit, Laid, StretchFits, Stretch
<1>4. /\ cs \in Seq(Stretch) /\ Len(cs) = Len(q)
      /\ \A i \in 1..Len(q) : PaddedFits(cs[i], q[i])
  BY <1>3, PaddingFits
<1> HIDE DEF cs
<1>5. ASSUME NEW i \in 1..Len(q) PROVE ChunkFits(cs[i], S)
  <2>1. /\ cs[i].first \in Int /\ cs[i].past \in Int /\ 0 <= cs[i].first /\ cs[i].past <= Samples
        /\ cs[i].past - cs[i].first <= MaxFinal /\ cs[i].first <= q[i].first /\ q[i].past <= cs[i].past
    BY <1>4 DEF PaddedFits, Stretch
  <2>2. MaxFinal \in Int
    BY ChunkAssumption
  <2>3. cs[i].past - cs[i].first \in 1..MaxFinal
    BY <1>3, <2>1, <2>2
  <2>4. HasSample(cs[i], q[i].first) /\ q[i].first \in S
    BY <1>3, <2>1 DEF HasSample
  <2> QED BY <2>1, <2>3, <2>4 DEF ChunkFits
<1>6. ASSUME NEW i \in 2..Len(q) PROVE Overlaps(cs[i], cs[i - 1])
  <2>1. i \in 1..Len(q) /\ i - 1 \in 1..Len(q)
    BY <1>3
  <2>2. Follows(q[i], q[i - 1], 2 * Padding)
    BY <1>3 DEF Laid
  <2> QED BY <1>3, <1>4, <2>1, <2>2, PaddedOverlap
<1>7. ASSUME NEW i \in 3..Len(q) PROVE cs[i - 2].past <= cs[i].first
  <2>1. i \in 2..Len(q) /\ i - 1 \in 2..Len(q) /\ (i - 1) - 1 = i - 2
    BY <1>3
  <2>2. i \in 1..Len(q) /\ i - 1 \in 1..Len(q) /\ i - 2 \in 1..Len(q)
    BY <1>3
  <2>3. Follows(q[i], q[i - 1], 2 * Padding) /\ Follows(q[i - 1], q[i - 2], 2 * Padding)
    BY <1>3, <2>1 DEF Laid
  <2>4. cs[i - 2].past <= q[i - 2].past + Padding /\ q[i].first - Padding <= cs[i].first
        /\ cs[i - 2].past \in Int /\ cs[i].first \in Int
    BY <1>4, <2>2 DEF PaddedFits, Stretch
  <2>5. q[i - 2].past <= q[i - 1].first /\ q[i - 1].first + 2 * Padding <= q[i].first
    BY <2>3 DEF Follows
  <2>6. Padding \in Int /\ q[i - 2].past \in Int /\ q[i - 1].first \in Int /\ q[i].first \in Int
    BY <1>3, <2>2, ChunkAssumption
  <2> DEFINE a == cs[i - 2].past
             b == q[i - 2].past
             d == q[i - 1].first
             e == q[i].first
             f == cs[i].first
  <2>7. a \in Int /\ b \in Int /\ d \in Int /\ e \in Int /\ f \in Int /\ a <= b + Padding /\ b <= d
        /\ d + 2 * Padding <= e /\ e - Padding <= f
    BY <2>4, <2>5, <2>6
  <2> HIDE DEF a, b, d, e, f
  <2>8. a <= f
    BY <2>6, <2>7
  <2> QED BY <2>8 DEF a, f
<1>8. ASSUME NEW s \in S PROVE Covered(cs, s) /\ cs # <<>>
  <2>1. s \in Int /\ s < Samples
    BY ChunkAssumption
  <2>2. Covered(R, s)
    BY <1>1, <2>1 DEF RegionsFit
  <2>3. Covered(q, s)
    BY <1>2, <2>1, <2>2 DEF RangesFit, Covered
  <2>4. PICK i \in 1..Len(q) : HasSample(q[i], s)
    BY <2>3 DEF Covered
  <2>5. HasSample(cs[i], s)
    BY <1>3, <1>4, <2>1, <2>4, PaddedHolds
  <2> QED BY <1>3, <1>4, <2>4, <2>5 DEF Covered
<1>9. ChunksFit(cs, S)
  BY <1>4, <1>5, <1>6, <1>7, <1>8 DEF ChunksFit
<1>10. S # {} => cs # <<>>
  BY <1>8
<1> QED BY <1>9, <1>10 DEF cs, q, R

Taped == speech \in SUBSET (0..(Samples - 1)) /\ voiced \in [1..Samples -> Int]

HearChain(f, a) ==
    f = [n \in 0..Samples |->
           IF n <= a THEN <<>>
           ELSE IF n - 1 \in speech THEN Append(f[n - 1], voiced[n]) ELSE f[n - 1]]

LEMMA HearChainExists == ASSUME Taped, NEW a \in Nat PROVE \E f : HearChain(f, a) /\ f \in [0..Samples -> Seq(Int)]
<1> DEFINE m == Samples
           Q == Seq(Int)
           After(q, n) == IF n <= a THEN <<>> ELSE IF n - 1 \in speech THEN Append(q, voiced[n]) ELSE q
           step == [p \in Q \X (1..m) |-> After(p[1], p[2])]
<1>1. m \in Nat /\ <<>> \in Q /\ \A n \in 1..m : voiced[n] \in Int
  BY ChunkAssumption DEF Taped
<1>2. \A q \in Q, n \in 1..m : After(q, n) \in Q
  BY <1>1
<1>3. IsStep(step, Q, m)
  <2> HIDE DEF m, Q, After
  <2> QED BY <1>2 DEF IsStep
<1>4. PICK f : f \in [0..m -> Q] /\ f[0] = <<>> /\ \A n \in 1..m : f[n] = step[<<f[n - 1], n>>]
  <2> HIDE DEF step, m, Q
  <2>1. PICK f : IsChain(f, Q, <<>>, step, m)
    BY <1>1, <1>3, ChainExists, Zenon
  <2> QED BY <2>1 DEF IsChain
<1>5. ASSUME NEW n \in 1..m PROVE f[n] = After(f[n - 1], n)
  <2>1. n - 1 \in 0..m
    BY <1>1, <1>5
  <2>2. f[n - 1] \in Q
    BY <1>4, <2>1
  <2> HIDE DEF After, Q
  <2> QED BY <1>4, <2>2
<1>6. \A n \in 0..m : f[n] = IF n <= a THEN <<>>
                             ELSE IF n - 1 \in speech THEN Append(f[n - 1], voiced[n]) ELSE f[n - 1]
  <2> SUFFICES ASSUME NEW n \in 0..m
               PROVE  f[n] = IF n <= a THEN <<>>
                             ELSE IF n - 1 \in speech THEN Append(f[n - 1], voiced[n]) ELSE f[n - 1]
    OBVIOUS
  <2>1. CASE n = 0
    BY <1>4, <2>1
  <2>2. CASE n \in 1..m
    BY <1>5, <2>2
  <2> QED BY <1>1, <2>1, <2>2
<1>7. f = [n \in 0..m |-> f[n]]
  BY <1>4
<1>8. HearChain(f, a)
  <2> HIDE DEF step
  <2> QED BY <1>6, <1>7 DEF HearChain
<1> QED BY <1>4, <1>8

\* Hearing goes on sample by sample.
LEMMA HeardIs ==
    ASSUME Taped, NEW a \in Nat
    PROVE  /\ \A n \in 0..Samples : n <= a => WordsIn(a, n) = <<>>
           /\ \A n \in 1..Samples : n > a =>
                 WordsIn(a, n) = IF n - 1 \in speech THEN Append(WordsIn(a, n - 1), voiced[n]) ELSE WordsIn(a, n - 1)
           /\ \A n \in 0..Samples : WordsIn(a, n) \in Seq(Int)
<1> DEFINE f == CHOOSE g : HearChain(g, a)
<1>0. Samples \in Nat
  BY ChunkAssumption
<1>1. \A n : WordsIn(a, n) = f[n]
  BY DEF WordsIn, HearChain
<1>2. HearChain(f, a)
  BY HearChainExists
<1> HIDE DEF f
<1>3. \A n \in 0..Samples : f[n] = IF n <= a THEN <<>>
                                   ELSE IF n - 1 \in speech THEN Append(f[n - 1], voiced[n]) ELSE f[n - 1]
  BY <1>2 DEF HearChain
<1>4. \A n \in 0..Samples : n <= a => f[n] = <<>>
  BY <1>3
<1>5. \A n \in 1..Samples : n > a => f[n] = IF n - 1 \in speech THEN Append(f[n - 1], voiced[n]) ELSE f[n - 1]
  BY <1>0, <1>3
<1>6. \A n \in 0..Samples : f[n] \in Seq(Int)
  <2> DEFINE G == {n \in Nat : n <= Samples => f[n] \in Seq(Int)}
  <2>1. 0 \in G
    <3>1. 0 \in 0..Samples /\ 0 <= a
      BY <1>0
    <3>2. f[0] = <<>>
      BY <1>4, <3>1
    <3>3. f[0] \in Seq(Int)
      BY <3>2
    <3> QED BY <3>3
  <2>2. ASSUME NEW n \in Nat, n < Samples, n \in G PROVE n + 1 \in G
    <3>1. f[n] \in Seq(Int) /\ n + 1 \in 1..Samples /\ (n + 1) - 1 = n
      BY <1>0, <2>2
    <3>2. voiced[n + 1] \in Int
      BY <3>1 DEF Taped
    <3>3. f[n + 1] \in Seq(Int)
      <4>1. CASE n + 1 <= a
        <5>1. f[n + 1] = <<>>
          BY <1>4, <3>1, <4>1
        <5> QED BY <5>1
      <4>2. CASE n + 1 > a
        <5>1. f[n + 1] = IF n \in speech THEN Append(f[n], voiced[n + 1]) ELSE f[n]
          BY <1>5, <3>1, <4>2
        <5>2. Append(f[n], voiced[n + 1]) \in Seq(Int)
          BY <3>1, <3>2
        <5> QED BY <3>1, <5>1, <5>2
      <4> QED BY <4>1, <4>2
    <3> QED BY <3>3
  <2> HIDE DEF G
  <2>3. \A n \in 0..Samples : n \in G
    BY <1>0, <2>1, <2>2, CountUp
  <2> QED BY <1>0, <2>3 DEF G
<1> QED BY <1>0, <1>1, <1>4, <1>5, <1>6

LEMMA HeardNothing ==
    ASSUME Taped, NEW a \in Nat, NEW b \in 0..Samples, \A s \in speech : ~ (a <= s /\ s < b)
    PROVE  WordsIn(a, b) = <<>>
<1>0. Samples \in Nat
  BY ChunkAssumption
<1> DEFINE G == {n \in Nat : n <= b => WordsIn(a, n) = <<>>}
<1>1. 0 \in G
  BY <1>0, HeardIs
<1>2. ASSUME NEW n \in Nat, n < b, n \in G PROVE n + 1 \in G
  <2>1. WordsIn(a, n) = <<>> /\ n + 1 \in 1..Samples /\ n + 1 \in 0..Samples /\ (n + 1) - 1 = n
    BY <1>0, <1>2
  <2>2. CASE n + 1 <= a
    BY <2>1, <2>2, HeardIs
  <2>3. CASE n + 1 > a
    <3>1. n \notin speech
      BY <1>2, <2>3
    <3> QED BY <2>1, <2>3, <3>1, HeardIs
  <2> QED BY <2>2, <2>3
<1> HIDE DEF G
<1>3. b \in Nat
  BY <1>0
<1>4. \A n \in 0..b : n \in G
  BY <1>1, <1>2, <1>3, CountUp
<1> QED BY <1>3, <1>4 DEF G

\* What is heard in a stretch is what is heard before and after any point of it.
LEMMA HeardSplit ==
    ASSUME Taped, NEW a \in Nat, NEW b \in Nat, NEW n \in Nat, a <= b, b <= n, n <= Samples
    PROVE  WordsIn(a, n) = WordsIn(a, b) \o WordsIn(b, n)
<1>0. Samples \in Nat
  BY ChunkAssumption
<1> DEFINE l == n - b
           G == {k \in Nat : k <= l => WordsIn(a, b + k) = WordsIn(a, b) \o WordsIn(b, b + k)}
<1>1. 0 \in G
  <2>1. WordsIn(b, b) = <<>> /\ WordsIn(a, b) \in Seq(Int) /\ b + 0 = b
    BY <1>0, HeardIs
  <2> QED BY <2>1
<1>2. ASSUME NEW k \in Nat, k < l, k \in G PROVE k + 1 \in G
  <2> DEFINE m == b + k
  <2>1. m \in 0..Samples /\ m + 1 \in 1..Samples /\ (m + 1) - 1 = m /\ m + 1 > a /\ m + 1 > b /\ b + (k + 1) = m + 1
        /\ b \in 0..Samples
    BY <1>0, <1>2
  <2>2. WordsIn(a, m) = WordsIn(a, b) \o WordsIn(b, m)
    BY <1>2
  <2> HIDE DEF m
  <2>3. WordsIn(a, b) \in Seq(Int) /\ WordsIn(b, m) \in Seq(Int)
    BY <2>1, HeardIs
  <2>4. voiced[m + 1] \in Int
    BY <2>1 DEF Taped
  <2>5. /\ WordsIn(a, m + 1) = IF m \in speech THEN Append(WordsIn(a, m), voiced[m + 1]) ELSE WordsIn(a, m)
        /\ WordsIn(b, m + 1) = IF m \in speech THEN Append(WordsIn(b, m), voiced[m + 1]) ELSE WordsIn(b, m)
    <3>1. ASSUME NEW j \in Nat, m + 1 > j
          PROVE  WordsIn(j, m + 1) = IF (m + 1) - 1 \in speech THEN Append(WordsIn(j, (m + 1) - 1), voiced[m + 1])
                                     ELSE WordsIn(j, (m + 1) - 1)
      BY <2>1, <3>1, HeardIs, Zenon
    <3>2. /\ WordsIn(a, m + 1) = IF (m + 1) - 1 \in speech THEN Append(WordsIn(a, (m + 1) - 1), voiced[m + 1])
                                 ELSE WordsIn(a, (m + 1) - 1)
          /\ WordsIn(b, m + 1) = IF (m + 1) - 1 \in speech THEN Append(WordsIn(b, (m + 1) - 1), voiced[m + 1])
                                 ELSE WordsIn(b, (m + 1) - 1)
      BY <2>1, <3>1, Zenon
    <3> QED BY <2>1, <3>2
  <2>6. \A p, q \in Seq(Int), v \in Int : Append(p \o q, v) = p \o Append(q, v)
    OBVIOUS
  <2>7. WordsIn(a, m + 1) = WordsIn(a, b) \o WordsIn(b, m + 1)
    <3>1. CASE m \in speech
      BY <2>2, <2>3, <2>4, <2>5, <2>6, <3>1
    <3>2. CASE m \notin speech
      BY <2>2, <2>5, <3>2
    <3> QED BY <3>1, <3>2
  <2>8. WordsIn(a, b + (k + 1)) = WordsIn(a, b) \o WordsIn(b, b + (k + 1))
    BY <2>1, <2>7
  <2> QED BY <2>8
<1>3. l \in Nat /\ b + l = n
  OBVIOUS
<1> HIDE DEF G, l
<1>4. \A k \in 0..l : k \in G
  BY <1>1, <1>2, <1>3, CountUp
<1>5. l \in G
  BY <1>3, <1>4
<1>6. WordsIn(a, b + l) = WordsIn(a, b) \o WordsIn(b, b + l)
  BY <1>3, <1>5 DEF G
<1> QED BY <1>3, <1>6

LEMMA HeardLength ==
    ASSUME Taped, NEW a \in Nat, NEW b \in Nat, a <= b, b <= Samples
    PROVE  WordsIn(a, b) \in Seq(Int) /\ Len(WordsIn(a, b)) \in Nat /\ Len(WordsIn(a, b)) <= b - a
<1>0. Samples \in Nat
  BY ChunkAssumption
<1> DEFINE l == b - a
           G == {k \in Nat : k <= l => Len(WordsIn(a, a + k)) <= k}
<1>1. 0 \in G
  <2>1. WordsIn(a, a) = <<>> /\ a + 0 = a
    BY <1>0, HeardIs
  <2> QED BY <2>1
<1>2. ASSUME NEW k \in Nat, k < l, k \in G PROVE k + 1 \in G
  <2> DEFINE m == a + k
  <2>1. m \in 0..Samples /\ m + 1 \in 1..Samples /\ (m + 1) - 1 = m /\ m + 1 > a /\ a + (k + 1) = m + 1
    BY <1>0, <1>2
  <2>2. Len(WordsIn(a, m)) <= k
    BY <1>2
  <2> HIDE DEF m
  <2>3. WordsIn(a, m) \in Seq(Int)
    BY <2>1, HeardIs
  <2>4. voiced[m + 1] \in Int
    BY <2>1 DEF Taped
  <2>5. WordsIn(a, m + 1) \in {Append(WordsIn(a, m), voiced[m + 1]), WordsIn(a, m)}
    BY <2>1, HeardIs
  <2>6. Len(WordsIn(a, m + 1)) <= k + 1
    BY <2>2, <2>3, <2>4, <2>5
  <2> QED BY <2>1, <2>6
<1>3. l \in Nat /\ a + l = b
  OBVIOUS
<1> HIDE DEF G, l
<1>4. \A k \in 0..l : k \in G
  BY <1>1, <1>2, <1>3, CountUp
<1>8. l \in G
  BY <1>3, <1>4
<1>9. Len(WordsIn(a, a + l)) <= l
  BY <1>3, <1>8 DEF G
<1>5. Len(WordsIn(a, b)) <= l
  BY <1>3, <1>9
<1>6. b \in 0..Samples
  BY <1>0
<1>7. WordsIn(a, b) \in Seq(Int)
  BY <1>6, HeardIs
<1> QED BY <1>5, <1>7 DEF l

LEMMA HeardSome ==
    ASSUME Taped, NEW a \in Nat, NEW b \in Nat, b <= Samples, NEW s \in speech, a <= s, s < b
    PROVE  WordsIn(a, b) # <<>>
<1>0. Samples \in Nat /\ s \in Nat /\ s + 1 \in 1..Samples /\ s \in 0..Samples /\ (s + 1) - 1 = s /\ s + 1 > a /\ s + 1 <= b
      /\ s + 1 \in Nat /\ b \in 0..Samples /\ s + 1 \in 0..Samples
  BY ChunkAssumption DEF Taped
<1>1. WordsIn(a, s + 1) = Append(WordsIn(a, s), voiced[s + 1])
  BY <1>0, HeardIs
<1>2. WordsIn(a, s) \in Seq(Int) /\ voiced[s + 1] \in Int /\ WordsIn(s + 1, b) \in Seq(Int)
  BY <1>0, HeardIs DEF Taped
<1>3. WordsIn(a, b) = WordsIn(a, s + 1) \o WordsIn(s + 1, b)
  <2>1. a <= s + 1 /\ b <= Samples
    BY <1>0
  <2> QED BY <1>0, <2>1, HeardSplit
<1>4. \A p, q \in Seq(Int), v \in Int : Len(Append(p, v) \o q) >= 1
  OBVIOUS
<1> QED BY <1>1, <1>2, <1>3, <1>4

-----------------------------------------------------------------------------
(* Where no word is spoken twice.                                          *)

Numbered == voiced = [i \in 1..Samples |-> i]

HeardFits(h, a, b) ==
    /\ h \in Seq(Int)
    /\ \A i \in 1..Len(h) : h[i] - 1 \in speech /\ a < h[i] /\ h[i] <= b
    /\ \A i \in 2..Len(h) : h[i - 1] < h[i]
    /\ \A s \in speech : a <= s /\ s < b => \E i \in 1..Len(h) : h[i] = s + 1

LEMMA HeardOne ==
    ASSUME Taped, NEW h, NEW a \in Nat, NEW b \in Nat, HeardFits(h, a, b), a <= b, b \in speech
    PROVE  HeardFits(Append(h, b + 1), a, b + 1)
<1> DEFINE g == Append(h, b + 1)
           l == Len(h)
<1>1. h \in Seq(Int)
  BY DEF HeardFits
<1>2. l \in Nat /\ g \in Seq(Int) /\ Len(g) = l + 1 /\ g[l + 1] = b + 1
  BY <1>1
<1>3. \A i \in 1..l : g[i] = h[i] /\ h[i] \in Int
  BY <1>1
<1>4. /\ \A i \in 1..l : h[i] - 1 \in speech /\ a < h[i] /\ h[i] <= b
      /\ \A i \in 2..l : h[i - 1] < h[i]
      /\ \A s \in speech : a <= s /\ s < b => \E i \in 1..l : h[i] = s + 1
  BY DEF HeardFits
<1> HIDE DEF g, l
<1>5. ASSUME NEW i \in 1..(l + 1) PROVE g[i] - 1 \in speech /\ a < g[i] /\ g[i] <= b + 1
  <2>1. CASE i = l + 1
    <3>1. g[i] = b + 1 /\ (b + 1) - 1 = b
      BY <1>2, <2>1
    <3> QED BY <3>1
  <2>2. CASE i \in 1..l
    BY <1>3, <1>4, <2>2
  <2> QED BY <1>2, <2>1, <2>2
<1>6. ASSUME NEW i \in 2..(l + 1) PROVE g[i - 1] < g[i]
  <2>0. i - 1 \in 1..l
    BY <1>2
  <2>1. CASE i = l + 1
    <3>1. g[i] = b + 1 /\ g[i - 1] = h[i - 1] /\ h[i - 1] <= b /\ h[i - 1] \in Int
      BY <1>2, <1>3, <1>4, <2>0, <2>1
    <3> QED BY <3>1
  <2>2. CASE i \in 2..l
    <3>1. i \in 1..l
      BY <2>2
    <3> QED BY <1>3, <1>4, <2>0, <2>2, <3>1
  <2> QED BY <1>2, <2>1, <2>2
<1>7. ASSUME NEW s \in speech, a <= s, s < b + 1 PROVE \E i \in 1..(l + 1) : g[i] = s + 1
  <2>1. s \in Int
    BY DEF Taped
  <2>2. CASE s = b
    <3>1. l + 1 \in 1..(l + 1) /\ g[l + 1] = s + 1
      BY <1>2, <2>2
    <3> QED BY <3>1
  <2>3. CASE s < b
    <3>1. PICK i \in 1..l : h[i] = s + 1
      BY <1>4, <1>7, <2>3
    <3>2. i \in 1..(l + 1) /\ g[i] = s + 1
      BY <1>2, <1>3, <3>1
    <3> QED BY <3>2
  <2> QED BY <1>7, <2>1, <2>2, <2>3
<1>8. HeardFits(g, a, b + 1)
  BY <1>2, <1>5, <1>6, <1>7 DEF HeardFits
<1> QED BY <1>8 DEF g

LEMMA HeardWords ==
    ASSUME Taped, Numbered, NEW a \in Nat, NEW b \in Nat, a <= b, b <= Samples
    PROVE  HeardFits(WordsIn(a, b), a, b)
<1>0. Samples \in Nat
  BY ChunkAssumption
<1> DEFINE l == b - a
           G == {k \in Nat : k <= l => HeardFits(WordsIn(a, a + k), a, a + k)}
<1>1. 0 \in G
  <2>1. WordsIn(a, a) = <<>> /\ a + 0 = a
    BY <1>0, HeardIs
  <2>2. HeardFits(<<>>, a, a)
    BY DEF HeardFits, Taped
  <2> QED BY <2>1, <2>2
<1>2. ASSUME NEW k \in Nat, k < l, k \in G PROVE k + 1 \in G
  <2> DEFINE m == a + k
  <2>1. m \in Nat /\ m \in 0..Samples /\ m + 1 \in 1..Samples /\ (m + 1) - 1 = m /\ m + 1 > a /\ a + (k + 1) = m + 1 /\ a <= m
    BY <1>0, <1>2
  <2>2. HeardFits(WordsIn(a, m), a, m)
    BY <1>2
  <2> HIDE DEF m
  <2>3. voiced[m + 1] = m + 1
    BY <2>1 DEF Numbered
  <2>4. WordsIn(a, m + 1) = IF m \in speech THEN Append(WordsIn(a, m), m + 1) ELSE WordsIn(a, m)
    BY <2>1, <2>3, HeardIs
  <2>5. HeardFits(WordsIn(a, m + 1), a, m + 1)
    <3>1. CASE m \in speech
      BY <2>1, <2>2, <2>4, <3>1, HeardOne
    <3>2. CASE m \notin speech
      <4>1. \A s \in speech : s \in Int /\ (s < m + 1 => s < m)
        BY <2>1, <3>2 DEF Taped
      <4>2. \A i \in 1..Len(WordsIn(a, m)) : WordsIn(a, m)[i] \in Int
        BY <2>2 DEF HeardFits
      <4>3. \A x \in Int : x <= m => x <= m + 1
        BY <2>1
      <4> QED BY <2>2, <2>4, <3>2, <4>1, <4>2, <4>3 DEF HeardFits
    <3> QED BY <3>1, <3>2
  <2> QED BY <2>1, <2>5
<1>3. l \in Nat /\ a + l = b
  OBVIOUS
<1> HIDE DEF G, l
<1>4. \A k \in 0..l : k \in G
  BY <1>1, <1>2, <1>3, CountUp
<1> QED BY <1>3, <1>4 DEF G

LEMMA NoOverlap ==
    ASSUME NEW old, NEW new, NEW maximum \in Int, maximum <= 1
    PROVE  ExactOverlap(old, new, maximum) = 0
<1>1. {n \in 2..maximum : SubSeq(old, Len(old) - n + 1, Len(old)) = SubSeq(new, 1, n)} = {}
  OBVIOUS
<1> QED BY <1>1 DEF ExactOverlap

LEMMA Increasing ==
    ASSUME NEW h \in Seq(Int), \A i \in 2..Len(h) : h[i - 1] < h[i],
           NEW i \in 1..Len(h), NEW j \in 1..Len(h), i < j
    PROVE  h[i] < h[j]
<1> DEFINE l == j - (i + 1)
           G == {n \in Nat : n <= l => h[i] < h[i + 1 + n]}
<1>0. l \in Nat /\ i + 1 + l = j /\ \A k \in 1..Len(h) : h[k] \in Int
  OBVIOUS
<1>1. 0 \in G
  <2>1. i + 1 \in 2..Len(h) /\ (i + 1) - 1 = i /\ i + 1 + 0 = i + 1
    OBVIOUS
  <2>2. h[i] < h[i + 1]
    BY <2>1
  <2> QED BY <2>1, <2>2
<1>2. ASSUME NEW n \in Nat, n < l, n \in G PROVE n + 1 \in G
  <2> DEFINE k == i + 1 + n
  <2>1. k \in 1..Len(h) /\ k + 1 \in 2..Len(h) /\ (k + 1) - 1 = k /\ i + 1 + (n + 1) = k + 1 /\ k + 1 \in 1..Len(h)
    BY <1>0, <1>2
  <2>2. h[i] < h[k]
    BY <1>2
  <2> HIDE DEF k
  <2>3. h[k] < h[k + 1]
    BY <2>1
  <2>4. h[i] \in Int /\ h[k] \in Int /\ h[k + 1] \in Int
    BY <1>0, <2>1
  <2>5. h[i] < h[i + 1 + (n + 1)]
    <3>1. h[i] < h[k + 1]
      BY <2>2, <2>3, <2>4
    <3> QED BY <2>1, <3>1
  <2> QED BY <2>5
<1> HIDE DEF G, l
<1>3. \A n \in 0..l : n \in G
  BY <1>0, <1>1, <1>2, CountUp
<1>4. l \in G
  BY <1>0, <1>3
<1>5. h[i] < h[i + 1 + l]
  BY <1>0, <1>4 DEF G
<1> QED BY <1>0, <1>5

\* The words two chunks share are the only tail of the text that is a head of the new words.
LEMMA LastOfTail ==
    ASSUME NEW T \in Seq(Int), NEW n \in 1..Len(T)
    PROVE  SubSeq(T, Len(T) - n + 1, Len(T))[n] = T[Len(T)]
<1> DEFINE l == Len(T)
<1>1. l \in Nat
  OBVIOUS
<1>2. l - n + 1 \in 1..l /\ l - (l - n + 1) + 1 = n /\ (l - n + 1) + n - 1 = l
  BY <1>1
<1>3. SubSeq(T, l - n + 1, l) = [i \in 1..n |-> T[(l - n + 1) + i - 1]]
  BY <1>1, <1>2
<1>4. n \in 1..n
  BY <1>1
<1>5. SubSeq(T, l - n + 1, l)[n] = T[(l - n + 1) + n - 1]
  BY <1>3, <1>4
<1> QED BY <1>2, <1>5

SharesWords(T, new, B, O, D, x, maximum) ==
    /\ B \in Seq(Int) /\ O \in Seq(Int) /\ D \in Seq(Int) /\ T = B \o O /\ new = O \o D /\ T # <<>>
    /\ \A i \in 2..Len(O) : O[i - 1] < O[i]
    /\ x \in Int
    /\ \A i \in 1..Len(T) : T[i] <= x
    /\ \A i \in 1..Len(D) : x < D[i]
    /\ maximum \in Int /\ maximum <= Len(T) /\ maximum <= Len(new)
    /\ Len(O) >= 2 => Len(O) <= maximum

LEMMA OverlapIs ==
    ASSUME NEW B, NEW O, NEW D, NEW T, NEW new, NEW x, NEW maximum, SharesWords(T, new, B, O, D, x, maximum)
    PROVE  ExactOverlap(T, new, maximum) = IF Len(O) >= 2 THEN Len(O) ELSE 0
<1> USE DEF SharesWords
<1> DEFINE o == Len(O)
           l == Len(T)
           fits == {n \in 2..maximum : SubSeq(T, l - n + 1, l) = SubSeq(new, 1, n)}
<1>1. /\ T \in Seq(Int) /\ new \in Seq(Int) /\ o \in Nat /\ l = Len(B) + o /\ l \in Nat /\ l >= 1 /\ Len(B) \in Nat
      /\ Len(new) = o + Len(D) /\ Len(D) \in Nat
  OBVIOUS
<1>2. \A i \in 1..o : T[Len(B) + i] = O[i] /\ new[i] = O[i] /\ O[i] \in Int
  OBVIOUS
<1>3. \A i \in 1..Len(D) : new[o + i] = D[i] /\ D[i] \in Int
  OBVIOUS
<1>4. \A n \in 2..maximum : n \in 1..l /\ n \in 1..Len(new)
  BY <1>1
<1>a. /\ T = B \o O /\ B \in Seq(Int) /\ O \in Seq(Int) /\ D \in Seq(Int) /\ x \in Int
      /\ maximum \in Int /\ (o >= 2 => o <= maximum)
  OBVIOUS
<1>b. \A i \in 1..l : T[i] <= x
  OBVIOUS
<1>c. \A i \in 1..Len(D) : x < D[i]
  OBVIOUS
<1>d. \A i \in 2..Len(O) : O[i - 1] < O[i]
  OBVIOUS
<1> HIDE DEF SharesWords
<1>5. ASSUME NEW n \in fits PROVE o >= 2 /\ n = o
  <2>1. n \in 2..maximum /\ SubSeq(T, l - n + 1, l) = SubSeq(new, 1, n)
    BY <1>a
  <2>2. n \in 1..l /\ n \in 1..Len(new) /\ n >= 2
    BY <1>4, <1>a, <2>1
  <2>3. SubSeq(T, l - n + 1, l)[n] = T[l]
    BY <1>1, <2>2, LastOfTail DEF l
  <2>4. SubSeq(new, 1, n)[n] = new[n]
    BY <1>1, <2>2
  <2>5. T[l] = new[n] /\ T[l] <= x /\ T[l] \in Int
    <3>1. l \in 1..l
      BY <1>1
    <3>2. T[l] <= x /\ T[l] \in Int
      <4>1. T[l] \in Int
        <5>1. T \in Seq(Int)
          BY <1>1
        <5> QED BY <3>1, <5>1
      <4> HIDE DEF l
      <4> QED BY <1>b, <3>1, <4>1
    <3>3. T[l] = new[n]
      <4> HIDE DEF l, fits
      <4> QED BY <2>1, <2>3, <2>4
    <3> QED BY <3>2, <3>3
  <2> HIDE DEF l, o, fits
  <2>6. n <= o
    <3> SUFFICES ASSUME n > o PROVE FALSE
      BY <1>1, <2>2
    <3>1. n - o \in 1..Len(D) /\ o + (n - o) = n
      BY <1>1, <2>2
    <3>2. new[n] = D[n - o] /\ x < D[n - o] /\ D[n - o] \in Int
      BY <1>3, <1>c, <3>1
    <3> QED BY <1>a, <2>5, <3>2
  <2>7. o \in 1..o /\ n \in 1..o /\ o >= 2
    BY <1>1, <2>2, <2>6
  <2>8. O[n] = O[o]
    BY <1>1, <1>2, <2>5, <2>7
  <2>9. n < o => O[n] < O[o]
    BY <1>a, <1>d, <2>7, Increasing DEF o
  <2>10. O[o] \in Int
    BY <1>2, <2>7
  <2>11. ~ (n < o)
    BY <2>8, <2>9, <2>10
  <2> QED BY <1>1, <2>2, <2>6, <2>7, <2>11
<1>6. ASSUME o >= 2 PROVE o \in fits
  <2>1. o \in 2..maximum /\ o \in 1..l /\ o \in 1..Len(new) /\ l - o + 1 = Len(B) + 1 /\ l = Len(B) + o
    BY <1>1, <1>4, <1>6, <1>a
  <2>2. SubSeq(T, Len(B) + 1, Len(B) + o) = O
    <3>2. SubSeq(T, Len(B) + 1, Len(B) + o) = [i \in 1..o |-> T[Len(B) + i]]
      BY <1>1
    <3>3. O = [i \in 1..o |-> O[i]]
      BY <1>a
    <3> HIDE DEF o
    <3> QED BY <1>2, <3>2, <3>3
  <2>3. SubSeq(new, 1, o) = O
    <3>1. SubSeq(new, 1, o) = [i \in 1..o |-> new[i]]
      BY <1>1
    <3>2. O = [i \in 1..o |-> O[i]]
      BY <1>a
    <3> HIDE DEF o
    <3> QED BY <1>2, <3>1, <3>2
  <2>4. SubSeq(T, l - o + 1, l) = SubSeq(new, 1, o)
    <3> HIDE DEF o, l
    <3> QED BY <2>1, <2>2, <2>3
  <2> QED BY <2>1, <2>4
<1>7. ExactOverlap(T, new, maximum) = IF fits = {} THEN 0 ELSE CHOOSE n \in fits : \A m \in fits : n >= m
  BY DEF ExactOverlap
<1> HIDE DEF fits
<1>8. CASE o >= 2
  <2>1. fits = {o}
    BY <1>5, <1>6, <1>8
  <2>2. (CHOOSE n \in fits : \A m \in fits : n >= m) = o
    BY <1>1, <2>1
  <2> QED BY <1>7, <1>8, <2>1, <2>2
<1>9. CASE ~ (o >= 2)
  <2>1. fits = {}
    BY <1>5, <1>9
  <2> QED BY <1>7, <1>9, <2>1
<1> QED BY <1>8, <1>9

LEMMA SmallNumber == \A n \in Nat : (n >= 2 /\ n # 1) \/ (~ (n >= 2) /\ (n = 1 \/ n = 0))
OBVIOUS

\* Concatenation.
LEMMA JoinIs ==
    ASSUME NEW a \in Seq(Int), NEW b \in Seq(Int)
    PROVE  /\ a \o b \in Seq(Int) /\ Len(a \o b) = Len(a) + Len(b) /\ Len(a) \in Nat /\ Len(b) \in Nat
           /\ \A i \in 1..Len(a) : (a \o b)[i] = a[i] /\ a[i] \in Int
           /\ \A i \in 1..Len(b) : (a \o b)[Len(a) + i] = b[i] /\ b[i] \in Int
           /\ SubSeq(a \o b, Len(a) + 1, Len(a \o b)) = b
           /\ SubSeq(a, 1, Len(a)) = a
           /\ a \o <<>> = a /\ <<>> \o a = a /\ (Len(a) = 0 => a = <<>>)
<1>1. a \o b \in Seq(Int) /\ Len(a \o b) = Len(a) + Len(b) /\ Len(a) \in Nat /\ Len(b) \in Nat
  OBVIOUS
<1>2. \A i \in 1..Len(a) : (a \o b)[i] = a[i] /\ a[i] \in Int
  OBVIOUS
<1>3. \A i \in 1..Len(b) : (a \o b)[Len(a) + i] = b[i] /\ b[i] \in Int
  OBVIOUS
<1>4. SubSeq(a \o b, Len(a) + 1, Len(a \o b)) = b
  OBVIOUS
<1>5. SubSeq(a, 1, Len(a)) = a
  OBVIOUS
<1>6. a \o <<>> = a /\ <<>> \o a = a /\ (Len(a) = 0 => a = <<>>)
  OBVIOUS
<1> QED BY <1>1, <1>2, <1>3, <1>4, <1>5, <1>6

LEMMA JoinThree ==
    ASSUME NEW a \in Seq(Int), NEW b \in Seq(Int), NEW c \in Seq(Int)
    PROVE  (a \o b) \o c = a \o (b \o c)
OBVIOUS

\* Where the new part of a chunk begins, what it shares with the text, and what it adds.
From(p, c) == Larger(p, c.first)
Shared(p, c) == WordsIn(c.first, From(p, c))
Fresh(p, c) == WordsIn(From(p, c), c.past)

\* The text ends with what was heard up to p since q, so what a later chunk shares is its tail.
EndsWith(T, q, p) == \E B \in Seq(Int) : T = B \o WordsIn(q, p)

LEMMA PartsAre ==
    ASSUME Taped, NEW c \in Stretch, NEW p \in Nat, p <= c.past, 0 <= c.first, c.first < c.past, c.past <= Samples,
           NEW T, NEW q \in Nat, q <= p, q <= c.first, EndsWith(T, q, p)
    PROVE  /\ WordsIn(c.first, c.past) = Shared(p, c) \o Fresh(p, c)
           /\ Shared(p, c) \in Seq(Int) /\ Fresh(p, c) \in Seq(Int) /\ T \in Seq(Int)
           /\ \E B \in Seq(Int) : T = B \o Shared(p, c)
           /\ Len(Shared(p, c)) <= Larger(0, p - c.first)
           /\ From(p, c) \in Nat /\ p <= From(p, c) /\ c.first <= From(p, c) /\ From(p, c) <= c.past
<1> DEFINE f == c.first
           m == From(p, c)
<1>1. f \in Nat /\ c.past \in Nat /\ c.past <= Samples /\ Samples \in Nat
  BY ChunkAssumption DEF Stretch
<1>2. m \in Nat /\ p <= m /\ f <= m /\ m <= c.past /\ (m = p \/ (m = f /\ p <= f)) /\ m <= Samples
  BY <1>1 DEF From, Larger
<1> HIDE DEF m
<1>3. WordsIn(f, c.past) = WordsIn(f, m) \o WordsIn(m, c.past)
  BY <1>1, <1>2, HeardSplit
<1>4. f \in 0..Samples /\ m \in 0..Samples /\ c.past \in 0..Samples /\ p \in 0..Samples
  BY <1>1, <1>2
<1>5. WordsIn(f, m) \in Seq(Int) /\ WordsIn(m, c.past) \in Seq(Int) /\ WordsIn(q, p) \in Seq(Int)
  BY <1>1, <1>2, <1>4, HeardIs
<1>6. PICK B \in Seq(Int) : T = B \o WordsIn(q, p)
  BY DEF EndsWith
<1>7. T \in Seq(Int)
  BY <1>5, <1>6
<1>8. \E C \in Seq(Int) : T = C \o WordsIn(f, m)
  <2>1. CASE m = p /\ f <= p
    <3>1. WordsIn(q, p) = WordsIn(q, f) \o WordsIn(f, p)
      <4>1. q <= f /\ f <= p /\ p <= Samples
        BY <1>1, <2>1
      <4> QED BY <1>1, <4>1, HeardSplit
    <3>2. WordsIn(q, f) \in Seq(Int) /\ WordsIn(f, p) \in Seq(Int)
      BY <1>4, <1>5, <2>1, HeardIs
    <3>3. T = (B \o WordsIn(q, f)) \o WordsIn(f, p)
      <4>1. T = B \o (WordsIn(q, f) \o WordsIn(f, p))
        BY <1>6, <3>1
      <4>2. (B \o WordsIn(q, f)) \o WordsIn(f, p) = B \o (WordsIn(q, f) \o WordsIn(f, p))
        BY <1>6, <3>2, JoinThree
      <4> QED BY <4>1, <4>2
    <3>4. B \o WordsIn(q, f) \in Seq(Int)
      BY <1>6, <3>2
    <3> QED BY <2>1, <3>3, <3>4
  <2>2. CASE m = f
    <3>1. WordsIn(f, f) = <<>>
      <4>1. f <= f
        BY <1>1
      <4> QED BY <1>1, <1>4, <4>1, HeardIs
    <3>2. T = T \o <<>>
      BY <1>7
    <3> QED BY <1>7, <2>2, <3>1, <3>2
  <2> QED BY <1>1, <1>2, <2>1, <2>2
<1>9. Len(WordsIn(f, m)) <= Larger(0, p - f)
  <2>1. Len(WordsIn(f, m)) <= m - f /\ Len(WordsIn(f, m)) \in Nat
    BY <1>1, <1>2, HeardLength
  <2> QED BY <1>1, <1>2, <2>1 DEF Larger
<1> QED BY <1>2, <1>3, <1>5, <1>7, <1>8, <1>9 DEF m, Shared, Fresh

LEMMA AddPartIs ==
    ASSUME Taped, Numbered, NEW c \in Stretch, NEW p \in Nat,
           p <= c.past, 0 <= c.first, c.first < c.past, c.past <= Samples, p - c.first <= 2 * Padding,
           NEW T, NEW q \in Nat, q <= p, q <= c.first, EndsWith(T, q, p), T # <<>>, WordsIn(c.first, c.past) # <<>>,
           \A i \in 1..Len(T) : T[i] <= p
    PROVE  AddPart([text |-> T, past |-> p], c)
             = [text |-> (IF Len(Shared(p, c)) = 1 THEN T \o Shared(p, c) ELSE T) \o Fresh(p, c), past |-> c.past]
<1> DEFINE O == Shared(p, c)
           D == Fresh(p, c)
           new == WordsIn(c.first, c.past)
           seconds == Larger(0, p - c.first)
           maximum == Smaller(Smaller(MaxOverlapWords, OverlapLimit(seconds)), Smaller(Len(T), Len(new)))
           shared == ExactOverlap(T, new, maximum)
<1>1. /\ new = O \o D /\ O \in Seq(Int) /\ D \in Seq(Int) /\ T \in Seq(Int) /\ Len(O) <= seconds
      /\ \E B \in Seq(Int) : T = B \o O
      /\ From(p, c) \in Nat /\ p <= From(p, c) /\ c.first <= From(p, c) /\ From(p, c) <= c.past
  BY PartsAre
<1>2. c.first \in Nat /\ c.past \in Nat /\ Samples \in Nat /\ MaxOverlapWords \in Nat /\ 2 * Padding <= MaxOverlapWords
      /\ 2 * Padding \in Int /\ Padding \in Nat
  BY ChunkAssumption DEF Stretch
<1>3. HeardFits(O, c.first, From(p, c)) /\ HeardFits(D, From(p, c), c.past)
  BY <1>1, <1>2, HeardWords DEF Shared, Fresh
<1>4. AddPart([text |-> T, past |-> p], c) = [text |-> T \o SubSeq(new, shared + 1, Len(new)), past |-> c.past]
  BY DEF AddPart
<1>5. PICK B \in Seq(Int) : T = B \o O
  BY <1>1
<1> HIDE DEF O, D
<1>6. Len(T) = Len(B) + Len(O) /\ Len(new) = Len(O) + Len(D) /\ Len(O) \in Nat /\ Len(D) \in Nat /\ Len(B) \in Nat
      /\ Len(T) \in Nat /\ Len(new) \in Nat
  <2>1. O \in Seq(Int) /\ D \in Seq(Int) /\ new = O \o D
    BY <1>1
  <2> HIDE DEF new
  <2>2. Len(T) = Len(B) + Len(O) /\ Len(O) \in Nat /\ Len(B) \in Nat
    BY <1>5, <2>1, JoinIs, Zenon
  <2>3. Len(new) = Len(O) + Len(D) /\ Len(D) \in Nat
    BY <2>1, JoinIs, Zenon
  <2> QED BY <2>2, <2>3
<1> HIDE DEF new
<1>7. seconds \in Int /\ seconds >= 0 /\ (seconds = 0 \/ seconds = p - c.first)
  BY <1>2 DEF Larger
<1> HIDE DEF seconds
<1>8. OverlapLimit(seconds) \in Int /\ OverlapLimit(seconds) >= 0 /\ (seconds > 0 => OverlapLimit(seconds) > seconds)
  BY <1>7 DEF OverlapLimit, Larger
<1>9. /\ maximum \in Int /\ maximum <= Len(T) /\ maximum <= Len(new)
      /\ maximum \in {MaxOverlapWords, OverlapLimit(seconds), Len(T), Len(new)}
  BY <1>2, <1>6, <1>8 DEF Smaller
<1>10. Len(O) >= 2 => Len(O) <= maximum
  <2> SUFFICES ASSUME Len(O) >= 2 PROVE Len(O) <= maximum
    OBVIOUS
  <2>1. Len(O) <= seconds /\ seconds > 0 /\ seconds = p - c.first
    BY <1>1, <1>6, <1>7
  <2>2. Len(O) <= MaxOverlapWords
    BY <1>2, <1>6, <1>7, <2>1
  <2>3. Len(O) <= OverlapLimit(seconds)
    BY <1>6, <1>7, <1>8, <2>1
  <2>4. Len(O) <= Len(T) /\ Len(O) <= Len(new)
    BY <1>6
  <2> HIDE DEF maximum
  <2> QED BY <1>9, <2>2, <2>3, <2>4
<1> HIDE DEF maximum
<1>11. shared = IF Len(O) >= 2 THEN Len(O) ELSE 0
  <2>1. \A i \in 2..Len(O) : O[i - 1] < O[i]
    BY <1>3 DEF HeardFits
  <2>2. \A i \in 1..Len(D) : p < D[i]
    <3> SUFFICES ASSUME NEW i \in 1..Len(D) PROVE p < D[i]
      OBVIOUS
    <3>1. From(p, c) < D[i] /\ D[i] \in Int
      BY <1>3 DEF HeardFits
    <3>2. p <= From(p, c) /\ From(p, c) \in Nat
      BY <1>1
    <3> QED BY <3>1, <3>2
  <2>3. p \in Int
    OBVIOUS
  <2>4. maximum <= Len(T) /\ maximum <= Len(new) /\ maximum \in Int
    BY <1>9
  <2>5. new = O \o D /\ O \in Seq(Int) /\ D \in Seq(Int)
    BY <1>1
  <2>6. \A i \in 1..Len(T) : T[i] <= p
    OBVIOUS
  <2>7. ExactOverlap(T, new, maximum) = IF Len(O) >= 2 THEN Len(O) ELSE 0
    <3>1. T = B \o O /\ B \in Seq(Int) /\ T # <<>>
      BY <1>5
    <3>2. SharesWords(T, new, B, O, D, p, maximum)
      BY <1>10, <2>1, <2>2, <2>3, <2>4, <2>5, <2>6, <3>1 DEF SharesWords
    <3> QED BY <3>2, OverlapIs
  <2> QED BY <2>7 DEF shared
<1> HIDE DEF shared
<1>12. CASE Len(O) >= 2
  <2>1. SubSeq(new, Len(O) + 1, Len(new)) = D
    BY <1>1, JoinIs
  <2>2. shared = Len(O)
    BY <1>11, <1>12
  <2>3. T \o SubSeq(new, shared + 1, Len(new)) = T \o D
    BY <2>1, <2>2
  <2>4. (IF Len(O) = 1 THEN T \o O ELSE T) \o D = T \o D
    <3>1. Len(O) # 1
      BY <1>6, <1>12, SmallNumber, Zenon
    <3> QED BY <3>1
  <2>5. AddPart([text |-> T, past |-> p], c)
          = [text |-> (IF Len(O) = 1 THEN T \o O ELSE T) \o D, past |-> c.past]
    BY <1>4, <2>3, <2>4
  <2> QED BY <2>5 DEF O, D
<1>13. CASE ~ (Len(O) >= 2)
  <2>1. SubSeq(new, 1, Len(new)) = new /\ 0 + 1 = 1
    <3>1. new \in Seq(Int)
      BY <1>1, JoinIs
    <3> QED BY <3>1, JoinIs
  <2>2. T \o new = (IF Len(O) = 1 THEN T \o O ELSE T) \o D
    <3>1. CASE Len(O) = 1
      <4>1. T \o new = (T \o O) \o D
        BY <1>1, JoinThree
      <4> QED BY <3>1, <4>1
    <3>2. CASE Len(O) = 0
      <4>1. O = <<>>
        BY <1>1, <3>2, JoinIs
      <4>2. new = D
        BY <1>1, <4>1, JoinIs
      <4> QED BY <3>2, <4>2
    <3>3. Len(O) = 1 \/ Len(O) = 0
      BY <1>6, <1>13, SmallNumber, Zenon
    <3> QED BY <3>1, <3>2, <3>3
  <2>3. SubSeq(new, shared + 1, Len(new)) = new
    BY <1>11, <1>13, <2>1
  <2>4. AddPart([text |-> T, past |-> p], c)
          = [text |-> (IF Len(O) = 1 THEN T \o O ELSE T) \o D, past |-> c.past]
    BY <1>4, <2>2, <2>3
  <2> QED BY <2>4 DEF O, D
<1> QED BY <1>12, <1>13

-----------------------------------------------------------------------------
(* What the text tells.                                                    *)

\* The text has what was spoken up to p, in order; what it has twice is in A.
Retold(T, p, A) ==
    /\ T \in Seq(Int)
    /\ \A i \in 1..Len(T) : T[i] - 1 \in speech /\ T[i] <= p
    /\ \A i \in 2..Len(T) : T[i - 1] < T[i] \/ (T[i - 1] = T[i] /\ T[i] \in A)
    /\ \A s \in speech : s < p => \E i \in 1..Len(T) : T[i] = s + 1

LEMMA ToldMore ==
    ASSUME Taped, NEW T, NEW A, NEW p \in Nat, Retold(T, p, A), NEW D, NEW m \in Nat, NEW b \in Nat,
           HeardFits(D, m, b), p <= m, m <= b, \A s \in speech : ~ (p <= s /\ s < m)
    PROVE  Retold(T \o D, b, A)
<1> DEFINE w == T \o D
           l == Len(T)
           d == Len(D)
<1>1. T \in Seq(Int) /\ D \in Seq(Int)
  BY DEF Retold, HeardFits
<1>2. w \in Seq(Int) /\ Len(w) = l + d /\ l \in Nat /\ d \in Nat
  BY <1>1
<1>3. \A i \in 1..l : w[i] = T[i] /\ T[i] \in Int
  BY <1>1
<1>4. \A i \in 1..d : w[l + i] = D[i] /\ D[i] \in Int
  BY <1>1
<1>5. /\ \A i \in 1..l : T[i] - 1 \in speech /\ T[i] <= p
      /\ \A i \in 2..l : T[i - 1] < T[i] \/ (T[i - 1] = T[i] /\ T[i] \in A)
      /\ \A s \in speech : s < p => \E i \in 1..l : T[i] = s + 1
  BY DEF Retold
<1>6. /\ \A i \in 1..d : D[i] - 1 \in speech /\ m < D[i] /\ D[i] <= b
      /\ \A i \in 2..d : D[i - 1] < D[i]
      /\ \A s \in speech : m <= s /\ s < b => \E i \in 1..d : D[i] = s + 1
  BY DEF HeardFits
<1> HIDE DEF w, l, d
<1>7. \A i \in 1..(l + d) : i \in 1..l \/ (i - l \in 1..d /\ l + (i - l) = i)
  BY <1>2
<1>8. ASSUME NEW i \in 1..(l + d) PROVE w[i] - 1 \in speech /\ w[i] <= b
  <2>1. CASE i \in 1..l
    BY <1>3, <1>5, <2>1
  <2>2. CASE i - l \in 1..d /\ l + (i - l) = i
    <3>1. w[i] = D[i - l]
      BY <1>4, <2>2
    <3> QED BY <1>6, <2>2, <3>1
  <2> QED BY <1>7, <2>1, <2>2
<1>9. ASSUME NEW i \in 2..(l + d) PROVE w[i - 1] < w[i] \/ (w[i - 1] = w[i] /\ w[i] \in A)
  <2>1. CASE i \in 2..l
    <3>1. i \in 1..l /\ i - 1 \in 1..l
      BY <1>2, <2>1
    <3>2. w[i] = T[i] /\ w[i - 1] = T[i - 1]
      BY <1>3, <3>1
    <3> QED BY <1>5, <2>1, <3>2
  <2>2. CASE i = l + 1
    <3>1. i - 1 \in 1..l /\ 1 \in 1..d /\ i - 1 = l /\ l + 1 = i
      BY <1>2, <2>2
    <3>2. w[i - 1] = T[i - 1] /\ T[i - 1] <= p /\ T[i - 1] \in Int
      BY <1>3, <1>5, <3>1
    <3>3. w[i] = D[1] /\ m < D[1] /\ D[1] \in Int
      BY <1>4, <1>6, <3>1
    <3> QED BY <3>2, <3>3
  <2>3. CASE i - l \in 2..d
    <3>1. i - l \in 1..d /\ (i - l) - 1 \in 1..d /\ l + (i - l) = i /\ l + ((i - l) - 1) = i - 1
      BY <1>2, <2>3
    <3>2. w[i] = D[i - l] /\ w[i - 1] = D[(i - l) - 1]
      BY <1>4, <3>1
    <3> QED BY <1>6, <2>3, <3>2
  <2> QED BY <1>2, <2>1, <2>2, <2>3
<1>10. ASSUME NEW s \in speech, s < b PROVE \E i \in 1..(l + d) : w[i] = s + 1
  <2>0. s \in Int
    BY DEF Taped
  <2>1. CASE s < p
    <3>1. PICK i \in 1..l : T[i] = s + 1
      BY <1>5, <2>1
    <3>2. i \in 1..(l + d) /\ w[i] = s + 1
      BY <1>2, <1>3, <3>1
    <3> QED BY <3>2
  <2>2. CASE m <= s
    <3>1. PICK i \in 1..d : D[i] = s + 1
      BY <1>6, <1>10, <2>2
    <3>2. l + i \in 1..(l + d) /\ w[l + i] = s + 1
      BY <1>2, <1>4, <3>1
    <3> QED BY <3>2
  <2> QED BY <2>0, <2>1, <2>2
<1>11. Retold(w, b, A)
  BY <1>2, <1>8, <1>9, <1>10 DEF Retold
<1> QED BY <1>11 DEF w

LEMMA JoinedAt ==
    ASSUME NEW a \in Seq(Int), NEW b \in Seq(Int), NEW i \in 1..Len(b)
    PROVE  (a \o b)[Len(a) + i] = b[i]
BY JoinIs

LEMMA ToldTwice ==
    ASSUME NEW T, NEW A, NEW p \in Nat, Retold(T, p, A), NEW B \in Seq(Int), NEW O \in Seq(Int), Len(O) = 1, T = B \o O, O[1] \in A
    PROVE  Retold(T \o O, p, A)
<1> DEFINE w == T \o O
           l == Len(T)
<1>0. 1 \in 1..Len(O) /\ O \in Seq(Int)
  OBVIOUS
<1>1. T \in Seq(Int) /\ l \in Nat /\ l >= 1 /\ T[l] = O[1]
  <2>1. T \in Seq(Int) /\ Len(T) = Len(B) + 1 /\ Len(B) \in Nat /\ T[Len(B) + 1] = O[1]
    <3>1. Len(B \o O) = Len(B) + Len(O) /\ (B \o O)[Len(B) + 1] = O[1] /\ B \o O \in Seq(Int)
      BY <1>0, JoinIs
    <3> QED BY <3>1
  <2> QED BY <2>1
<1>2. w \in Seq(Int) /\ Len(w) = l + 1 /\ w[l + 1] = O[1]
  <2>1. T \o O \in Seq(Int) /\ Len(T \o O) = Len(T) + Len(O)
    BY <1>0, <1>1, JoinIs, Zenon
  <2>3. (T \o O)[Len(T) + 1] = O[1]
    BY <1>0, <1>1, JoinedAt, Zenon
  <2> QED BY <2>1, <2>3, Zenon
<1>3. \A i \in 1..l : w[i] = T[i] /\ T[i] \in Int
  BY <1>0, <1>1, JoinIs
<1>5. /\ \A i \in 1..l : T[i] - 1 \in speech /\ T[i] <= p
      /\ \A i \in 2..l : T[i - 1] < T[i] \/ (T[i - 1] = T[i] /\ T[i] \in A)
      /\ \A s \in speech : s < p => \E i \in 1..l : T[i] = s + 1
  BY DEF Retold
<1> HIDE DEF w, l
<1>6. w[l + 1] = T[l] /\ l \in 1..l
  BY <1>1, <1>2
<1>8. ASSUME NEW i \in 1..(l + 1) PROVE w[i] - 1 \in speech /\ w[i] <= p
  <2>1. CASE i \in 1..l
    BY <1>3, <1>5, <2>1
  <2>2. CASE i = l + 1
    BY <1>5, <1>6, <2>2
  <2> QED BY <1>1, <2>1, <2>2
<1>9. ASSUME NEW i \in 2..(l + 1) PROVE w[i - 1] < w[i] \/ (w[i - 1] = w[i] /\ w[i] \in A)
  <2>1. CASE i \in 2..l
    <3>1. i \in 1..l /\ i - 1 \in 1..l
      BY <1>1, <2>1
    <3>2. w[i] = T[i] /\ w[i - 1] = T[i - 1]
      BY <1>3, <3>1
    <3> QED BY <1>5, <2>1, <3>2
  <2>2. CASE i = l + 1
    <3>1. i - 1 = l /\ w[i] = O[1] /\ w[l] = T[l]
      <4>1. i - 1 = l
        BY <1>1, <2>2
      <4>2. w[i] = O[1]
        BY <1>2, <2>2
      <4>3. w[l] = T[l]
        BY <1>3, <1>6
      <4> QED BY <4>1, <4>2, <4>3
    <3> QED BY <1>1, <3>1
  <2> QED BY <1>1, <2>1, <2>2
<1>10. ASSUME NEW s \in speech, s < p PROVE \E i \in 1..(l + 1) : w[i] = s + 1
  <2>1. PICK i \in 1..l : T[i] = s + 1
    BY <1>5, <1>10
  <2>2. i \in 1..(l + 1)
    BY <1>1
  <2>3. w[i] = s + 1
    BY <1>3, <2>1
  <2> QED BY <2>2, <2>3
<1>11. Retold(w, p, A)
  BY <1>2, <1>8, <1>9, <1>10 DEF Retold
<1> QED BY <1>11 DEF w

LEMMA OverlapSize ==
    ASSUME NEW old, NEW new, NEW maximum \in Int PROVE ExactOverlap(old, new, maximum) \in Nat
<1> DEFINE fits == {n \in 2..maximum : SubSeq(old, Len(old) - n + 1, Len(old)) = SubSeq(new, 1, n)}
           Left == {maximum - n : n \in fits}
<1>1. \A n \in fits : n \in Nat /\ maximum - n \in Nat
  OBVIOUS
<1>2. ExactOverlap(old, new, maximum) = IF fits = {} THEN 0 ELSE CHOOSE n \in fits : \A m \in fits : n >= m
  BY DEF ExactOverlap
<1> HIDE DEF fits
<1>3. ASSUME fits # {} PROVE \E n \in fits : \A m \in fits : n >= m
  <2>1. Left \in SUBSET Nat /\ Left # {}
    BY <1>1, <1>3
  <2>2. PICK l \in Left : \A k \in Left : l <= k
    <3> HIDE DEF Left
    <3> QED BY <2>1, LeastNumber
  <2>3. PICK n \in fits : l = maximum - n
    OBVIOUS
  <2>4. ASSUME NEW m \in fits PROVE n >= m
    <3>1. maximum - n <= maximum - m
      BY <2>2, <2>3
    <3> QED BY <1>1, <3>1
  <2> QED BY <2>4
<1>4. fits # {} => (CHOOSE n \in fits : \A m \in fits : n >= m) \in fits
  BY <1>3
<1> QED BY <1>1, <1>2, <1>4

Parts == [text : Seq(Int), past : Int]

LEMMA AddPartStays ==
    ASSUME Taped, NEW acc \in Parts, NEW c \in Stretch, 0 <= c.first, c.first < c.past, c.past <= Samples
    PROVE  AddPart(acc, c) \in Parts
<1> DEFINE new == WordsIn(c.first, c.past)
           seconds == Larger(0, acc.past - c.first)
           maximum == Smaller(Smaller(MaxOverlapWords, OverlapLimit(seconds)), Smaller(Len(acc.text), Len(new)))
           shared == ExactOverlap(acc.text, new, maximum)
<1>1. c.first \in Nat /\ c.past \in Nat /\ c.past \in 0..Samples /\ acc.text \in Seq(Int) /\ acc.past \in Int /\ MaxOverlapWords \in Nat
  BY ChunkAssumption DEF Stretch, Parts
<1>2. new \in Seq(Int) /\ Len(new) \in Nat
  BY <1>1, HeardIs
<1>3. AddPart(acc, c) = IF new = <<>> THEN acc
                        ELSE IF acc.text = <<>> THEN [text |-> new, past |-> c.past]
                        ELSE [text |-> acc.text \o SubSeq(new, shared + 1, Len(new)), past |-> c.past]
  BY DEF AddPart
<1> HIDE DEF new
<1>4. seconds \in Int
  BY <1>1 DEF Larger
<1> HIDE DEF seconds
<1>5. maximum \in Int
  <2>1. OverlapLimit(seconds) \in Int /\ Len(acc.text) \in Nat
    BY <1>1, <1>4 DEF OverlapLimit, Larger
  <2> QED BY <1>1, <1>2, <2>1 DEF Smaller
<1> HIDE DEF maximum
<1>6. shared \in Nat
  BY <1>5, OverlapSize
<1> HIDE DEF shared
<1>7. SubSeq(new, shared + 1, Len(new)) \in Seq(Int)
  BY <1>2, <1>6
<1>8. acc.text \o SubSeq(new, shared + 1, Len(new)) \in Seq(Int)
  BY <1>1, <1>7
<1> QED BY <1>1, <1>2, <1>3, <1>8 DEF Parts

MergeChain(f, cs) == f = [n \in 0..Len(cs) |-> IF n = 0 THEN NothingSaid ELSE AddPart(f[n - 1], cs[n])]

LEMMA MergeChainExists == ASSUME Taped, NEW cs, ChunksFit(cs, speech) PROVE \E f : MergeChain(f, cs)
<1> DEFINE m == Len(cs)
           Q == Parts
           step == [p \in Q \X (1..m) |-> AddPart(p[1], cs[p[2]])]
<1>1. m \in Nat /\ NothingSaid \in Q
  BY DEF ChunksFit, NothingSaid, Parts
<1>2. ASSUME NEW q \in Q, NEW n \in 1..m PROVE AddPart(q, cs[n]) \in Q
  <2>1. cs[n] \in Stretch /\ ChunkFits(cs[n], speech)
    BY DEF ChunksFit
  <2>2. cs[n].first \in Int /\ cs[n].past \in Int /\ MaxFinal \in Nat
    BY <2>1, ChunkAssumption DEF Stretch
  <2>3. 0 <= cs[n].first /\ cs[n].first < cs[n].past /\ cs[n].past <= Samples
    BY <2>1, <2>2 DEF ChunkFits
  <2> QED BY <2>1, <2>3, AddPartStays
<1>3. IsStep(step, Q, m)
  <2> HIDE DEF m, Q
  <2> QED BY <1>2 DEF IsStep
<1>4. PICK f : f \in [0..m -> Q] /\ f[0] = NothingSaid /\ \A n \in 1..m : f[n] = step[<<f[n - 1], n>>]
  <2> HIDE DEF step, m, Q
  <2>1. PICK f : IsChain(f, Q, NothingSaid, step, m)
    BY <1>1, <1>3, ChainExists, Zenon
  <2> QED BY <2>1 DEF IsChain
<1>5. ASSUME NEW n \in 1..m PROVE f[n] = AddPart(f[n - 1], cs[n])
  <2>1. n - 1 \in 0..m
    BY <1>1, <1>5
  <2>2. f[n - 1] \in Q
    BY <1>4, <2>1
  <2> HIDE DEF Q
  <2> QED BY <1>4, <2>2
<1>6. f = [n \in 0..m |-> IF n = 0 THEN NothingSaid ELSE AddPart(f[n - 1], cs[n])]
  <2>1. \A n \in 0..m : f[n] = IF n = 0 THEN NothingSaid ELSE AddPart(f[n - 1], cs[n])
    BY <1>1, <1>4, <1>5
  <2>2. f = [n \in 0..m |-> f[n]]
    BY <1>4
  <2> HIDE DEF step, m
  <2> QED BY <2>1, <2>2
<1> QED BY <1>6 DEF MergeChain

\* Merging goes on chunk by chunk.
LEMMA MergeIs ==
    ASSUME Taped, NEW cs, ChunksFit(cs, speech)
    PROVE  \E f : /\ f[0] = NothingSaid /\ \A n \in 1..Len(cs) : f[n] = AddPart(f[n - 1], cs[n])
                  /\ MergeParts(cs) = f[Len(cs)].text
<1> DEFINE f == CHOOSE g : MergeChain(g, cs)
           m == Len(cs)
<1>1. MergeParts(cs) = f[m].text
  BY DEF MergeParts, MergeChain
<1>2. MergeChain(f, cs) /\ m \in Nat
  BY MergeChainExists DEF ChunksFit
<1> HIDE DEF f
<1>3. f[0] = NothingSaid /\ \A n \in 1..m : f[n] = AddPart(f[n - 1], cs[n])
  BY <1>2 DEF MergeChain
<1> QED BY <1>1, <1>3

-----------------------------------------------------------------------------
(* Chunks in order.                                                        *)

LEMMA ChunkIs ==
    ASSUME NEW cs, ChunksFit(cs, speech), NEW n \in 1..Len(cs)
    PROVE  /\ cs[n] \in Stretch /\ cs[n].first \in Nat /\ cs[n].past \in Nat /\ cs[n].first < cs[n].past
           /\ cs[n].past <= Samples /\ \E s \in speech : HasSample(cs[n], s)
<1>1. cs[n] \in Stretch /\ ChunkFits(cs[n], speech)
  BY DEF ChunksFit
<1>2. cs[n].first \in Int /\ cs[n].past \in Int /\ MaxFinal \in Nat
  BY <1>1, ChunkAssumption DEF Stretch
<1> QED BY <1>1, <1>2 DEF ChunkFits

LEMMA ChunkOrder ==
    ASSUME NEW cs, ChunksFit(cs, speech), NEW i \in 1..Len(cs), NEW j \in 1..Len(cs), i <= j
    PROVE  cs[i].first <= cs[j].first /\ cs[i].past <= cs[j].past
<1> DEFINE l == j - i
           G == {n \in Nat : n <= l => cs[i].first <= cs[i + n].first /\ cs[i].past <= cs[i + n].past}
<1>0. l \in Nat /\ i + l = j /\ Len(cs) \in Nat
  BY DEF ChunksFit
<1>1. 0 \in G
  <2>1. i + 0 = i /\ cs[i].first \in Nat /\ cs[i].past \in Nat
    BY ChunkIs
  <2> QED BY <2>1
<1>2. ASSUME NEW n \in Nat, n < l, n \in G PROVE n + 1 \in G
  <2> DEFINE k == i + n
  <2>1. k \in 1..Len(cs) /\ k + 1 \in 2..Len(cs) /\ (k + 1) - 1 = k /\ i + (n + 1) = k + 1 /\ k + 1 \in 1..Len(cs)
    BY <1>0, <1>2
  <2>2. cs[i].first <= cs[k].first /\ cs[i].past <= cs[k].past
    BY <1>2
  <2> HIDE DEF k
  <2>3. Overlaps(cs[k + 1], cs[k])
    BY <2>1 DEF ChunksFit
  <2>4. cs[i].first \in Nat /\ cs[k].first \in Nat /\ cs[k + 1].first \in Nat
        /\ cs[i].past \in Nat /\ cs[k].past \in Nat /\ cs[k + 1].past \in Nat
    BY <2>1, ChunkIs
  <2>4a. cs[k].first <= cs[k + 1].first /\ cs[k].past <= cs[k + 1].past
    BY <2>3 DEF Overlaps
  <2>5. cs[i].first <= cs[k + 1].first /\ cs[i].past <= cs[k + 1].past
    <3>1. cs[i].first <= cs[k + 1].first
      BY <2>2, <2>4, <2>4a
    <3>2. cs[i].past <= cs[k + 1].past
      BY <2>2, <2>4, <2>4a
    <3> QED BY <3>1, <3>2
  <2>6. cs[i].first <= cs[i + (n + 1)].first /\ cs[i].past <= cs[i + (n + 1)].past
    BY <2>1, <2>5
  <2> QED BY <2>6
<1> HIDE DEF G, l
<1>3. \A n \in 0..l : n \in G
  BY <1>0, <1>1, <1>2, CountUp
<1>4. l \in G
  BY <1>0, <1>3
<1>5. cs[i].first <= cs[i + l].first /\ cs[i].past <= cs[i + l].past
  BY <1>0, <1>4 DEF G
<1> QED BY <1>0, <1>5

\* No speech falls between two chunks, before the first or after the last.
LEMMA NoGap ==
    ASSUME Taped, NEW cs, ChunksFit(cs, speech), NEW s \in speech
    PROVE  /\ Len(cs) \in Nat /\ Len(cs) >= 1 /\ cs[1].first <= s /\ s < cs[Len(cs)].past
           /\ \A n \in 1..(Len(cs) - 1) : ~ (cs[n].past <= s /\ s < cs[n + 1].first)
<1>1. s \in Nat /\ Len(cs) \in Nat
  BY DEF Taped, ChunksFit
<1>2. PICK k \in 1..Len(cs) : HasSample(cs[k], s)
  BY DEF ChunksFit, Covered
<1>3. cs[k].first <= s /\ s < cs[k].past /\ cs[k].first \in Nat /\ cs[k].past \in Nat
  BY <1>2, ChunkIs DEF HasSample
<1>4. 1 \in 1..Len(cs) /\ Len(cs) \in 1..Len(cs) /\ 1 <= k /\ k <= Len(cs) /\ Len(cs) >= 1
  BY <1>1, <1>2
<1>5. cs[1].first <= s /\ s < cs[Len(cs)].past
  <2>1. cs[1].first <= cs[k].first /\ cs[k].past <= cs[Len(cs)].past
    BY <1>4, ChunkOrder
  <2>2. cs[1].first \in Nat /\ cs[Len(cs)].past \in Nat
    BY <1>4, ChunkIs
  <2> QED BY <1>1, <1>3, <2>1, <2>2
<1>6. ASSUME NEW n \in 1..(Len(cs) - 1) PROVE ~ (cs[n].past <= s /\ s < cs[n + 1].first)
  <2>1. n \in 1..Len(cs) /\ n + 1 \in 1..Len(cs)
    BY <1>1
  <2>2. cs[n].past \in Nat /\ cs[n + 1].first \in Nat
    BY <2>1, ChunkIs
  <2>3. CASE k <= n
    <3>1. cs[k].past <= cs[n].past
      BY <2>1, <2>3, ChunkOrder
    <3> QED BY <1>1, <1>3, <2>2, <3>1
  <2>4. CASE n + 1 <= k
    <3>1. cs[n + 1].first <= cs[k].first
      BY <2>1, <2>4, ChunkOrder
    <3> QED BY <1>1, <1>3, <2>2, <3>1
  <2>5. k <= n \/ n + 1 <= k
    BY <1>2, <2>1
  <2> QED BY <2>3, <2>4, <2>5
<1> QED BY <1>1, <1>4, <1>5, <1>6

\* The words two chunks hear.
HeardTwice(cs) ==
    {w \in Int : \E k, l \in 1..Len(cs), s \in speech :
                    k # l /\ s + 1 = w /\ HasSample(cs[k], s) /\ HasSample(cs[l], s)}

\* The text after n chunks ends with what was heard since q, before which no later chunk begins.
MergedAt(T, q, cs, n) ==
    /\ Retold(T, cs[n].past, HeardTwice(cs)) /\ T # <<>>
    /\ q \in Nat /\ q <= cs[n].past /\ EndsWith(T, q, cs[n].past)
    /\ n < Len(cs) => q <= cs[n + 1].first

Merged(acc, cs, n) == \E T, q : acc = [text |-> T, past |-> cs[n].past] /\ MergedAt(T, q, cs, n)

LEMMA FirstPart ==
    ASSUME Taped, Numbered, NEW cs, ChunksFit(cs, speech), Len(cs) >= 1
    PROVE  Merged(AddPart(NothingSaid, cs[1]), cs, 1)
<1> DEFINE c == cs[1]
           h == WordsIn(c.first, c.past)
           A == HeardTwice(cs)
<1>0. Len(cs) \in Nat /\ 1 \in 1..Len(cs) /\ Samples \in Nat
  BY ChunkAssumption DEF ChunksFit
<1>1. c.first \in Nat /\ c.past \in Nat /\ c.first < c.past /\ c.past <= Samples
  BY <1>0, ChunkIs
<1>2. PICK s \in speech : c.first <= s /\ s < c.past
  BY <1>0, ChunkIs DEF HasSample
<1>3. h # <<>>
  BY <1>1, <1>2, HeardSome
<1>4. AddPart(NothingSaid, c) = [text |-> h, past |-> c.past]
  BY <1>3 DEF AddPart, NothingSaid
<1> HIDE DEF A
<1>5. Retold(<<>>, 0, A)
  BY DEF Retold, Taped
<1>6. HeardFits(h, c.first, c.past)
  BY <1>1, HeardWords
<1>7. h \in Seq(Int)
  BY <1>6 DEF HeardFits
<1>8. Retold(h, c.past, A)
  <2>1. \A t \in speech : ~ (0 <= t /\ t < c.first)
    <3> SUFFICES ASSUME NEW t \in speech PROVE ~ (t < c.first)
      OBVIOUS
    <3>1. c.first <= t /\ t \in Nat
      BY NoGap DEF Taped
    <3> QED BY <1>1, <3>1
  <2>2. 0 <= c.first /\ c.first <= c.past /\ 0 \in Nat
    BY <1>1
  <2> HIDE DEF h, c
  <2>3. Retold(<<>> \o h, c.past, A)
    BY <1>1, <1>5, <1>6, <2>1, <2>2, ToldMore
  <2>4. <<>> \o h = h
    BY <1>7
  <2> QED BY <2>3, <2>4
<1>9. EndsWith(h, c.first, c.past)
  <2>1. h = <<>> \o h /\ <<>> \in Seq(Int)
    BY <1>7
  <2> QED BY <2>1 DEF EndsWith
<1>10. 1 < Len(cs) => c.first <= cs[1 + 1].first
  <2> SUFFICES ASSUME 1 < Len(cs) PROVE c.first <= cs[1 + 1].first
    OBVIOUS
  <2>1. 1 + 1 \in 1..Len(cs) /\ 1 <= 1 + 1
    BY <1>0
  <2> QED BY <1>0, <2>1, ChunkOrder
<1>11. c.first <= c.past
  BY <1>1
<1>12. MergedAt(h, c.first, cs, 1)
  BY <1>1, <1>3, <1>8, <1>9, <1>10, <1>11 DEF MergedAt, A
<1> QED BY <1>4, <1>12 DEF Merged

LEMMA NextPart ==
    ASSUME Taped, Numbered, NEW cs, ChunksFit(cs, speech), NEW n \in Nat, n >= 1, n < Len(cs),
           NEW acc, Merged(acc, cs, n)
    PROVE  Merged(AddPart(acc, cs[n + 1]), cs, n + 1)
<1> DEFINE c == cs[n + 1]
           b == cs[n]
           p == b.past
           A == HeardTwice(cs)
<1>0. /\ Len(cs) \in Nat /\ n \in 1..Len(cs) /\ n + 1 \in 1..Len(cs) /\ n + 1 \in 2..Len(cs) /\ (n + 1) - 1 = n
      /\ n <= n + 1 /\ Samples \in Nat /\ n \in 1..(Len(cs) - 1)
  BY ChunkAssumption DEF ChunksFit
<1>1. c \in Stretch /\ c.first \in Nat /\ c.past \in Nat /\ c.first < c.past /\ c.past <= Samples
  BY <1>0, ChunkIs
<1>2. b.first \in Nat /\ p \in Nat
  BY <1>0, ChunkIs
<1>3. b.first <= c.first /\ p <= c.past /\ p - c.first <= 2 * Padding
  BY <1>0 DEF ChunksFit, Overlaps
<1>4. PICK T, q : acc = [text |-> T, past |-> p] /\ MergedAt(T, q, cs, n)
  BY DEF Merged
<1>5. /\ Retold(T, p, A) /\ T # <<>> /\ q \in Nat /\ q <= p /\ EndsWith(T, q, p) /\ q <= c.first
  BY <1>4 DEF MergedAt
<1>6. \A i \in 1..Len(T) : T[i] <= p
  BY <1>5 DEF Retold
<1>7. PICK s \in speech : c.first <= s /\ s < c.past
  BY <1>0, ChunkIs DEF HasSample
<1> DEFINE m == From(p, c)
           O == Shared(p, c)
           D == Fresh(p, c)
           X == IF Len(O) = 1 THEN T \o O ELSE T
<1> HIDE DEF c, b, A
<1>8. WordsIn(c.first, c.past) # <<>>
  BY <1>1, <1>7, HeardSome
<1>9. AddPart(acc, c) = [text |-> X \o D, past |-> c.past]
  <2>1. 0 <= c.first
    BY <1>1
  <2>2. AddPart([text |-> T, past |-> p], c) = [text |-> X \o D, past |-> c.past]
    BY <1>1, <1>2, <1>3, <1>5, <1>6, <1>8, <2>1, AddPartIs
  <2> QED BY <1>4, <2>2
<1>10. /\ O \in Seq(Int) /\ D \in Seq(Int) /\ T \in Seq(Int) /\ \E B \in Seq(Int) : T = B \o O
       /\ m \in Nat /\ p <= m /\ c.first <= m /\ m <= c.past
  <2>1. 0 <= c.first
    BY <1>1
  <2> QED BY <1>1, <1>2, <1>3, <1>5, <2>1, PartsAre
<1>11. HeardFits(O, c.first, m) /\ HeardFits(D, m, c.past)
  BY <1>0, <1>1, <1>10, HeardWords DEF Shared, Fresh
<1>12. Retold(X, p, A)
  <2>1. CASE Len(O) = 1
    <3>1. O[1] \in A
      <4>1. 1 \in 1..Len(O)
        BY <2>1
      <4>2. O[1] - 1 \in speech /\ c.first < O[1] /\ O[1] <= m /\ O[1] \in Int
        BY <1>10, <1>11, <4>1 DEF HeardFits
      <4>3. m = p
        BY <1>1, <1>2, <4>2 DEF From, Larger
      <4> DEFINE x == O[1] - 1
      <4>4. x \in speech /\ x + 1 = O[1] /\ c.first <= x /\ x < c.past /\ b.first <= x /\ x < b.past
        BY <1>1, <1>2, <1>3, <4>2, <4>3
      <4> HIDE DEF x
      <4>5. HasSample(cs[n + 1], x) /\ HasSample(cs[n], x) /\ n + 1 # n
        BY <1>0, <4>4 DEF HasSample, b, c
      <4> QED BY <1>0, <4>2, <4>4, <4>5 DEF HeardTwice, A
    <3>2. PICK B \in Seq(Int) : T = B \o O
      BY <1>10
    <3>3. Retold(T \o O, p, A)
      BY <1>2, <1>5, <1>10, <2>1, <3>1, <3>2, ToldTwice
    <3> QED BY <2>1, <3>3
  <2>2. CASE Len(O) # 1
    BY <1>5, <2>2
  <2> QED BY <2>1, <2>2
<1> HIDE DEF X, D, O
<1>13. X \in Seq(Int)
  BY <1>12 DEF Retold
<1>14. Retold(X \o D, c.past, A)
  <2>1. \A t \in speech : ~ (p <= t /\ t < m)
    <3> SUFFICES ASSUME NEW t \in speech PROVE ~ (p <= t /\ t < m)
      OBVIOUS
    <3>1. ~ (p <= t /\ t < c.first)
      BY <1>0, NoGap DEF b, c
    <3>2. m = p \/ m = c.first
      BY DEF From, Larger
    <3>3. t \in Nat
      BY DEF Taped
    <3> QED BY <1>2, <3>1, <3>2, <3>3
  <2> HIDE DEF m
  <2> QED BY <1>1, <1>2, <1>10, <1>11, <1>12, <2>1, ToldMore
<1>15. X \o D # <<>>
  <2>1. Len(X) >= 1
    <3>1. Len(T) >= 1 /\ Len(T \o O) >= 1
      BY <1>5, <1>10
    <3> QED BY <3>1 DEF X
  <2> QED BY <1>10, <1>13, <2>1
<1>16. EndsWith(X \o D, m, c.past)
  BY <1>13 DEF EndsWith, D, Fresh
<1>17. n + 1 < Len(cs) => m <= cs[(n + 1) + 1].first
  <2> SUFFICES ASSUME n + 1 < Len(cs) PROVE m <= cs[(n + 1) + 1].first
    OBVIOUS
  <2>1. (n + 1) + 1 \in 1..Len(cs) /\ (n + 1) + 1 \in 3..Len(cs) /\ ((n + 1) + 1) - 2 = n /\ n + 1 <= (n + 1) + 1
    BY <1>0
  <2>2. p <= cs[(n + 1) + 1].first
    BY <2>1 DEF ChunksFit, b
  <2>3. c.first <= cs[(n + 1) + 1].first
    BY <1>0, <2>1, ChunkOrder DEF c
  <2> QED BY <2>2, <2>3 DEF From, Larger
<1> HIDE DEF m
<1>18. MergedAt(X \o D, m, cs, n + 1)
  BY <1>10, <1>14, <1>15, <1>16, <1>17 DEF MergedAt, c, A
<1> QED BY <1>9, <1>18 DEF Merged, c

\* The merged text in the end.
LEMMA MergedText ==
    ASSUME Taped, Numbered, NEW cs, ChunksFit(cs, speech), cs # <<>>
    PROVE  \E T : MergeParts(cs) = T /\ Retold(T, cs[Len(cs)].past, HeardTwice(cs))
<1> DEFINE m == Len(cs)
<1>1. m \in Nat /\ m >= 1 /\ m - 1 \in Nat /\ (m - 1) + 1 = m
  <2>1. cs \in Seq(Stretch)
    BY DEF ChunksFit
  <2> QED BY <2>1, EmptySeq
<1>2. PICK f : /\ f[0] = NothingSaid /\ \A n \in 1..m : f[n] = AddPart(f[n - 1], cs[n])
               /\ MergeParts(cs) = f[m].text
  BY MergeIs
<1> DEFINE G == {n \in Nat : n <= m - 1 => Merged(f[n + 1], cs, n + 1)}
<1>3. 0 \in G
  <2>1. 1 \in 1..m /\ 1 - 1 = 0 /\ 0 + 1 = 1
    BY <1>1
  <2>2. f[1] = AddPart(NothingSaid, cs[1])
    BY <1>2, <2>1
  <2>3. Merged(f[1], cs, 1)
    BY <1>1, <2>2, FirstPart
  <2> QED BY <2>1, <2>3
<1>4. ASSUME NEW n \in Nat, n < m - 1, n \in G PROVE n + 1 \in G
  <2>1. (n + 1) + 1 \in 1..m /\ ((n + 1) + 1) - 1 = n + 1 /\ n + 1 \in Nat /\ n + 1 >= 1 /\ n + 1 < m
    BY <1>1, <1>4
  <2>2. Merged(f[n + 1], cs, n + 1)
    BY <1>4
  <2>3. f[(n + 1) + 1] = AddPart(f[n + 1], cs[(n + 1) + 1])
    BY <1>2, <2>1
  <2>4. Merged(f[(n + 1) + 1], cs, (n + 1) + 1)
    BY <2>1, <2>2, <2>3, NextPart
  <2> QED BY <2>4
<1> HIDE DEF G
<1>5. \A n \in 0..(m - 1) : n \in G
  BY <1>1, <1>3, <1>4, CountUp
<1>6. m - 1 \in G
  BY <1>1, <1>5
<1>7. Merged(f[(m - 1) + 1], cs, (m - 1) + 1)
  BY <1>1, <1>6 DEF G
<1> HIDE DEF m
<1>8. Merged(f[m], cs, m)
  BY <1>1, <1>7
<1>9. PICK T, q : f[m] = [text |-> T, past |-> cs[m].past] /\ MergedAt(T, q, cs, m)
  BY <1>8 DEF Merged
<1>10. MergeParts(cs) = T
  BY <1>2, <1>9
<1> QED BY <1>9, <1>10 DEF MergedAt, m

\* Where chunks do not overlap nothing is removed.
LEMMA PlainPart ==
    ASSUME Taped, NEW c \in Stretch, NEW p \in Nat, p <= c.first, c.first < c.past, c.past <= Samples,
           \A s \in speech : ~ (p <= s /\ s < c.first), \E s \in speech : HasSample(c, s)
    PROVE  AddPart([text |-> WordsIn(0, p), past |-> p], c) = [text |-> WordsIn(0, c.past), past |-> c.past]
<1> DEFINE T == WordsIn(0, p)
           new == WordsIn(c.first, c.past)
           seconds == Larger(0, p - c.first)
           maximum == Smaller(Smaller(MaxOverlapWords, OverlapLimit(seconds)), Smaller(Len(T), Len(new)))
           shared == ExactOverlap(T, new, maximum)
<1>1. c.first \in Nat /\ c.past \in Nat /\ Samples \in Nat /\ p <= c.past /\ MaxOverlapWords \in Nat
      /\ p \in 0..Samples /\ c.first \in 0..Samples /\ c.past \in 0..Samples /\ 0 \in Nat
  BY ChunkAssumption DEF Stretch
<1>2. T \in Seq(Int) /\ new \in Seq(Int) /\ WordsIn(p, c.first) \in Seq(Int) /\ WordsIn(p, c.past) \in Seq(Int)
  BY <1>1, HeardIs
<1>3. WordsIn(0, c.past) = T \o new
  <2>0. 0 <= p /\ p <= c.past /\ p <= c.first /\ c.first <= c.past /\ c.past <= Samples
    BY <1>1
  <2>1. WordsIn(0, c.past) = T \o WordsIn(p, c.past)
    <3>1. 0 \in Nat /\ p \in Nat /\ c.past \in Nat /\ 0 <= p /\ p <= c.past /\ c.past <= Samples
      BY <1>1, <2>0
    <3> QED BY <3>1, HeardSplit
  <2>2. WordsIn(p, c.past) = WordsIn(p, c.first) \o new
    <3>1. c.first \in Nat /\ p \in Nat /\ c.past \in Nat /\ p <= c.first /\ c.first <= c.past /\ c.past <= Samples
      BY <1>1, <2>0
    <3> QED BY <3>1, HeardSplit
  <2>3. WordsIn(p, c.first) = <<>>
    BY <1>1, HeardNothing
  <2>4. <<>> \o new = new
    BY <1>2, JoinIs
  <2> HIDE DEF T, new
  <2> QED BY <2>1, <2>2, <2>3, <2>4
<1>4. new # <<>>
  <2>1. PICK s \in speech : c.first <= s /\ s < c.past
    BY DEF HasSample
  <2> QED BY <1>1, <2>1, HeardSome
<1>5. AddPart([text |-> T, past |-> p], c)
        = IF T = <<>> THEN [text |-> new, past |-> c.past]
          ELSE [text |-> T \o SubSeq(new, shared + 1, Len(new)), past |-> c.past]
  BY <1>4 DEF AddPart
<1> HIDE DEF T, new
<1>6. seconds = 0
  BY <1>1 DEF Larger
<1>7. maximum \in Int /\ maximum <= 1
  <2>1. OverlapLimit(seconds) = 0
    BY <1>6 DEF OverlapLimit
  <2>2. Len(T) \in Nat /\ Len(new) \in Nat
    BY <1>2
  <2> HIDE DEF seconds
  <2> QED BY <1>1, <2>1, <2>2 DEF Smaller
<1> HIDE DEF maximum
<1>8. shared = 0
  BY <1>7, NoOverlap
<1> HIDE DEF shared
<1>9. SubSeq(new, shared + 1, Len(new)) = new
  <2>1. SubSeq(new, 1, Len(new)) = new
    BY <1>2, JoinIs
  <2> QED BY <1>8, <2>1
<1>10. T = <<>> => T \o new = new
  BY <1>2, JoinIs
<1>11. AddPart([text |-> T, past |-> p], c) = [text |-> T \o new, past |-> c.past]
  BY <1>5, <1>9, <1>10
<1> QED BY <1>3, <1>11 DEF T

LEMMA PlainText ==
    ASSUME Taped, NEW cs, ChunksFit(cs, speech), cs # <<>>, \A i \in 2..Len(cs) : cs[i - 1].past <= cs[i].first
    PROVE  MergeParts(cs) = WordsIn(0, Samples)
<1> DEFINE m == Len(cs)
           P(n) == IF n = 0 THEN 0 ELSE cs[n].past
           Plain(n) == [text |-> WordsIn(0, P(n)), past |-> P(n)]
<1>1. m \in Nat /\ m >= 1 /\ m \in 1..m /\ Samples \in Nat
  <2>1. cs \in Seq(Stretch)
    BY DEF ChunksFit
  <2> QED BY <2>1, EmptySeq, ChunkAssumption
<1>2. PICK f : /\ f[0] = NothingSaid /\ \A n \in 1..m : f[n] = AddPart(f[n - 1], cs[n])
               /\ MergeParts(cs) = f[m].text
  BY MergeIs
<1> DEFINE G == {n \in Nat : n <= m => f[n] = Plain(n)}
<1>3. 0 \in G
  <2>1. WordsIn(0, 0) = <<>>
    BY <1>1, HeardIs
  <2> QED BY <1>2, <2>1 DEF NothingSaid
<1>4. ASSUME NEW n \in Nat, n < m, n \in G PROVE n + 1 \in G
  <2> DEFINE c == cs[n + 1]
             p == P(n)
  <2>1. n + 1 \in 1..m /\ (n + 1) - 1 = n /\ n + 1 # 0
    BY <1>1, <1>4
  <2>2. c \in Stretch /\ c.first \in Nat /\ c.past \in Nat /\ c.first < c.past /\ c.past <= Samples
        /\ \E s \in speech : HasSample(c, s)
    BY <2>1, ChunkIs
  <2>3. p \in Nat /\ p <= c.first /\ \A s \in speech : ~ (p <= s /\ s < c.first)
    <3>1. CASE n = 0
      <4>1. \A s \in speech : c.first <= s /\ s \in Nat
        BY <3>1, NoGap DEF Taped
      <4> QED BY <2>2, <3>1, <4>1
    <3>2. CASE n # 0
      <4>1. n \in 1..m /\ n + 1 \in 2..m /\ n \in 1..(m - 1)
        BY <1>1, <1>4, <3>2
      <4>2. p = cs[n].past /\ cs[n].past \in Nat
        BY <3>2, <4>1, ChunkIs
      <4>3. cs[n].past <= c.first
        BY <2>1, <4>1
      <4>4. \A s \in speech : ~ (cs[n].past <= s /\ s < c.first)
        BY <4>1, NoGap
      <4> QED BY <4>2, <4>3, <4>4
    <3> QED BY <3>1, <3>2
  <2>4. f[n + 1] = AddPart(f[n], c) /\ f[n] = [text |-> WordsIn(0, p), past |-> p]
    BY <1>2, <1>4, <2>1
  <2>5. P(n + 1) = c.past
    BY <2>1
  <2> HIDE DEF c, p
  <2>6. f[n + 1] = [text |-> WordsIn(0, c.past), past |-> c.past]
    BY <2>2, <2>3, <2>4, PlainPart
  <2> HIDE DEF P
  <2>7. f[n + 1] = Plain(n + 1)
    BY <2>5, <2>6
  <2> QED BY <2>7
<1> HIDE DEF G, m
<1>5. \A n \in 0..m : n \in G
  BY <1>1, <1>3, <1>4, CountUp
<1>6. m \in G
  BY <1>1, <1>5
<1>7. f[m] = Plain(m)
  BY <1>1, <1>6 DEF G
<1> DEFINE e == cs[m].past
<1>8. MergeParts(cs) = WordsIn(0, e) /\ e \in Nat /\ e <= Samples
  <2>1. P(m) = e
    BY <1>1
  <2>2. e \in Nat /\ e <= Samples
    BY <1>1, ChunkIs DEF m
  <2> HIDE DEF P, e
  <2> QED BY <1>2, <1>7, <2>1, <2>2
<1>9. \A s \in speech : s < e
  BY NoGap DEF m
<1> HIDE DEF e
<1>10. WordsIn(0, Samples) = WordsIn(0, e) \o WordsIn(e, Samples)
  <2>1. 0 <= e /\ e <= Samples /\ Samples <= Samples /\ 0 \in Nat
    BY <1>1, <1>8
  <2> QED BY <1>1, <1>8, <2>1, HeardSplit, Zenon
<1>11. WordsIn(e, Samples) = <<>>
  <2>1. \A s \in speech : ~ (e <= s /\ s < Samples)
    BY <1>8, <1>9 DEF Taped
  <2>2. Samples \in 0..Samples
    BY <1>1
  <2> QED BY <1>8, <2>1, <2>2, HeardNothing
<1>12. WordsIn(0, e) \in Seq(Int)
  <2>1. e \in 0..Samples
    BY <1>1, <1>8
  <2> QED BY <2>1, HeardIs
<1>13. WordsIn(0, e) \o <<>> = WordsIn(0, e)
  BY <1>12, JoinIs
<1> QED BY <1>8, <1>10, <1>11, <1>13

-----------------------------------------------------------------------------
(* The invariant.                                                          *)

ChunkSpec == ChunkInit /\ [][ChunkNext]_chunkVars

\* What is heard once in order, for any text.
WordsAre(t, cs) ==
    /\ Range(t) = {voiced[s + 1] : s \in speech}
    /\ \A i \in 2..Len(t) :
          \/ t[i - 1] < t[i]
          \/ /\ t[i - 1] = t[i]
             /\ \E k, l \in DOMAIN cs, s \in speech :
                   /\ k # l /\ voiced[s + 1] = t[i]
                   /\ cs[k].first <= s /\ s < cs[k].past
                   /\ cs[l].first <= s /\ s < cs[l].past

LEMMA ToldIsOnce ==
    ASSUME Taped, Numbered, NEW cs, ChunksFit(cs, speech), cs # <<>>
    PROVE  WordsAre(MergeParts(cs), cs)
<1>1. PICK T : MergeParts(cs) = T /\ Retold(T, cs[Len(cs)].past, HeardTwice(cs))
  BY MergedText
<1>2. /\ T \in Seq(Int)
      /\ \A i \in 1..Len(T) : T[i] - 1 \in speech
      /\ \A i \in 2..Len(T) : T[i - 1] < T[i] \/ (T[i - 1] = T[i] /\ T[i] \in HeardTwice(cs))
      /\ \A s \in speech : s < cs[Len(cs)].past => \E i \in 1..Len(T) : T[i] = s + 1
  BY <1>1 DEF Retold
<1>3. \A s \in speech : voiced[s + 1] = s + 1 /\ s < cs[Len(cs)].past /\ s \in Int
  <2> SUFFICES ASSUME NEW s \in speech PROVE voiced[s + 1] = s + 1 /\ s < cs[Len(cs)].past /\ s \in Int
    OBVIOUS
  <2>1. s + 1 \in 1..Samples /\ s \in Int
    BY ChunkAssumption DEF Taped
  <2> QED BY <2>1, NoGap DEF Numbered
<1>4. DOMAIN T = 1..Len(T) /\ DOMAIN cs = 1..Len(cs)
  BY <1>2 DEF ChunksFit
<1>5. Range(T) = {voiced[s + 1] : s \in speech}
  <2>1. ASSUME NEW w \in Range(T) PROVE w \in {voiced[s + 1] : s \in speech}
    <3>1. PICK i \in 1..Len(T) : w = T[i]
      BY <1>4 DEF Range
    <3>2. T[i] \in Int /\ T[i] - 1 \in speech /\ (T[i] - 1) + 1 = T[i]
      BY <1>2
    <3> QED BY <1>3, <3>1, <3>2
  <2>2. ASSUME NEW s \in speech PROVE voiced[s + 1] \in Range(T)
    <3>1. PICK i \in 1..Len(T) : T[i] = s + 1
      BY <1>2, <1>3
    <3> QED BY <1>3, <1>4, <3>1 DEF Range
  <2> QED BY <2>1, <2>2
<1>6. ASSUME NEW i \in 2..Len(T), T[i] \in HeardTwice(cs)
      PROVE  \E k, l \in DOMAIN cs, s \in speech :
               /\ k # l /\ voiced[s + 1] = T[i]
               /\ cs[k].first <= s /\ s < cs[k].past
               /\ cs[l].first <= s /\ s < cs[l].past
  <2>1. PICK k \in 1..Len(cs), l \in 1..Len(cs), s \in speech :
           k # l /\ s + 1 = T[i] /\ HasSample(cs[k], s) /\ HasSample(cs[l], s)
    BY <1>6 DEF HeardTwice
  <2>2. voiced[s + 1] = T[i]
    BY <1>3, <2>1
  <2> QED BY <1>4, <2>1, <2>2 DEF HasSample
<1> QED BY <1>1, <1>2, <1>5, <1>6 DEF WordsAre

LEMMA ChunksCover ==
    ASSUME NEW cs, ChunksFit(cs, speech), speech \in SUBSET Int
    PROVE  /\ \A s \in speech : \E i \in DOMAIN cs : cs[i].first <= s /\ s < cs[i].past
           /\ \A i \in DOMAIN cs : /\ 0 <= cs[i].first /\ cs[i].past <= Samples
                                   /\ cs[i].past - cs[i].first \in 1..MaxFinal
           /\ \A i, j \in DOMAIN cs : i < j => cs[i].first <= cs[j].first
<1>1. DOMAIN cs = 1..Len(cs)
  BY DEF ChunksFit
<1>2. \A s \in speech : \E i \in DOMAIN cs : cs[i].first <= s /\ s < cs[i].past
  BY <1>1 DEF ChunksFit, Covered, HasSample
<1>3. \A i \in DOMAIN cs : /\ 0 <= cs[i].first /\ cs[i].past <= Samples
                           /\ cs[i].past - cs[i].first \in 1..MaxFinal
  BY <1>1 DEF ChunksFit, ChunkFits
<1>4. \A i, j \in DOMAIN cs : i < j => cs[i].first <= cs[j].first
  <2> SUFFICES ASSUME NEW i \in DOMAIN cs, NEW j \in DOMAIN cs, i < j PROVE cs[i].first <= cs[j].first
    OBVIOUS
  <2>1. i \in 1..Len(cs) /\ j \in 1..Len(cs) /\ i <= j
    BY <1>1
  <2> QED BY <2>1, ChunkOrder
<1> QED BY <1>2, <1>3, <1>4

ChunkIInv ==
    /\ speech = {} => chunks = <<>> /\ text = <<>>
    /\ speech # {} => Taped /\ (Numbered \/ voiced = [i \in 1..Samples |-> 0])
    /\ chunks # <<>> => ChunksFit(chunks, speech)
    /\ text # <<>> => chunks # <<>>
    /\ WordsOnceInOrder /\ RepetitionKept

LEMMA SameSpoken == ASSUME speech' = speech, voiced' = voiced PROVE Spoken' = Spoken
BY SMT DEF Spoken, WordsIn

LEMMA ChunkStart == ChunkInit => ChunkIInv
BY DEF ChunkInit, ChunkIInv, WordsOnceInOrder, RepetitionKept

LEMMA ChunkGood == ChunkIInv => ChunkInv
<1> SUFFICES ASSUME ChunkIInv PROVE ChunksCoverSpeech
  BY DEF ChunkInv, ChunkIInv
<1> SUFFICES ASSUME chunks # <<>>
             PROVE  /\ \A s \in speech : \E i \in DOMAIN chunks : chunks[i].first <= s /\ s < chunks[i].past
                    /\ \A i \in DOMAIN chunks : /\ 0 <= chunks[i].first /\ chunks[i].past <= Samples
                                                /\ chunks[i].past - chunks[i].first \in 1..MaxFinal
                    /\ \A i, j \in DOMAIN chunks : i < j => chunks[i].first <= chunks[j].first
  BY DEF ChunksCoverSpeech
<1>1. ChunksFit(chunks, speech) /\ speech \in SUBSET Int
  BY DEF ChunkIInv, Taped
<1> QED BY <1>1, ChunksCover

LEMMA ChunkSame == ASSUME ChunkIInv, UNCHANGED chunkVars PROVE ChunkIInv'
<1>1. speech' = speech /\ voiced' = voiced /\ chunks' = chunks /\ text' = text
  BY DEF chunkVars
<1>2. Spoken' = Spoken
  BY <1>1, SameSpoken
<1>3. WordsOnceInOrder'
  BY <1>1 DEF ChunkIInv, WordsOnceInOrder
<1>4. RepetitionKept'
  BY <1>1, <1>2 DEF ChunkIInv, RepetitionKept
<1> QED BY <1>1, <1>3, <1>4 DEF ChunkIInv, Taped, Numbered

LEMMA ChunkStep == ASSUME ChunkIInv, ChunkNext PROVE ChunkIInv'
<1>1. ASSUME NEW S \in SUBSET (0..(Samples - 1)), NEW same \in BOOLEAN, Record(S, same) PROVE ChunkIInv'
  <2>1. /\ speech = {} /\ S # {} /\ speech' = S /\ voiced' = [i \in 1..Samples |-> IF same THEN 0 ELSE i]
        /\ chunks' = <<>> /\ text' = <<>>
    BY <1>1 DEF Record, ChunkIInv
  <2>2. Taped'
    BY <2>1 DEF Taped
  <2>3. Numbered' \/ voiced' = [i \in 1..Samples |-> 0]
    BY <2>1 DEF Numbered
  <2> QED BY <2>1, <2>2, <2>3 DEF ChunkIInv, WordsOnceInOrder, RepetitionKept
<1>2. CASE CutChunks
  <2>1. /\ speech # {} /\ speech' = speech /\ voiced' = voiced /\ text' = text /\ text = <<>>
        /\ chunks' = ApplyEdgePadding(BuildSmartRanges(Regions(speech)))
    BY <1>2 DEF CutChunks, ChunkIInv
  <2>2. Taped /\ (Numbered \/ voiced = [i \in 1..Samples |-> 0])
    BY <2>1 DEF ChunkIInv
  <2>3. ChunksFit(chunks', speech')
    BY <2>1, <2>2, CutFits DEF Taped
  <2> QED BY <2>1, <2>2, <2>3 DEF ChunkIInv, WordsOnceInOrder, RepetitionKept, Taped, Numbered
<1>3. CASE Transcribe
  <2>1. /\ chunks # <<>> /\ chunks' = chunks /\ speech' = speech /\ voiced' = voiced /\ text' = MergeParts(chunks)
        /\ speech # {}
    BY <1>3 DEF Transcribe, ChunkIInv
  <2>2. Taped /\ (Numbered \/ voiced = [i \in 1..Samples |-> 0]) /\ ChunksFit(chunks, speech)
    BY <2>1 DEF ChunkIInv
  <2> DEFINE T == MergeParts(chunks)
  <2>3. ASSUME voiced[1] # voiced[2] PROVE WordsAre(T, chunks)
    <3>1. 1 \in 1..Samples /\ 2 \in 1..Samples
      BY ChunkAssumption
    <3>2. Numbered
      BY <2>2, <2>3, <3>1
    <3> QED BY <2>1, <2>2, <3>2, ToldIsOnce
  <2>4. (\A i \in 2..Len(chunks) : chunks[i - 1].past <= chunks[i].first) => T = Spoken
    BY <2>1, <2>2, PlainText DEF Spoken
  <2> HIDE DEF T
  <2>5. WordsOnceInOrder'
    BY <2>1, <2>3 DEF WordsOnceInOrder, WordsAre, T
  <2>6. Spoken' = Spoken
    BY <2>1, SameSpoken
  <2>7. RepetitionKept'
    BY <2>1, <2>4, <2>6 DEF RepetitionKept, T
  <2> QED BY <2>1, <2>2, <2>5, <2>7 DEF ChunkIInv, Taped, Numbered
<1> QED BY <1>1, <1>2, <1>3 DEF ChunkNext

\* Cutting and merging speech loses no speech, repeats none and keeps every repetition that was
\* spoken (build_smart_ranges, apply_edge_padding, merge_transcript_parts_with_diagnostics).
THEOREM ChunkCorrect == ChunkSpec => []ChunkInv
<1>1. ChunkIInv /\ [ChunkNext]_chunkVars => ChunkIInv'
  BY ChunkStep, ChunkSame
<1> QED BY <1>1, ChunkStart, ChunkGood, PTL DEF ChunkSpec

=============================================================================
