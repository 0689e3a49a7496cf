------------------------ MODULE StorageReconciliation ------------------------
(***************************************************************************)
(* The report-only reconciliation of the rows that name stored objects     *)
(* with the objects (ops/storage_reconciliation.py), run while the service *)
(* uploads and deletes.                                                    *)
(*                                                                         *)
(* First the audio, then the book artifacts: the store is listed object by *)
(* object, then the rows are read and compared with that listing; a local  *)
(* object is hashed when its row is compared.  Whether an object is an     *)
(* orphan is judged by the time the run began.                             *)
(***************************************************************************)
EXTENDS Integers, FiniteSets

CONSTANTS AudioKeys, BookKeys,   \* storage keys
          UnsafeKeys,            \* those with unsafe segments (validate_key_safety)
          LocalStore             \* the backend is a directory, so objects can be hashed

ASSUME ReconcileAssumption == AudioKeys \cap BookKeys = {} /\ LocalStore \in BOOLEAN

StoredKeys == AudioKeys \cup BookKeys

VARIABLES
    rowOf,      \* per key: {}, or "row" and which properties of the object the row records
    object,     \* per key: [there, old, damage]
    uploading,  \* keys whose object is saved and whose row is not yet published
    erasing,    \* keys whose row is deleted and whose object is queued for erasure
    run,        \* the reconciliation: [at, listed, aged, todo]
    report,     \* [status, issues]
    touched     \* history: keys whose row or object changed since the run began

reconcileVars == <<rowOf, object, uploading, erasing, run, report, touched>>

NoObject == [there |-> FALSE, old |-> FALSE, damage |-> "none"]
NoRun == [at |-> "idle", listed |-> [k \in {} |-> NoObject], aged |-> {}, todo |-> {}]
NoReport == [status |-> "none", issues |-> {}]

ReconcileTypeOK ==
    /\ \A k \in StoredKeys :
          /\ rowOf[k] = {} \/ "row" \in rowOf[k]
          /\ object[k].damage \in {"none", "size", "content"}
    /\ uploading \cap erasing = {}
    /\ \A k \in uploading \cup erasing : rowOf[k] = {}
    /\ run.at \in {"idle", "audio_list", "audio_rows", "book_list", "book_rows", "done"}
    /\ report.status \in {"none", "PASS", "FAIL", "INCOMPLETE"}

ReconcileInit ==
    /\ rowOf = [k \in StoredKeys |-> {}]
    /\ object = [k \in StoredKeys |-> NoObject]
    /\ uploading = {} /\ erasing = {}
    /\ run = NoRun
    /\ report = NoReport
    /\ touched = {}

Touch(k) == touched' = IF run.at = "idle" THEN {} ELSE touched \cup {k}

-----------------------------------------------------------------------------
(* The service (StorageCleanup), and accidents.                            *)

Save(k) ==
    /\ rowOf[k] = {} /\ ~ object[k].there /\ k \notin uploading \cup erasing
    /\ object' = [object EXCEPT ![k].there = TRUE]
    /\ uploading' = uploading \cup {k}
    /\ Touch(k)
    /\ UNCHANGED <<rowOf, erasing, run, report>>

\* Rows of earlier versions lack the size, the hash or both.
Publish(k, recorded) ==
    /\ k \in uploading
    /\ rowOf' = [rowOf EXCEPT ![k] = {"row"} \cup recorded]
    /\ uploading' = uploading \ {k}
    /\ Touch(k)
    /\ UNCHANGED <<object, erasing, run, report>>

DeleteRow(k) ==
    /\ rowOf[k] # {}
    /\ rowOf' = [rowOf EXCEPT ![k] = {}]
    /\ erasing' = erasing \cup {k}
    /\ Touch(k)
    /\ UNCHANGED <<object, uploading, run, report>>

Erase(k) ==
    /\ k \in erasing
    /\ object' = [object EXCEPT ![k] = NoObject]
    /\ erasing' = erasing \ {k}
    /\ Touch(k)
    /\ UNCHANGED <<rowOf, uploading, run, report>>

\* The upload's process dies, and the object is left without a row.
Abandon(k) ==
    /\ k \in uploading
    /\ uploading' = uploading \ {k}
    /\ UNCHANGED <<rowOf, object, erasing, run, report, touched>>

\* A referenced object is lost or changed (what is wrong with another one is never looked at).
Damage(k, d) ==
    /\ rowOf[k] # {} /\ object[k].there /\ object[k].damage = "none"
    /\ object' = [object EXCEPT ![k] = IF d = "lost" THEN NoObject ELSE [@ EXCEPT !.damage = d]]
    /\ Touch(k)
    /\ UNCHANGED <<rowOf, uploading, erasing, run, report>>

\* min_orphan_age_seconds pass, which is longer than an upload takes; only the age at the start
\* of the run counts.
GetsOld(k) ==
    /\ run.at = "idle"
    /\ object[k].there /\ ~ object[k].old /\ k \notin uploading
    /\ object' = [object EXCEPT ![k].old = TRUE]
    /\ UNCHANGED <<rowOf, uploading, erasing, run, report, touched>>

-----------------------------------------------------------------------------
(* The reconciliation.                                                     *)

KeysOf(domain) == IF domain = "audio" THEN AudioKeys ELSE BookKeys

DomainOf(at) == IF at \in {"audio_list", "audio_rows"} THEN "audio" ELSE "book"

StartRun ==
    /\ run.at = "idle"
    /\ run' = [NoRun EXCEPT !.at = "audio_list", !.todo = AudioKeys,
                            !.aged = {k \in StoredKeys : object[k].there /\ object[k].old}]
    /\ report' = [status |-> "PASS", issues |-> {}]
    /\ touched' = {}
    /\ UNCHANGED <<rowOf, object, uploading, erasing>>

\* scan_local_storage, query_supabase_storage_objects: one object after the other.  A file
\* that cannot be read is skipped.
ListObject(k) ==
    /\ run.at \in {"audio_list", "book_list"} /\ k \in run.todo
    /\ run' = [run EXCEPT !.todo = @ \ {k},
                 !.listed = IF object[k].there
                            THEN [j \in DOMAIN @ \cup {k} |-> IF j = k THEN object[k] ELSE @[j]]
                            ELSE @]
    /\ UNCHANGED <<rowOf, object, uploading, erasing, report, touched>>

SkipObject(k) ==
    /\ LocalStore
    /\ run.at \in {"audio_list", "book_list"} /\ k \in run.todo /\ object[k].there
    /\ run' = [run EXCEPT !.todo = @ \ {k}]
    /\ Touch(k)
    /\ UNCHANGED <<rowOf, object, uploading, erasing, report>>

RowsNext == IF run.at = "audio_list" THEN "audio_rows" ELSE "book_rows"

Listed ==
    /\ run.at \in {"audio_list", "book_list"} /\ run.todo = {}
    /\ run' = [run EXCEPT !.at = RowsNext]
    /\ UNCHANGED <<rowOf, object, uploading, erasing, report, touched>>

\* The listing fails as a whole: the report is incomplete, and goes on with no objects.
ListFails ==
    /\ run.at \in {"audio_list", "book_list"}
    /\ run' = [run EXCEPT !.at = RowsNext, !.todo = {}, !.listed = NoRun.listed]
    /\ report' = [report EXCEPT !.status = "INCOMPLETE", !.issues = @ \cup {<<"all", "storage_error">>}]
    /\ UNCHANGED <<rowOf, object, uploading, erasing, touched>>

RowIssues_TrustsTheListing(k) ==
    IF k \in UnsafeKeys THEN {"invalid_key"}
    ELSE IF k \notin DOMAIN run.listed THEN {"missing"}
    ELSE {i \in {"size_mismatch"} : "size" \in rowOf[k] /\ run.listed[k].damage = "size"}

\* What is wrong with the object of a row, given the listing; the hash is taken now.
RowIssues(k) ==
    IF k \in UnsafeKeys THEN {"invalid_key"}
    ELSE IF k \notin DOMAIN run.listed THEN {"missing"}
    ELSE {i \in {"size_mismatch", "hash_mismatch"} :
            \/ i = "size_mismatch" /\ "size" \in rowOf[k] /\ run.listed[k].damage = "size"
            \/ i = "hash_mismatch" /\ "sha256" \in rowOf[k] /\ LocalStore
               /\ object[k].there /\ object[k].damage # "none"}

\* Objects without a row, of the required age when the run began.
Orphans(K, matched) == ((DOMAIN run.listed \cap K) \ matched) \cap run.aged

\* reconcile, after a listing: the rows, the orphans, and after the books the verdict.
CompareRows ==
    LET K == KeysOf(DomainOf(run.at))
        rows == {k \in K : rowOf[k] # {}}
        matched == {k \in rows \ UnsafeKeys : k \in DOMAIN run.listed}
        found == report.issues \cup (UNION {{<<k, i>> : i \in RowIssues(k)} : k \in rows})
                               \cup {<<k, "orphan">> : k \in Orphans(K, matched)}
    IN  /\ run.at \in {"audio_rows", "book_rows"}
        /\ run' = IF run.at = "audio_rows" THEN [run EXCEPT !.at = "book_list", !.todo = BookKeys,
                                                                     !.listed = NoRun.listed]
                  ELSE [run EXCEPT !.at = "done", !.listed = NoRun.listed]
        /\ report' = [issues |-> found,
                      status |-> IF run.at = "book_rows" /\ report.status # "INCOMPLETE" /\ found # {}
                                 THEN "FAIL" ELSE report.status]
        /\ UNCHANGED <<rowOf, object, uploading, erasing, touched>>

ReconcileNext ==
    \/ \E k \in StoredKeys : run.at # "done" /\   \* bound: the model ends with the report
          \/ Save(k) \/ DeleteRow(k) \/ Erase(k) \/ Abandon(k) \/ GetsOld(k)
          \/ \E recorded \in {{}, {"size"}, {"size", "sha256"}} : Publish(k, recorded)
          \/ \E d \in {"lost", "size", "content"} : Damage(k, d)
          \/ ListObject(k) \/ SkipObject(k)
    \/ StartRun \/ Listed \/ ListFails \/ CompareRows

-----------------------------------------------------------------------------
(* Properties.                                                             *)

\* A finished report is exact about everything that did not change and could be read while it
\* was made: a row without its object is missing and nothing else is, an object without a row
\* is an orphan when it was old enough at the start, an upload in progress never is, and a
\* mismatch is reported when the row records what it takes to see it (reconcile).
ReportIsRight ==
    run.at = "done" /\ report.status # "INCOMPLETE" =>
       \A k \in StoredKeys \ (touched \cup UnsafeKeys) :
          LET row == rowOf[k] # {}
              here == object[k]
          IN  /\ <<k, "missing">> \in report.issues <=> row /\ ~ here.there
              /\ <<k, "orphan">> \in report.issues <=> ~ row /\ here.there /\ k \in run.aged
              /\ <<k, "size_mismatch">> \in report.issues
                    <=> row /\ here.there /\ here.damage = "size" /\ "size" \in rowOf[k]
              /\ k \in uploading => <<k, "orphan">> \notin report.issues

\* A run that ends with PASS has seen every object that was referenced all along, undamaged as
\* far as rows and backend allow to tell, and every old object that was not referenced.
PassMeansIntact ==
    run.at = "done" /\ report.status = "PASS" =>
       \A k \in StoredKeys \ touched :
          /\ rowOf[k] # {} =>
                /\ k \notin UnsafeKeys /\ object[k].there
                /\ object[k].damage # "none" =>
                      ~ (LocalStore /\ "sha256" \in rowOf[k])
          /\ rowOf[k] = {} /\ object[k].there => k \notin run.aged

\* A report is right about what it lists, and one without issues means that rows and objects
\* agree, as far as both stood still while it was made (reconcile).
ReconcileInv == ReconcileTypeOK /\ ReportIsRight /\ PassMeansIntact

=============================================================================
