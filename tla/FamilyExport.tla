---------------------------- MODULE FamilyExport ----------------------------
(***************************************************************************)
(* The export of a family's data (src/mura/privacy.py).  It reads one      *)
(* table after the other in a session whose statements each see what is    *)
(* committed then, while workers and other requests go on writing.         *)
(*                                                                         *)
(* Results and chapters carry no family of their own: they are read by the *)
(* recordings and books read before.  An object is named by its recording  *)
(* or book; claims and decisions stand for the rest of the archive.        *)
(***************************************************************************)
EXTENDS Integers, Sequences

CONSTANTS ExportedRecordings, OtherRecordings,   \* of the family, and of another one
          ExportedBooks, OtherBooks

VARIABLES
    tables,    \* table -> the objects in it, each an identifier
    position,  \* the next query of the export, 0 before and Len(QueryOrder) + 1 after it
    read,      \* table -> what the export read
    stable     \* table -> what was there the whole time since the export began

exportVars == <<tables, position, read, stable>>

QueryOrder == <<"recordings", "results", "claims", "decisions", "books", "chapters">>
ExportTables == {QueryOrder[i] : i \in DOMAIN QueryOrder}
Recorded == ExportedRecordings \cup OtherRecordings
Written == ExportedBooks \cup OtherBooks
Ours == ExportedRecordings \cup ExportedBooks
Nothing == [t \in ExportTables |-> {}]

ExportInit ==
    /\ tables = [Nothing EXCEPT !["recordings"] = OtherRecordings, !["results"] = OtherRecordings,
                                !["books"] = OtherBooks, !["chapters"] = OtherBooks]
    /\ position = 0 /\ read = Nothing /\ stable = Nothing

Store(new) ==
    /\ tables' = new
    /\ stable' = [t \in ExportTables |-> stable[t] \cap new[t]]
    /\ UNCHANGED <<position, read>>

\* A recording is uploaded; its job ends with the result and the archive's claims at once.
UploadRecording(r) ==
    /\ r \notin tables["recordings"] /\ Store([tables EXCEPT !["recordings"] = @ \cup {r}])

CompleteRecording(r) ==
    /\ r \in tables["recordings"] \ tables["results"]
    /\ Store([tables EXCEPT !["results"] = @ \cup {r}, !["claims"] = @ \cup {r}])

\* A conflict decision about claims that are there.
DecideClaims(r) ==
    /\ r \in tables["claims"] \ tables["decisions"]
    /\ Store([tables EXCEPT !["decisions"] = @ \cup {r}])

\* delete_recording_content: the recording's rows go together; decisions stay.
DeleteRecordingRows(r) ==
    /\ r \in tables["recordings"] \cap ExportedRecordings
    /\ Store([tables EXCEPT !["recordings"] = @ \ {r}, !["results"] = @ \ {r}, !["claims"] = @ \ {r}])

CreateBookRow(b) == b \notin tables["books"] /\ Store([tables EXCEPT !["books"] = @ \cup {b}])

WriteChapter(b) ==
    b \in tables["books"] \ tables["chapters"] /\ Store([tables EXCEPT !["chapters"] = @ \cup {b}])

DeleteBookRows(b) ==
    /\ b \in tables["books"] \cap ExportedBooks
    /\ Store([tables EXCEPT !["books"] = @ \ {b}, !["chapters"] = @ \ {b}])

\* export_family_data: the family is there; the member list is read with it.
StartExport ==
    /\ position = 0
    /\ position' = 1 /\ read' = Nothing /\ stable' = tables
    /\ UNCHANGED tables

\* The results of the recordings that were read.
ResultRows(have) == tables["results"] \cap have["recordings"]

\* Snapshots, plans, chapters, continuity and files of the books that were read.
BookParts(have) == tables["chapters"] \cap have["books"]

FamilyRows_WithResult(table, have) ==
    IF table = "recordings" THEN tables[table] \cap Ours \cap tables["results"]
    ELSE tables[table] \cap Ours

\* The rows of a table that carry the family.
FamilyRows(table, have) == tables[table] \cap Ours

\* export_family_data, one query.
RunQuery ==
    /\ position \in DOMAIN QueryOrder
    /\ LET table == QueryOrder[position]
       IN  read' = [read EXCEPT ![table] = CASE table = "results" -> ResultRows(read)
                                             [] table = "chapters" -> BookParts(read)
                                             [] OTHER -> FamilyRows(table, read)]
    /\ position' = position + 1
    /\ UNCHANGED <<tables, stable>>

Exported == position = Len(QueryOrder) + 1

\* The document: a recording with its result or without, what was heard in the results, the
\* archive's rows (stories and events are claims listed again), the objects in the stores, and
\* a book with its parts.
RecordingEntries == {[recording |-> r, result |-> r \in read["results"]] : r \in read["recordings"]}
EvidenceEntries == {e.recording : e \in {e \in RecordingEntries : e.result}}
ArchiveEntries == read["claims"] \cup read["decisions"]
ObjectManifest == read["recordings"] \cup read["chapters"]
BookEntries == {[book |-> b, parts |-> b \in read["chapters"]] : b \in read["books"]}

ExportNext ==
    \/ \E r \in ExportedRecordings : UploadRecording(r)
    \/ \E r \in Recorded : CompleteRecording(r) \/ DecideClaims(r) \/ DeleteRecordingRows(r)
    \/ \E b \in ExportedBooks : CreateBookRow(b)
    \/ \E b \in Written : WriteChapter(b) \/ DeleteBookRows(b)
    \/ StartExport \/ RunQuery

-----------------------------------------------------------------------------
(* Properties.                                                             *)

\* ExportTables hold recordings or books.
ExportTypeOK ==
    /\ position \in 0..(Len(QueryOrder) + 1)
    /\ \A t \in ExportTables : {tables[t], read[t], stable[t]} \subseteq SUBSET (Recorded \cup Written)

\* Nothing of another family is in the export, although results and the parts of books do not
\* say whose they are (export_family_data).
OnlyThisFamily ==
    \A t \in ExportTables : read[t] \subseteq Ours

\* What was there from the start of the export to its end is in it, with the result of its
\* recording, its evidence and the parts of its book, whatever else was written meanwhile.  So
\* a claim without its recording, or a book without its chapters, can only come from a change
\* during the export.  The stores' manifest lists nothing the export does not have.
StableIsExported ==
    Exported =>
        /\ \A t \in ExportTables : stable[t] \cap Ours \subseteq read[t]
        /\ stable["results"] \cap Ours \subseteq EvidenceEntries
        /\ (stable["claims"] \cup stable["decisions"]) \cap Ours \subseteq ArchiveEntries
        /\ \A b \in stable["chapters"] \cap Ours : [book |-> b, parts |-> TRUE] \in BookEntries
        /\ ObjectManifest \subseteq read["recordings"] \cup read["books"]

\* An export holds rows of its family only, and all that stood still while it ran
\* (export_family_data).
ExportInv == ExportTypeOK /\ OnlyThisFamily /\ StableIsExported

=============================================================================
