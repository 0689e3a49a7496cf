---------------------------- MODULE ObjectStores ----------------------------
(***************************************************************************)
(* The stores of audio (storage/audio.py) and of book artifacts            *)
(* (storage/book_artifacts.py), each with a directory and with Supabase's  *)
(* object storage behind it, used by one upload per key, one reader and    *)
(* one deletion at a time.                                                 *)
(*                                                                         *)
(* Content is counted in chunks.  An upload is what its name, its declared *)
(* type and its first bytes are worth, and its number of chunks.           *)
(***************************************************************************)
EXTENDS Integers, FiniteSets

CONSTANTS AudioObjects, BookObjects,   \* storage keys
          UploadLimit                  \* max_upload_bytes, in chunks

ASSUME StoreAssumption ==
    /\ UploadLimit \in Nat \ {0}
    /\ AudioObjects \cap BookObjects = {}

ObjectKeys == AudioObjects \cup BookObjects

VARIABLES
    backend,   \* "none" until chosen, "local" or "supabase"
    stored,    \* chunks under each key, -1 where there is no object
    temp,      \* chunks in the file next to it that an upload writes, -1 where there is none
    save,      \* per key: the call of save or store, [at, bad, size, done]
    fetch,     \* the reader: [at, key, total, copy], copy the chunks of its temporary file
    erase      \* per key: the call of delete

storeVars == <<backend, stored, temp, save, fetch, erase>>

NoSave == [at |-> "none", bad |-> "no", size |-> 0, done |-> 0]
NoFetch == [at |-> "none", key |-> "", total |-> 0, copy |-> -1]

StoreTypeOK ==
    /\ \A k \in ObjectKeys :
          /\ stored[k] \in -1..UploadLimit
          /\ temp[k] \in -1..UploadLimit
          /\ save[k].at \in {"none", "stream", "replace", "post", "write", "saved", "rejected",
                             "crashed"}
          /\ erase[k] \in {"none", "calling", "true", "false", "retryable", "permanent"}
    /\ fetch.at \in {"none", "open", "copying", "ready", "failed"}

StoreInit ==
    /\ backend = "none"
    /\ stored = [k \in ObjectKeys |-> -1]
    /\ temp = [k \in ObjectKeys |-> -1]
    /\ save = [k \in ObjectKeys |-> NoSave]
    /\ fetch = NoFetch
    /\ erase = [k \in ObjectKeys |-> "none"]

\* build_audio_storage, build_book_artifact_storage
Configure(b) ==
    /\ backend = "none" /\ backend' = b
    /\ UNCHANGED <<stored, temp, save, fetch, erase>>

-----------------------------------------------------------------------------
(* Audio is saved.                                                         *)

\* safe_extension and validate_content_type come first; the first chunk, if there is one,
\* is held against the extension (validate_container).
BeginSave(k, bad, size) ==
    /\ backend # "none" /\ k \in AudioObjects /\ save[k].at = "none"
    /\ save' = [save EXCEPT ![k] = [at |-> IF bad \in {"name", "type"} THEN "rejected" ELSE "stream",
                                    bad |-> bad, size |-> size, done |-> 0]]
    /\ temp' = IF backend = "local" /\ bad \notin {"name", "type"} THEN [temp EXCEPT ![k] = 0] ELSE temp
    /\ UNCHANGED <<backend, stored, fetch, erase>>

Reject(k) ==
    /\ save' = [save EXCEPT ![k].at = "rejected"]
    /\ temp' = [temp EXCEPT ![k] = -1]

\* A chunk is counted against the limit before it is written, to the file or to the buffer.
ReadChunk(k) ==
    /\ save[k].at = "stream" /\ save[k].done < save[k].size
    /\ IF save[k].bad = "container" \/ save[k].done + 1 > UploadLimit
       THEN Reject(k)
       ELSE /\ save' = [save EXCEPT ![k].done = @ + 1]
            /\ temp' = IF backend = "local" THEN [temp EXCEPT ![k] = @ + 1] ELSE temp
    /\ UNCHANGED <<backend, stored, fetch, erase>>

\* The source is at its end; an upload without a chunk is refused.
EndOfSource(k) ==
    /\ save[k].at = "stream" /\ save[k].done = save[k].size
    /\ IF save[k].done = 0
       THEN Reject(k)
       ELSE /\ save' = [save EXCEPT ![k].at = IF backend = "local" THEN "replace" ELSE "post"]
            /\ UNCHANGED temp
    /\ UNCHANGED <<backend, stored, fetch, erase>>

\* os.replace, or an error of the file system.
ReplaceLocal(k, ok) ==
    /\ save[k].at = "replace"
    /\ IF ok
       THEN /\ stored' = [stored EXCEPT ![k] = temp[k]]
            /\ temp' = [temp EXCEPT ![k] = -1]
            /\ save' = [save EXCEPT ![k].at = "saved"]
       ELSE Reject(k) /\ UNCHANGED stored
    /\ UNCHANGED <<backend, fetch, erase>>

\* The request with x-upsert: done, refused (400 and more), or without an answer, when it may
\* have been done.  A request is carried out before its caller gives up on it, or never.
PostSupabase(k, answered, done) ==
    /\ save[k].at = "post"
    /\ stored' = IF done THEN [stored EXCEPT ![k] = save[k].done] ELSE stored
    /\ save' = [save EXCEPT ![k].at = IF answered /\ done THEN "saved" ELSE "rejected"]
    /\ UNCHANGED <<backend, temp, fetch, erase>>

\* The process dies in the middle: the temporary file stays.
CrashSave(k) ==
    /\ save[k].at \in {"stream", "replace", "post", "write"}
    /\ save' = [save EXCEPT ![k].at = "crashed"]
    /\ UNCHANGED <<backend, stored, temp, fetch, erase>>

-----------------------------------------------------------------------------
(* A book artifact is stored; the export of a book may be repeated.        *)

\* write_bytes empties the file before it writes it; the request replaces the object.
BeginStore(k, size) ==
    /\ backend # "none" /\ k \in BookObjects /\ save[k].at \in {"none", "rejected", "crashed", "saved"}
    /\ erase[k] = "none"
    /\ save' = [save EXCEPT ![k] = [at |-> IF backend = "local" THEN "write" ELSE "post",
                                    bad |-> "no", size |-> size, done |-> size]]
    /\ stored' = IF backend = "local" THEN [stored EXCEPT ![k] = 0] ELSE stored
    /\ UNCHANGED <<backend, temp, fetch, erase>>

WriteBytes(k) ==
    /\ save[k].at = "write"
    /\ stored' = [stored EXCEPT ![k] = save[k].size]
    /\ save' = [save EXCEPT ![k].at = "saved"]
    /\ UNCHANGED <<backend, temp, fetch, erase>>

-----------------------------------------------------------------------------
(* Reading.                                                                *)

\* open_range with the size the row records: the file's size, or the Content-Range of the
\* answer, has to agree with it.
OpenRange(k) ==
    /\ fetch.at = "none" /\ save[k].at = "saved" /\ k \in AudioObjects
    /\ fetch' = [NoFetch EXCEPT !.key = k, !.total = save[k].done,
                                !.at = IF stored[k] = save[k].done THEN "open" ELSE "failed"]
    /\ UNCHANGED <<backend, stored, temp, save, erase>>

\* The audio was cut short behind the program's back.
Truncate(k) ==
    /\ k \in AudioObjects /\ stored[k] > 1
    /\ stored' = [stored EXCEPT ![k] = @ - 1]
    /\ UNCHANGED <<backend, temp, save, fetch, erase>>

\* materialize: the path itself, or a temporary copy, which a failed download leaves behind
\* only until the context ends.
Materialize(k) ==
    /\ fetch.at = "none" /\ save[k].at = "saved" /\ k \in AudioObjects
    /\ fetch' = [NoFetch EXCEPT !.key = k, !.copy = IF backend = "local" THEN -1 ELSE 0,
                                !.at = IF backend = "local" THEN "ready" ELSE "copying"]
    /\ UNCHANGED <<backend, stored, temp, save, erase>>

CopyToTemp(ok) ==
    /\ fetch.at = "copying"
    /\ LET got == ok /\ stored[fetch.key] # -1
       IN  fetch' = IF got THEN [fetch EXCEPT !.at = "ready", !.copy = stored[fetch.key]]
                    ELSE [fetch EXCEPT !.at = "failed", !.copy = -1]
    /\ UNCHANGED <<backend, stored, temp, save, erase>>

EndFetch ==
    /\ fetch.at \in {"open", "ready", "failed"}
    /\ fetch' = NoFetch
    /\ UNCHANGED <<backend, stored, temp, save, erase>>

-----------------------------------------------------------------------------
(* Deletion, called again while its outcome is retryable.                  *)

BeginDelete(k) ==
    /\ save[k].at \in {"saved", "rejected"} /\ erase[k] \in {"none", "retryable"}
    /\ erase' = [erase EXCEPT ![k] = "calling"]
    /\ UNCHANGED <<backend, stored, temp, save, fetch>>

\* unlink: done, no such file, no permission, another error.
DeleteLocal(k, outcome) ==
    /\ erase[k] = "calling" /\ backend = "local"
    /\ outcome = "true" => stored[k] # -1
    /\ outcome = "false" => stored[k] = -1
    /\ erase' = [erase EXCEPT ![k] = outcome]
    /\ stored' = IF outcome = "true" THEN [stored EXCEPT ![k] = -1] ELSE stored
    /\ UNCHANGED <<backend, temp, save, fetch>>

DeleteSupabase_TimeoutIsGone(k, status, done) ==
    /\ erase[k] = "calling" /\ backend = "supabase"
    /\ status = 200 => stored[k] # -1 /\ done
    /\ status = 404 => stored[k] = -1 /\ ~ done
    /\ status \in {401, 403, 409, 429} => ~ done
    /\ stored' = IF done THEN [stored EXCEPT ![k] = -1] ELSE stored
    /\ erase' = [erase EXCEPT ![k] = CASE status = 200 -> "true"
                                       [] status \in {404, 0} -> "false"
                                       [] status \in {429, 503} -> "retryable"
                                       [] OTHER -> "permanent"]
    /\ UNCHANGED <<backend, temp, save, fetch>>

\* The answer, 0 when there is none: a request without an answer, or with an error of the
\* server, may have been carried out (storage_delete_http_error).
DeleteSupabase(k, status, done) ==
    /\ erase[k] = "calling" /\ backend = "supabase"
    /\ status = 200 => stored[k] # -1 /\ done
    /\ status = 404 => stored[k] = -1 /\ ~ done
    /\ status \in {401, 403, 409, 429} => ~ done
    /\ stored' = IF done THEN [stored EXCEPT ![k] = -1] ELSE stored
    /\ erase' = [erase EXCEPT ![k] = CASE status = 200 -> "true"
                                       [] status = 404 -> "false"
                                       [] status \in {0, 408, 429, 503} -> "retryable"
                                       [] OTHER -> "permanent"]
    /\ UNCHANGED <<backend, temp, save, fetch>>

StoreNext ==
    \/ \E b \in {"local", "supabase"} : Configure(b)
    \/ \E k \in ObjectKeys :
          \/ \E bad \in {"no", "name", "type", "container"}, n \in 0..(UploadLimit + 1) : BeginSave(k, bad, n)
          \/ ReadChunk(k) \/ EndOfSource(k) \/ CrashSave(k) \/ WriteBytes(k)
          \/ \E ok \in BOOLEAN : ReplaceLocal(k, ok)
          \/ \E answered, done \in BOOLEAN : PostSupabase(k, answered, done)
          \/ \E n \in 1..UploadLimit : BeginStore(k, n)
          \/ OpenRange(k) \/ Materialize(k) \/ Truncate(k) \/ BeginDelete(k)
          \/ \E o \in {"true", "false", "retryable", "permanent"} : DeleteLocal(k, o)
          \/ \E s \in {0, 200, 401, 404, 429, 503}, done \in BOOLEAN : DeleteSupabase(k, s, done)
    \/ \E ok \in BOOLEAN : CopyToTemp(ok)
    \/ EndFetch

-----------------------------------------------------------------------------
(* Properties.                                                             *)

\* What save reported, the row will say: the object exists under its key with that size, or a
\* part of it was lost behind the program's back, or its deletion was asked for; never is more
\* there than was read, nothing is there of an upload whose container, name or type is wrong,
\* and nothing of an upload that is over the limit (LocalAudioStorage.save,
\* SupabaseAudioStorage.save).
SavedIsWhole ==
    \A k \in AudioObjects :
       /\ save[k].at = "saved" =>
             /\ save[k].done = save[k].size /\ save[k].size \in 1..UploadLimit
             /\ stored[k] # -1 \/ erase[k] # "none"
       /\ stored[k] # -1 => stored[k] <= save[k].size /\ save[k].bad = "no"

\* A directory never shows a part of an upload under its key, and keeps no temporary file of a
\* call that ended, well or with an exception; only a crash leaves one.
NothingHalfWritten ==
    \A k \in AudioObjects :
       /\ temp[k] # -1 => backend = "local" /\ save[k].at \in {"stream", "replace", "crashed"}
       /\ backend = "local" /\ stored[k] # -1 => save[k].at = "saved"

\* A deletion that answers, "deleted" or "was not there", left nothing behind under the key
\* (delete).
DeletedIsGone == \A k \in ObjectKeys : erase[k] \in {"true", "false"} => stored[k] = -1

\* Both stores on both backends: what save reports is there whole, a failed save leaves
\* nothing under a key, and what delete reports gone is gone (save, store, delete).
StoreInv == StoreTypeOK /\ SavedIsWhole /\ NothingHalfWritten /\ DeletedIsGone

=============================================================================
