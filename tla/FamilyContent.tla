--------------------------- MODULE FamilyContent ----------------------------
(***************************************************************************)
(* What a family owns, recordings and books, as the requests create and    *)
(* delete it: the creation quotas, the pinning of a book's sources, and    *)
(* the deletions of recordings, books, families and accounts, which queue  *)
(* the erasure of every stored object in the transaction that removes the  *)
(* rows.  Transactions are lock statements (RowLocks) and a last step that *)
(* writes and commits, as in Identity; the workers' processing is one step *)
(* here (RecordingJobs and BookJobs have it in detail).                    *)
(*                                                                         *)
(* A recording has one unit of bytes and a duration in units of time, 0    *)
(* when it could not be probed.  Requests are authorised before they start *)
(* (Identity) and nothing here depends on the role.                        *)
(***************************************************************************)
EXTENDS RowLocks, Functions

CONSTANTS
    Users, NumFamilies,
    Recs,             \* recording ids, used once each
    Books,            \* book ids, used once each
    NoUser, NoBook,
    Durations,        \* probed durations, 0 for none
    MaxDuration,      \* recording_max_audio_seconds
    MaxActive,        \* recording_max_active_per_family
    MaxFamilyDaily,   \* recording_max_created_per_family_per_day
    MaxUserDaily,     \* recording_max_created_per_user_per_day
    MaxStorage,       \* family_max_audio_storage_bytes
    MaxUserSeconds,   \* user_audio_seconds_per_day
    MaxFamilySeconds, \* family_audio_seconds_per_day
    MaxActiveBooks,   \* book_max_active_per_family
    MaxBooksDaily,    \* book_max_created_per_family_per_day
    MaxSources        \* MAX_BOOK_SOURCE_RECORDINGS

\* The tables have finitely many rows; recordings and books have ids, and objects in the
\* store, of their own.
ASSUME ContentAssumption ==
    /\ NoUser \notin Users /\ NoBook \notin Books
    /\ NumFamilies \in Nat
    /\ IsFiniteSet(Recs) /\ IsFiniteSet(Books)
    /\ Recs \cap Books = {} /\ "none" \notin Recs \cup Books
    /\ Durations \subseteq Nat
    /\ {MaxDuration, MaxActive, MaxFamilyDaily, MaxUserDaily, MaxStorage, MaxUserSeconds,
        MaxFamilySeconds, MaxActiveBooks, MaxBooksDaily} \subseteq Nat

Families == 1..NumFamilies

VARIABLES
    users,      \* the accounts that exist
    families,   \* the families that exist
    rec,        \* RecordingRow and its job
    book,       \* BookRow with its snapshot and job
    queued,     \* StorageCleanupJobRow: the objects whose erasure is queued
    req         \* the request a thread serves

dataVars == <<users, families, rec, book, queued>>
vars     == <<users, families, rec, book, queued, req, held, want>>

RecordingRow ==
    [status : {"unused", "active", "completed", "failed", "deleted"},
     family : 0..NumFamilies, user : Users \cup {NoUser}, recent : BOOLEAN, dur : 0..MaxDuration]

BookRow ==
    [status : {"unused", "active", "terminal", "deleted"},
     family : 0..NumFamilies, user : Users \cup {NoUser}, recent : BOOLEAN,
     sources : SUBSET Recs, supersedes : Books \cup {NoBook}]

NoRecording == [status |-> "unused", family |-> 0, user |-> NoUser, recent |-> FALSE, dur |-> 0]
NoBookRow   == [status |-> "unused", family |-> 0, user |-> NoUser, recent |-> FALSE,
                sources |-> {}, supersedes |-> NoBook]

\* on is the row a request is about: the new or deleted recording, the deleted or
\* superseded book.
NoRequest == [op |-> "none", at |-> "idle", user |-> NoUser, family |-> 0, on |-> "none",
              book |-> NoBook, dur |-> 0, sources |-> {}]

UserLock(u)   == <<"user", u>>
FamilyLock(f) == <<"family", f>>
RecLock(r)    == <<"recording", r>>
BookLock(b)   == <<"book", b>>

Live(r)     == rec[r].status \in {"active", "completed", "failed"}
LiveBook(b) == book[b].status \in {"active", "terminal"}

RecsOf(f)  == {r \in Recs : Live(r) /\ rec[r].family = f}
BooksOf(f) == {b \in Books : LiveBook(b) /\ book[b].family = f}

\* get_eligible_recordings
Eligible(f) == {r \in RecsOf(f) : rec[r].status = "completed"}

TypeOK ==
    /\ users \subseteq Users
    /\ families \subseteq Families
    /\ rec \in [Recs -> RecordingRow]
    /\ book \in [Books -> BookRow]
    /\ queued \subseteq Recs \cup Books

Init ==
    /\ users = Users
    /\ families = Families
    /\ rec = [r \in Recs |-> NoRecording]
    /\ book = [b \in Books |-> NoBookRow]
    /\ queued = {}
    /\ req = [t \in Threads |-> NoRequest]
    /\ InitLocks

-----------------------------------------------------------------------------
(* Transactions.                                                           *)

LockNext(t) == LockRow(t) /\ UNCHANGED <<dataVars, req>>

Runs(t, op, s) == req[t].op = op /\ req[t].at = s /\ Granted(t)

Proceed(t, r, s, rows) ==
    /\ req' = [req EXCEPT ![t] = [r EXCEPT !.at = s]]
    /\ Statement(t, AnyOrder(t, rows))

Begin(t, r, s, rows) == Proceed(t, r, s, rows) /\ UNCHANGED dataVars

Finish(t) == ReleaseAll(t) /\ req' = [req EXCEPT ![t] = NoRequest]

Refuse(t) == Finish(t) /\ UNCHANGED dataVars

DeadlockAbort(t) == (\E s \in Threads \ {t} : InCycle(s, t)) /\ Refuse(t)

-----------------------------------------------------------------------------
(* create_family_recording.                                                *)

SumOver(f, S) == FoldFunctionOnSet(LAMBDA a, b : a + b, 0, f, S)

Seconds(S) == SumOver([r \in Recs |-> rec[r].dur], S)

Recent(S) == {r \in S : rec[r].recent}

ByUser(u) == {r \in Recs : Live(r) /\ rec[r].user = u}

BeginRecording_NoUserLock(t, u, f, r, d) ==
    /\ rec[r].status = "unused" /\ r \notin queued /\ \A s \in Threads : req[s].on # r
    /\ u \in users /\ f \in families /\ d <= MaxDuration
    /\ Begin(t, [NoRequest EXCEPT !.op = "create_recording", !.user = u, !.family = f,
                                  !.on = r, !.dur = d],
             "user", {})

\* A recording that is too long is refused before anything is locked; then the
\* account is locked, and only then its family.
BeginRecording(t, u, f, r, d) ==
    /\ rec[r].status = "unused" /\ r \notin queued /\ \A s \in Threads : req[s].on # r
    /\ u \in users /\ f \in families /\ d <= MaxDuration
    /\ Begin(t, [NoRequest EXCEPT !.op = "create_recording", !.user = u, !.family = f,
                                  !.on = r, !.dur = d],
             "user", {UserLock(u)})

RecordingUser(t) ==
    LET q == req[t]
    IN  /\ Runs(t, "create_recording", "user")
        /\ UNCHANGED dataVars
        /\ IF q.user \in users THEN Proceed(t, q, "family", {FamilyLock(q.family)}) ELSE Finish(t)

\* RecordingQuotaService: each count is a statement after the locks.
RecordingAllowed(u, f, d) ==
    /\ Cardinality({r \in RecsOf(f) : rec[r].status = "active"}) < MaxActive
    /\ Cardinality(Recent(RecsOf(f))) < MaxFamilyDaily
    /\ Cardinality(Recent(ByUser(u))) < MaxUserDaily
    /\ Cardinality(RecsOf(f)) + 1 <= MaxStorage
    /\ d # 0 => /\ Seconds(Recent(ByUser(u))) + d <= MaxUserSeconds
                /\ Seconds(Recent(RecsOf(f))) + d <= MaxFamilySeconds

RecordingQuota(t) ==
    LET q == req[t]
    IN  /\ Runs(t, "create_recording", "family")
        /\ UNCHANGED dataVars
        /\ IF q.family \in families /\ RecordingAllowed(q.user, q.family, q.dur)
           THEN Proceed(t, q, "publish", {})
           ELSE Finish(t)

\* The upload, with the locks held, and the publishing commit.  Either may fail; the
\* compensation deletes the object or queues its erasure (StorageCleanup).
PublishRecording(t) ==
    LET q == req[t]
    IN  /\ Runs(t, "create_recording", "publish")
        /\ \/ Refuse(t)
           \/ /\ rec' = [rec EXCEPT ![q.on] = [status |-> "active", family |-> q.family,
                           user |-> q.user, recent |-> TRUE, dur |-> q.dur]]
              /\ Finish(t)
              /\ UNCHANGED <<users, families, book, queued>>
           \/ /\ queued' = queued \cup {q.on}
              /\ Finish(t)
              /\ UNCHANGED <<users, families, rec, book>>

-----------------------------------------------------------------------------
(* create_family_book and regenerate_family_book.                          *)

NewBook(b) == book[b].status = "unused" /\ \A s \in Threads : req[s].book # b

\* requested is {} for no selection; one that names another family's recording is
\* refused without a change.
BeginBook(t, u, f, b, requested) ==
    /\ NewBook(b) /\ u \in users /\ f \in families /\ requested \subseteq RecsOf(f)
    /\ Begin(t, [NoRequest EXCEPT !.op = "create_book", !.user = u, !.family = f,
                                  !.book = b, !.sources = requested],
             "family", {FamilyLock(f)})

\* regenerate reads the old book and its snapshot first, in sessions of its own.  It
\* takes the sources the request names, or those of the snapshot, never all eligible.
BeginRegenerate(t, u, b, old, S) ==
    /\ NewBook(b) /\ u \in users /\ LiveBook(old)
    /\ S # {} /\ (S = book[old].sources \/ S \subseteq RecsOf(book[old].family))
    /\ Begin(t, [NoRequest EXCEPT !.op = "create_book", !.user = u,
                   !.family = book[old].family, !.book = b, !.sources = S, !.on = old],
             "family", {FamilyLock(book[old].family)})

\* BookQuotaService and resolve_book_source_ids; the budget (CostGuard) may refuse.
BookAllowed(f) ==
    /\ Cardinality({b \in BooksOf(f) : book[b].status = "active"}) < MaxActiveBooks
    /\ Cardinality({b \in BooksOf(f) : book[b].recent}) < MaxBooksDaily

ResolvedSources(f, requested) == IF requested = {} THEN Eligible(f) ELSE requested

SourcesOk(f, S) == S # {} /\ S \subseteq Eligible(f) /\ Cardinality(S) <= MaxSources

BookQuota(t) ==
    LET q == req[t]
        S == ResolvedSources(q.family, q.sources)
    IN  /\ Runs(t, "create_book", "family")
        /\ UNCHANGED dataVars
        /\ \/ Finish(t)
           \/ /\ q.family \in families /\ BookAllowed(q.family) /\ SourcesOk(q.family, S)
              /\ Proceed(t, [q EXCEPT !.sources = S], "sources", {RecLock(r) : r \in S})

LockSources_Unchecked(t) ==
    LET q == req[t]
    IN  /\ Runs(t, "create_book", "sources")
        /\ UNCHANGED dataVars
        /\ Proceed(t, q, "insert", {UserLock(q.user)}
                     \cup (IF q.on \in Books THEN {BookLock(q.on)} ELSE {}))

\* _lock_book_source_rows: a recording that went away meanwhile is a conflict; the
\* snapshot may be too large or not closed.  The insert names the account and the
\* superseded book.
LockSources(t) ==
    LET q == req[t]
    IN  /\ Runs(t, "create_book", "sources")
        /\ UNCHANGED dataVars
        /\ \/ Finish(t)
           \/ /\ q.sources \subseteq RecsOf(q.family)
              /\ Proceed(t, q, "insert", {UserLock(q.user)}
                          \cup (IF q.on \in Books THEN {BookLock(q.on)} ELSE {}))

\* create_queued_book: book, snapshot and job in the same transaction.
CreateBook(t) ==
    LET q == req[t]
        old == IF q.on \in Books THEN q.on ELSE NoBook
    IN  /\ Runs(t, "create_book", "insert")
        /\ IF q.user \in users /\ (old \in Books => LiveBook(old))
           THEN /\ book' = [book EXCEPT ![q.book] = [status |-> "active", family |-> q.family,
                             user |-> q.user, recent |-> TRUE, sources |-> q.sources,
                             supersedes |-> old]]
                /\ Finish(t)
                /\ UNCHANGED <<users, families, rec, queued>>
           ELSE Refuse(t)

-----------------------------------------------------------------------------
(* Deletions.                                                              *)

BeginDeleteRecording(t, r) ==
    /\ Live(r)
    /\ Begin(t, [NoRequest EXCEPT !.op = "delete_recording", !.on = r], "commit", {RecLock(r)})

DeleteRecording(t) ==
    LET r == req[t].on
    IN  /\ Runs(t, "delete_recording", "commit")
        /\ IF Live(r)
           THEN /\ rec' = [rec EXCEPT ![r] = [NoRecording EXCEPT !.status = "deleted"]]
                /\ queued' = queued \cup {r}
                /\ Finish(t)
                /\ UNCHANGED <<users, families, book>>
           ELSE Refuse(t)

BeginDeleteBook(t, b) ==
    /\ LiveBook(b)
    /\ Begin(t, [NoRequest EXCEPT !.op = "delete_book", !.on = b], "commit", {BookLock(b)})

\* The books that superseded a deleted one forget it (ON DELETE SET NULL).
WithoutBooks(S) ==
    [b \in Books |->
       IF b \in S THEN [NoBookRow EXCEPT !.status = "deleted"]
       ELSE [book[b] EXCEPT !.supersedes = IF @ \in S THEN NoBook ELSE @]]

DeleteBook(t) ==
    LET b == req[t].on
    IN  /\ Runs(t, "delete_book", "commit")
        /\ IF LiveBook(b)
           THEN /\ book' = WithoutBooks({b})
                /\ queued' = queued \cup {b}
                /\ Finish(t)
                /\ UNCHANGED <<users, families, rec>>
           ELSE Refuse(t)

BeginDeleteFamily(t, f) ==
    /\ f \in families
    /\ Begin(t, [NoRequest EXCEPT !.op = "delete_family", !.family = f],
             "recordings", {FamilyLock(f)})

\* The family's row, then its recordings, then its books.
DeleteFamilyRecordings(t) ==
    LET q == req[t]
    IN  /\ Runs(t, "delete_family", "recordings")
        /\ UNCHANGED dataVars
        /\ IF q.family \in families
           THEN Proceed(t, q, "books", {RecLock(r) : r \in RecsOf(q.family)})
           ELSE Finish(t)

DeleteFamilyBooks(t) ==
    /\ Runs(t, "delete_family", "books")
    /\ Proceed(t, req[t], "commit", {BookLock(b) : b \in BooksOf(req[t].family)})
    /\ UNCHANGED dataVars

\* Every audio and both export keys of every book are queued; the rows go.
DeleteFamily(t) ==
    LET f == req[t].family
        gone == [NoRecording EXCEPT !.status = "deleted"]
    IN  /\ Runs(t, "delete_family", "commit")
        /\ queued' = queued \cup RecsOf(f) \cup BooksOf(f)
        /\ rec' = [r \in Recs |-> IF r \in RecsOf(f) THEN gone ELSE rec[r]]
        /\ book' = WithoutBooks(BooksOf(f))
        /\ families' = families \ {f}
        /\ Finish(t)
        /\ UNCHANGED <<users>>

BeginDeleteAccount(t, u) ==
    /\ u \in users
    /\ Begin(t, [NoRequest EXCEPT !.op = "delete_account", !.user = u], "families", {UserLock(u)})

\* The account is a member of every family of the instance; another owner remains.
DeleteAccountFamilies(t) ==
    LET q == req[t]
    IN  /\ Runs(t, "delete_account", "families")
        /\ UNCHANGED dataVars
        /\ IF q.user \in users
           THEN /\ req' = [req EXCEPT ![t].at = "books"]
                /\ Statement(t, ByKey(families, FamilyLock))
           ELSE Finish(t)

\* UPDATE books, then the delete, whose ON DELETE SET NULL updates the recordings.
DeleteAccountBooks(t) ==
    LET q == req[t]
    IN  /\ Runs(t, "delete_account", "books")
        /\ Proceed(t, q, "commit", {BookLock(b) : b \in {c \in Books : book[c].user = q.user}}
                                     \cup {RecLock(r) : r \in ByUser(q.user)})
        /\ UNCHANGED dataVars

DeleteAccount(t) ==
    LET u == req[t].user
    IN  /\ Runs(t, "delete_account", "commit")
        /\ users' = users \ {u}
        /\ rec' = [r \in Recs |-> IF rec[r].user = u THEN [rec[r] EXCEPT !.user = NoUser] ELSE rec[r]]
        /\ book' = [b \in Books |-> IF book[b].user = u THEN [book[b] EXCEPT !.user = NoUser]
                                                        ELSE book[b]]
        /\ Finish(t)
        /\ UNCHANGED <<families, queued>>

-----------------------------------------------------------------------------
(* The rest of the system.                                                 *)

\* A recording's job ends; a book's job ends.
EndRecording(r) ==
    /\ rec[r].status = "active"
    /\ \E s \in {"completed", "failed"} : rec' = [rec EXCEPT ![r].status = s]
    /\ UNCHANGED <<users, families, book, queued, req, held, want>>

EndBook(b) ==
    /\ book[b].status = "active" /\ \A t \in Threads : BookLock(b) \notin held[t]
    /\ book' = [book EXCEPT ![b].status = "terminal"]
    /\ UNCHANGED <<users, families, rec, queued, req, held, want>>

\* 24 hours pass for what was created a day ago.
Ages(r) ==
    /\ rec[r].recent /\ rec' = [rec EXCEPT ![r].recent = FALSE]
    /\ UNCHANGED <<users, families, book, queued, req, held, want>>

AgesBook(b) ==
    /\ book[b].recent /\ book' = [book EXCEPT ![b].recent = FALSE]
    /\ UNCHANGED <<users, families, rec, queued, req, held, want>>

\* A thread that serves nobody takes a request.
Request(t) ==
    /\ req[t].at = "idle"
    /\ \/ \E u \in Users, f \in Families, r \in Recs, d \in Durations :
             BeginRecording(t, u, f, r, d)
       \/ \E u \in Users, f \in Families, b \in Books, S \in SUBSET Recs :
             BeginBook(t, u, f, b, S)
       \/ \E u \in Users, b, old \in Books, S \in SUBSET Recs :
             BeginRegenerate(t, u, b, old, S)
       \/ \E r \in Recs : BeginDeleteRecording(t, r)
       \/ \E b \in Books : BeginDeleteBook(t, b)
       \/ \E f \in Families : BeginDeleteFamily(t, f)
       \/ \E u \in Users : BeginDeleteAccount(t, u)

\* The next statement of a transaction.
Transact(t) ==
    \/ LockNext(t)
    \/ DeadlockAbort(t)
    \/ RecordingUser(t)
    \/ RecordingQuota(t)
    \/ PublishRecording(t)
    \/ BookQuota(t)
    \/ LockSources(t)
    \/ CreateBook(t)
    \/ DeleteRecording(t)
    \/ DeleteBook(t)
    \/ DeleteFamilyRecordings(t)
    \/ DeleteFamilyBooks(t)
    \/ DeleteFamily(t)
    \/ DeleteAccountFamilies(t)
    \/ DeleteAccountBooks(t)
    \/ DeleteAccount(t)

\* What happens meanwhile.
Elsewhere ==
    \/ \E r \in Recs : EndRecording(r) \/ Ages(r)
    \/ \E b \in Books : EndBook(b) \/ AgesBook(b)

Next == (\E t \in Threads : Request(t) \/ Transact(t)) \/ Elsewhere

Spec == Init /\ [][Next]_vars

-----------------------------------------------------------------------------
(* Properties.                                                             *)

\* Concurrent uploads never exceed a limit together: not a family's, and not a user's
\* across families.  (A recording whose duration is unknown counts for no time.)
WithinRecordingLimits ==
    /\ \A f \in Families :
          /\ Cardinality({r \in RecsOf(f) : rec[r].status = "active"}) <= MaxActive
          /\ Cardinality(Recent(RecsOf(f))) <= MaxFamilyDaily
          /\ Cardinality(RecsOf(f)) <= MaxStorage
          /\ Seconds(Recent(RecsOf(f))) <= MaxFamilySeconds
    /\ \A u \in Users : /\ Cardinality(Recent(ByUser(u))) <= MaxUserDaily
                        /\ Seconds(Recent(ByUser(u))) <= MaxUserSeconds

\* Nor do concurrent book requests and regenerations.
WithinBookLimits ==
    \A f \in Families : /\ Cardinality({b \in BooksOf(f) : book[b].status = "active"}) <= MaxActiveBooks
                        /\ Cardinality({b \in BooksOf(f) : book[b].recent}) <= MaxBooksDaily

\* A new book's sources all exist, processed, in its family, at the moment it is
\* created: no deletion slips in between their selection and the snapshot.
SourcesExist ==
    [][\A b \in Books :
          book[b].status = "unused" /\ book'[b].status = "active"
            => book'[b].sources # {} /\ book'[b].sources \subseteq Eligible(book'[b].family)]_vars

\* No row outlives its family, and what a deletion removed is erased or queued.
NothingLeftBehind ==
    /\ \A r \in Recs : Live(r) => rec[r].family \in families
    /\ \A b \in Books : LiveBook(b) => book[b].family \in families
    /\ \A r \in Recs : rec[r].status = "deleted" => r \in queued
    /\ \A b \in Books : book[b].status = "deleted" => b \in queued

\* "Preserving a consistent lock order and avoiding a cross-feature deadlock"
\* (RecordingQuotaService), but for one circle: a book's insert names the account of its
\* creator while it holds the family, and an upload or an account deletion of the same
\* account holds that row while it waits for the family.
CyclesNeedBookInsert ==
    \A s, t \in Threads :
       s # t /\ InCycle(s, t)
         => \E b \in {s, t} : \E o \in {s, t} \ {b} :
               /\ req[b].op = "create_book" /\ req[b].at = "insert"
               /\ req[o].op \in {"create_recording", "delete_account"}
               /\ req[o].user = req[b].user

\* A family's content in every state: concurrent creations stay within the quotas, a deletion
\* leaves no row and no object that is not queued for erasure, and requests wait for each
\* other in a circle only where a book's insert meets a lock on its creator
\* (check_creation_allowed, delete_family, create_queued_book).
ContentInv ==
    /\ TypeOK
    /\ WithinRecordingLimits /\ WithinBookLimits
    /\ NothingLeftBehind
    /\ CyclesNeedBookInsert

=============================================================================
