# MURA: a verification project

MURA turns spoken family memories into an archive and into books. A FastAPI
backend (`src/Mura_project/apps/api`) accepts recordings and book requests, worker
processes (`src/Mura_project/apps/worker`) take them off durable queues in
PostgreSQL, call a speech recogniser and a language model, and store the results;
a Next.js client (`src/MURA-app`) shows them. This directory models the state machines
of the backend, the transactions that race with each other, and the decisions its
pure parts take. Paths below are relative to `src/Mura_project/src/mura` unless they
start with `apps/`, `services/` or `src/`.

## 1. Inventory

| Component | State | Operations | What is hard | Correct when |
|---|---|---|---|---|
| Recording queue (`storage/database.py`, `storage/completion.py`, `leases.py`, `orchestration/recordings.py`, `storage/deletion.py`) | `recordings`, `processing_jobs`, `pipeline_results`, archive claims; one heartbeat thread per attempt; open AI reservations | publish, claim, renew, stage, preview, finalise, defer, fail, delete | stale workers, crashes, lost acknowledgements, deletion during an attempt | at most one result, from the last claim; nothing survives a deletion; every job settles |
| AI cost guard (`cost_guards.py`, `storage/ai_usage.py`) | reservations, usage events, an advisory lock | reserve, commit, release, expire, record usage | three sums in one READ COMMITTED transaction; holds that outlive their TTL; shared idempotency keys | live holds stay within the budget; settled money stays settled |
| Book queue (`storage/book.py`, `orchestration/books.py`, `book/exporter.py`, `apps/api/books.py`) | book, job, plan, chapters, continuity, exports | create, claim, plan, draft, review, repair, approve, continue, export, complete, cancel, fail, delete | resumption from any stored state, a cancel endpoint of several transactions, an attempt ceiling | completed books are whole and stay so; approved chapters are kept; every job settles |
| Storage cleanup (`storage/cleanup.py`, `orchestration/cleanup.py`, `storage/deletion.py`, `apps/api/recordings.py`) | cleanup jobs, the object store | upload and compensate, export, delete rows, claim, erase, complete, retry | two stores that fail independently, exports racing deletions, crash in the last attempt | what is deleted gets erased; what is live never is |
| Identity (`storage/identity.py`, `apps/api/identity.py`) | users, families, memberships, invitations, row locks | resolve, create, invite, accept, revoke, change role, leave, remove, delete account and family | last owner, accept against revoke, lock order, a session that keeps what it read | a family keeps an owner; an invitation is used once; no dangling rows |
| Family content (`quotas.py`, `storage/deletion.py`, `apps/api/books.py`) | recordings and books of families and users, erasures queued | create under quotas, delete recordings, books, families, accounts | count then insert; deletion of the parent during a creation; lock order | limits hold; books pin existing sources; nothing is left behind |
| Family archive (`storage/conflict_resolution.py`, `storage/generic_*.py`, `storage/archive_read.py`) | claims, conflicts, decisions, people, graph edges, profiles | finalise, reconcile, resolve, dismiss, reopen, rebuild, delete | reconciliation without a family lock; deletions that leave derived rows | the projections are what the accepted claims say; a decision stands |
| Release control (`release_control.py`) | desired release, decisions | read, activate, roll back | first use, generation | decisions and generations agree |
| Retention, replay, privacy export (`retention.py`, `replay.py`, `observability.py`, `privacy.py`) | traces, replay reports | trace, replay, preview, apply, export | state that moves between preview and apply, and between the statements of an export | what was shown is what goes; an export has this family's rows only, and all stable ones |
| Operations (`ops/storage_reconciliation.py`, `ops/backup_restore.py`, `monitoring.py`) | a report; two databases; none | reconcile, drill, summarise | runs beside a live service; partial restores | a report says only what is so |
| Object stores (`storage/audio.py`, `storage/book_artifacts.py`) | objects, temporary files | save, read, materialise, delete | answers that get lost, partial writes | what is saved is whole, what is deleted is gone |
| Model and ASR clients (`deepseek/client.py`, `asr/*.py`, `services/kaggle_asr`) | attempts of a call; one GPU | call, retry, fall back, transcribe, cut, merge | retries of what was refused, usage that is lost | every request is accounted for; permanent refusals are not retried |
| Extraction (`pipeline.py`, `deepseek/service.py`, `long_form*.py`, `evidence_recovery.py`, `extraction_sanitizer.py`, `validation.py`, `claim_model.py`, `claim_semantics.py`, `coreference*.py`, `entity_resolver.py`) | none but the run itself | clean, extract, repair, merge, salvage, resolve | one part of several fails; text that can be read two ways | nothing is kept that the words do not support, nothing lost without need |
| Book text (`book/snapshot*.py`, `book/planner.py`, `book/blueprint_validation.py`, `book/prose_grounding.py`, `book/chapter_gates.py`, `book/reviewer.py`) | none | compile, validate, repair, gate | closures over references, gates that make up for each other | a book says what its sources say |

How they interact: the API and the workers share nothing but the database and the
object store. A worker is a process with one claim loop per queue and a heartbeat
thread per attempt; it learns of a deletion, a cancellation or the loss of its lease
only by the answer of its next transaction. Every attempt reserves money at the cost
guard before it calls a provider. Deletions of recordings and books queue cleanup
jobs in the transaction that removes the rows. The final transaction of a recording
also writes its claims into the family archive; a book freezes what the archive says
when it is created.

`PROJECT.json` lists the hazards at the line where they bite, with the properties
that would catch them.

## 2. Modules

| Module | Models |
|---|---|
| `DurableQueue` | what any of the queues promises: an item is started some number of times, only its latest start delivers, a settled item is left alone until its owner withdraws it |
| `RecordingJobs`, `BookJobs`, `StorageCleanup` | the three queues with their workers, users and failures; each implements `DurableQueue` |
| `CostGuard` | the budget, statement by statement |
| `RowLocks` | row locks of concurrent transactions, and who waits for whom |
| `Identity` | accounts, families, memberships, invitations; a transaction is its lock statements and a commit (on `RowLocks`) |
| `FamilyContent` | recordings and books as requests create and delete them under quotas (on `RowLocks`) |
| `ArchiveClaims` | what an extraction becomes in the archive: claims, their grounding, what contradicts what |
| `FamilyArchive` | finalisations, reviewers and deletions of one family as statements of concurrent transactions (on `ArchiveClaims`) |
| `ReleaseControl` | the desired release and its decisions |
| `TraceRetention`, `FamilyExport` | traces, replays and their retention; the export of a family |
| `StorageReconciliation`, `QueueHealth`, `RestoreDrill` | the reconciliation report, the monitoring summary, backup and restore drills |
| `ObjectStores` | both stores on both backends |
| `ModelCalls`, `Transcription`, `SpeechChunks` | calls of the language model and their classification; the recognisers; cutting and merging speech |
| `LongFormPlan`, `WindowMerge`, `ExtractionRun` | windows of a long recording, their merge, and the run of all calls |
| `EvidenceRecovery`, `ExtractionSalvage` | where a quotation stands; what is kept of a partly wrong answer |
| `ClaimSemantics`, `Coreference`, `EntityResolution` | certainty and dates of a claim; whom a pronoun and a mention stand for |
| `BookSnapshot`, `BlueprintPlan`, `ChapterGates` | a book's frozen sources, its plan, the gates of a chapter |
| `MCRecordingJobs`, `MCCostGuard`, `MCIdentity`, `MCFamilyContent`, `MCFamilyArchive` | symmetry sets and instances for TLC; `BookJobs` and `StorageCleanup` need none and are run as they are |
| `MCServices` | the modules from `ReleaseControl` on in one run: a behaviour is one of a single part, chosen in the initial state |
| `RecordingJobsProofs`, `BookJobsProofs`, `IdentityProofs`, `FamilyContentProofs`, `FamilyArchiveProofs` | theorems about the module of that name |
| `OperationsProofs` | theorems about `StorageCleanup`, and about `ReleaseControl`, `RestoreDrill`, `FamilyExport`, `QueueHealth`, `ExtractionRun`, `ModelCalls` with `Transcription`, `LongFormPlan` with `WindowMerge`, `SpeechChunks` |
| `ServicesProofs` | theorems about `CostGuard`, about `TraceRetention`, `ObjectStores`, `StorageReconciliation`, and about what is decided on one text or selection: `EvidenceRecovery` with `ExtractionSalvage`, `BookSnapshot`, `BlueprintPlan`, `EntityResolution`, `ChapterGates`, `ClaimSemantics`, `Coreference` |
| `Sums` | lemmas about least numbers and about sums over finite sets, for the proofs |

### How state and actions correspond to the code

* A variable of a queue module is a column: `status`, `owner` (`lease_owner`),
  `lease` (time left to `lease_expires_at`), `delay` (time left to
  `next_attempt_at`), `attempts`. `pc`, `task`, `token` are a worker's place in its
  attempt, the job it claimed and the attempt number the claim returned.
* A transaction of a queue is one action, because each locks the row it decides on.
  Where the code decides on rows it did not lock, or locks several one after the
  other, a statement is an action: `reserve_budget`, the cancel endpoint of books,
  every transaction of `Identity`, `FamilyContent`, `FamilyArchive`,
  `ReleaseControl`, `FamilyExport`. Reads see what is committed when the statement
  runs, writes become visible at the commit.
* SQLAlchemy's identity map is part of the model where it matters: a session returns
  the row it loaded first, with the values of then, unless the query says
  `populate_existing` (`Identity`: the roles of `delete_account`; `FamilyArchive`:
  the claims of a rebuild).
* A call to a provider, a renderer or the object store is an action between two
  transactions, with the outcomes its caller tells apart. Anything may happen
  between any two actions.
* The data are abstracted to what a property tells apart: a result is the number of
  the attempt that computed it, a draft is the number of chapters its author knew, a
  clause is how many of two people it names and the cue it holds, a chapter is the
  features the extractors of `prose_grounding.py` find in it.
* Time is `Tick`. A lease only runs out under a live worker when the environment
  fails (a stall, or renewals that fail transiently), because `validate_lease_invariants`
  of `config.py` makes the lease several heartbeats long. Such failures, crashes,
  lost acknowledgements and failing calls draw on one counter bounded by `MaxFaults`.
* `heartbeat` is separate from `pc`: `LeaseHeartbeat.stop` gives up joining after
  five seconds, so a renewal may arrive after its attempt ended.
* Pure functions (windows, merge, salvage, gates, dates) are operators over inputs that
  the actions build up from small sets; the property compares their result with a
  definition of what the result should be that does not follow the code's steps.

`PROJECT.json` maps every definition to its lines. Operators named after a definition
with a suffix (`DeferRecordingJobKeepsLease`, `GetOrCreate_NoLock`) are the slips a
property must catch: the run of the property fails when the definition is replaced by
its variant.

## 3. Runs

| Run | Instance | Result |
|---|---|---|
| `recording` | 2 workers, 2 recordings, 2 failures, registered recogniser, fair | 4 properties hold |
| `recording_deletion_kills_worker` | 1 worker, 1 recording | **violated**, finding 1 |
| `cost_guard` | 2 callers, 3 holds, 1 key, budget 2, amounts 1 and 2 | 3 properties hold (3.6 million states) |
| `book` | 2 workers, 1 book of 2 chapters, 2 attempts, 1 repair, 2 failures, fair | 4 properties hold |
| `book_last_attempt_crash` | 1 attempt, 1 failure | **violated**, finding 2 |
| `cleanup` | 2 workers, 1 audio, 1 artifact, 2 attempts, 3 failures, fair | 4 properties hold |
| `identity` | 2 requests at once, 2 people, 3 account ids, 1 family, 1 invitation | 3 properties hold |
| `identity_owner_lost` | the same with 2 account ids | **violated**, finding 3 |
| `family_content` | 2 requests at once, 1 user, 2 families, 2 recordings, 2 books | 2 properties hold |
| `archive` | 3 recordings that contradict each other, 2 transactions at once, 2 reviews | 2 properties hold |
| `archive_stale_rebuild` | the same | **violated**, finding 4 |
| `services` | 21 parts, see `MCServices.cfg` | 18 properties hold (1.7 million states) |

An invariant whose name ends in `Inv` is the conjunction of a type invariant and of
named parts; each part has its own definition and comment in the module. What they say:

* *Recording queue.* `QueueInv`: an unsettled, unqueued job always has an owner and a
  lease that will run out (`NoStrandedJob`); comparing worker names is as good as a
  fencing token (`OwnerIsLatestAttempt`); result and claims come together from the last
  claim (`ResultFromLastClaim`); deletions are final (`DeletedStaysDeleted`); no way out
  of an attempt forgets a budget reservation (`SettledBetweenJobs`). `OrderlySteps`:
  previews come from the latest attempt, running leases are not stolen.
  `ImplementsDurableQueue`: the queue refines the abstract one. `EveryJobSettles`.
* *Cost guard.* `BudgetInv`: live holds stay within the budget. `OvershootOnlyByUnseen`:
  an admission exceeds it at most by what was settled while it was summing.
  `CommittedIsFinal`.
* *Book queue.* `BookInv`: completed books are whole. `FinishedIsKept`: completed stays
  completed, approved chapters are not rewritten, the book of a settled job is frozen,
  whatever mixture of attempts, crashes, stale workers and cancel requests came before.
  `OnlyLastAttemptIsLost`: every job settles but for a crash in its last attempt.
* *Cleanup.* `CleanupInv`: what is deleted stays tracked until it is erased, and stays
  erased. `LiveNeverErased`, `EveryErasureSettles`, `ImplementsDurableQueue`.
* *Identity.* `IdentityInv`: one account per subject, no row refers to a deleted one,
  requests that lock the family first never deadlock. `OwnersAreKept`: the last owner
  goes only by the stale read of finding 3, and a family only by its sole owner.
  `InvitationsAdmitOnce`: an invitation admits one person, once, and not after its
  revocation.
* *Family content.* `ContentInv`: no interleaving of creations exceeds a limit, nothing
  outlives its family without a queued erasure, and the only circle of waits is the one
  described in section 4. `SourcesExist`: a book pins recordings that are there.
* *Archive.* `ArchiveInv`: claims come and go with their recordings; where transactions
  about the same kind of claim did not overlap, decisions stand, contradictions are
  under review, graph, profiles and people are what the claims say, and a book is told
  of the conflicts it contains. `RejectedStaysOut`: a rejected claim returns only when
  its conflict is decided again or loses a claim.
* *Services.* `ReleaseInv`: the decisions tell the whole history of the release.
  `RetentionSteps`: traces go whole, and only what was shown. `ReconcileInv`: the report
  is right about all that did not change under it. `HealthInv`: stalled jobs are
  reported, renewed ones never. `DrillInv`: a drill that passes saw its own dump in a
  target that is not production. `StoreInv`: saved is whole, deleted is gone.
  `ProvidersInv`: requests are accounted for, the primary model's refusal decides, only
  final answers of a recogniser are fatal. `ChunkInv`: all speech is in a chunk and no
  word comes out twice or is lost. `WindowsInv`: windows show the whole tale within the
  budget; their merge keeps namesakes apart and facts with their person. `RunInv`: a
  failed part takes nothing from the others, calls stay in budget, a lost job stops.
  `GroundingInv`: evidence stands where it says; what is kept refers to nothing that was
  dropped. `ResolveInv`: a name alone resolves nobody, two ends of a claim are two.
  `SnapshotInv`: a book knows only the selected recordings, with their disputes whole.
  `GateInv`: years, kin, names and facts of an approved chapter are of the sources,
  whatever the writer reports or the reviewing model says. `BlueprintInv`: an accepted
  plan is sound and arithmetic never loses one. `SemanticsInv`: dates and certainty are
  those of the words. `CorefInv`: a pronoun counts only if nobody else can be meant.
  `ExportInv`: an export has nothing of another family, and all that was stable.

Where the code has a weakness the authors do not deny, the property names it as its
exception instead of leaving it out (the repair of the last window in `RunInv`, an empty
anchor in `BlueprintInv`, a span derived from a dropped one in `GroundingInv`).

### Bounds and why they are enough

Two workers are a stale one and the one that reclaimed its job; the guards look at
one row and one name, so a third adds another stale worker in the same position. Two
recordings let a worker go on to another job while a stale renewal of the first is
under way. Two failures give a stall followed by a crash; three in `cleanup` exhaust a
ceiling of two attempts and still crash once. Two chapters are a first one and one
that continues it. Three holds are one that is committed, one that is active and one
that is asked for. The attempt counter of recordings has no
ceiling in the code and needs none in the model: whatever makes a job be claimed again
(a crash, a stall, a deferral for want of a recogniser or of budget) counts against
`MaxFaults`, so a run has at most `MaxFaults + 1` attempts per recording. With no
recogniser registered and no failure left, an attempt waits at the registration gate
in place of deferring once more.

Two transactions at once suffice for every pair of requests, which is what lock orders
and stale reads are about; the third account id of `identity` is the one a person gets
when signing up again after a deletion. Two families are one a user's quota counts
besides the one at hand. Three recordings of the archive are two that contradict each
other and one that finds the conflict decided. In `services` a bound is the smallest at
which the case happens and its neighbour does not: three mentions are the two ends of a
claim and a third that resolves one of them, three segments one cut, one joined and one
left alone, a budget of three calls one that ends inside a repair, nine samples of sound
hold up to three chunks in a row, and one that is trimmed.

`Symmetry` permutes callers and holds, threads, subjects, recordings or books, and only in runs without liveness.
`CHECK_DEADLOCK FALSE` stands where ids are used up or a part ends.

### Fairness

`FairSpec` assumes of the deployment: time passes; a worker process that ended is
restarted (the container restarts it); a running claim loop claims when something is
eligible; heartbeats tick; an attempt takes its next step, so a provider's call ends
with some outcome (every client has a timeout). It never assumes that a failure
happens or stops happening beyond `MaxFaults`, nor that users do anything.
`EveryJobSettles` of the recordings is stated for the time a ready recogniser is there:
with a registered one, a recording waits as long as nobody registers a ready worker,
which is intended.

## 4. Findings

1. `orchestration/recordings.py:165`: a deletion between the claim and the look-up of
   the recording makes `fail_job` raise `LookupError`, which ends the worker process;
   the comment at 581-584 says that a deletion must not.
2. `storage/book.py:1400`: the ceiling also keeps expired leases from being reclaimed,
   so a crash in the last attempt leaves book and job running for ever.
3. `storage/identity.py:313`: the "re-read" of the memberships in `delete_account`
   returns the roles of the first read; an editor promoted in between, while the other
   owner steps down, leaves a family without an owner.
4. `storage/conflict_resolution.py:379`: the rebuild of the graph uses claims the session
   loaded before another finalisation disputed them; one side of an open conflict
   becomes an edge.

### Known gaps without a run of their own

* `cost_guards.py:217`: a hold committed between two sums of `reserve_budget` is in
  neither, so the budget is exceeded by it; `OvershootOnlyByUnseen` bounds the excess.
* `orchestration/books.py:333`: job and book are failed in two transactions; a crash
  between them leaves the book in progress for ever (`src/PHASE_2_3_AUDIT.md:25` names
  both in one step). `SettledIsFrozen` holds of such a book.
* `orchestration/books.py:526` and 776: a chapter is approved before its continuity state
  is stored; a retry in between writes the next chapter without it.
* `apps/api/recordings.py:239`: a commit whose acknowledgement is lost is taken for a
  rollback, and the audio of a live recording is erased. `LiveNeverErased` is checked and
  proved under `CommitsKnown`, and fails without it.
* `quotas.py:131-135`: the comment promises one lock order, yet the insert of a book waits
  for its creator's row while it holds the family, and an upload of the same account
  holds that row and waits for the family. PostgreSQL aborts one of the two.
  `CyclesNeedBookInsert` says that this is the only circle.

### Observations made while modelling

None of these contradicts what the repository says of itself; each is in a module, mostly
as the exception of a property.

* *Queues.* The recording worker is built without the configured AI budget
  (`apps/worker/main.py:113`, `orchestration/recordings.py:69`) and uses the guard's
  default, while the API's check uses the configured one. `src/RELIABILITY.md:42` claims
  an attempt ceiling for `claim_next_job`, which the recording queue does not have. A
  book whose plan was stored without its chapter stubs is not resumed but fails at the
  export.
* *Archive.* The "disputed" mark of the guard is overwritten by the reset of `_reconcile`
  (`storage/conflict_resolution.py:300`). A rejected claim is active again when the
  recording of the preferred one is deleted. Conflicting births dispute the derived
  attribute claims only. `_upsert_people` writes a whole list back from an old read. Two
  finalisations that insert the same projection rows make the second abort. A deletion
  leaves edges, profiles, conflicts and people until the next rebuild.
* *Releases, retention, operations.* Two first requests on an empty release table make
  one of them fail. Replay reports are not deleted with their family. Reconciliation
  calls a row missing that was published after the listing; the Supabase listing does not
  page. The queries for exhausted jobs return the 50 oldest and hide newer ones. A drill
  does not compare counts, and its seeded rows are never removed.
* *Stores and clients.* A local deletion prunes directories that a save has just made.
  A local artifact is written in place. A 200 answer that is no JSON is neither retried
  nor recorded, and the fallback model is not asked. `request_json`'s last error carries
  no response, so its class is read from the first number in its text. Merging
  overlapping chunks may remove a genuine repetition.
* *Long recordings.* Joining groups can put two slices of one segment into one window,
  of which the window shows the last; windows may exceed their token limit. Two people
  of one name in one segment become one. Calls of failed windows are not counted. A
  lease lost at a window's validation counts as a failed window. Focused passes that all
  fail return an empty result as completed.
* *Extraction.* A whole answer is lost for a span whose parent was dropped, for a person
  whose cited text lacks the name, or for a relationship that stood on a dropped link.
  With four mentions a resolution can rest on a neighbour that a late collision
  withdraws (three are checked).
* *Semantics.* "About 15 May 1950" is parsed as not approximate, and the filter then drops
  the whole event. A correction without a date leaves the corrected date. "1950" and
  "15 May 1950" count as a conflict. A low opening quotation mark never closes, and the
  rest of the segment counts as quoted.
* *Books.* A disputed claim enters without its conflict's other side when that side is
  no fact, and the closure check then refuses the book. Two recordings with the same
  local id make a creation fail. Two people who share a form of a name block every
  mention of it. The export of a family reads table by table, so the "snapshot" of
  `privacy.py:74` can be torn.

## 5. Proofs

TLAPS proves the following for every value of the constants that the modules'
assumptions allow: any number of workers, requests, users, families, recordings, books,
chapters, objects, callers, holds, jobs and windows, any lease, delay, ceiling, quota
and budget, and any bound on failures.

### What is assumed

Each module names its assumption where it declares its constants, and TLC evaluates it
in the runs.

* The "none" value of a set is no member of it, and ids of different tables are
  different values (`SymbolAssumption`, `NameAssumption`, `StoreAssumption`,
  `ReconcileAssumption`, parts of `IdentityAssumption` and `ContentAssumption`). The
  code has `None` and columns of different tables.
* Tables are finite (`IdentityAssumption`, `ContentAssumption`, `NameAssumption`,
  `HealthAssumption`), since a quota, an owner count and a report count rows.
* The ends of an extracted relationship have roles its type allows
  (`RelationshipRoles`), which the validation of `RelationshipClaim` ensures.
* Limits, prices and durations are natural numbers, leases and attempt ceilings positive
  (`SizeAssumption`, `TimingAssumption`, `AmountAssumption`, `RetentionAssumption`,
  `RunAssumption`, `ReleaseAssumption`, `ModelAssumption`, `AsrAssumption`); `config.py` and the column checks of the code
  refuse others. Bounds on texts are natural numbers (`TextAssumption`,
  `QuoteAssumption`).
* Every allowed number of chapters has room for every allowed book (`LimitsAssumption`):
  10 to 15 chapters of 700 to 3500 words and 20000 to 30000 words in all in
  `book/blueprint_validation.py`. Without it the repair could not mend every plan.

### The queues

* `RecordingJobsProofs`. `TypeInv` is `TypeOK` with the fact that a worker in an
  attempt, or with a heartbeat, has a task. The safety invariants are not inductive
  one by one: that a finalisation comes from the last claim needs that its owner is in
  the latest attempt, which needs that every owned job has been claimed and that rows
  come and go together. `Fence` is their conjunction with `RowsTogether` and
  `TokenPositive`; `FenceStep` has one step per action. `HoldSteps` names the steps at
  which a worker may hold a reservation, from which `SettledCorrect` follows.
  `QueueInvCorrect` joins them to the invariant of the run, `OrderlyCorrect` gives its
  action property. `QueueStep` maps each action to one step of `DurableQueue`, or to a
  stutter, under `TypeInv` and `Fence`, which is the refinement.
* `BookJobsProofs`. An attempt has some thirty steps, so `Footprint` says once for all
  of them what an attempt may touch: its own worker, the job's row if it owns it, the
  book's row together with the job's or after it, the contents if it owns the book.
  `AttemptFootprint` and `AttemptCases` are proved step by step, what follows uses only
  them. `IInv` has three layers. `TypeInv` is `TypeOK` with bounds on the loop's
  counters. `JobInv` is the fence of the recording queue, with what a cancel request
  knows at each of its transactions (`Request`: whoever comes to the unguarded
  `cancel_job` has flagged the book first), what a settled job implies of its book
  (`Settled`) and what a worker knows although it may be stale (`Known`). `ContentInv`
  says which stored contents the place of an owner implies (`Place`), that chapters are
  created together and that a completed book is whole. `FinishedIsKeptCorrect` is the
  action property, `QueueCorrect` the refinement of `DurableQueue`.
* The section of `OperationsProofs` about `StorageCleanup`. `Tracked` strengthens `CompletedIsErased` and
  `DeletedIsTracked`: owned jobs are running, what a worker erases is queued, an object
  not yet uploaded or still live is not queued, a deleted one is, and a worker about to
  complete has erased its object. `CleanupCorrect` is the run's invariant.
  `Unpublished` adds, where the API learns the outcome of its commits, that an upload
  under way has published and queued nothing; `LiveCorrect` has that assumption
  (`CommitsKnown`) in its statement. `QueueCorrect` is the refinement.

### Transactions that lock rows

* `IdentityProofs` and `FamilyContentProofs` follow one argument. `Local(t)` says what a
  request may rely on at each of its statements because of the rows it has locked: past
  `_lock_family` its family is there, a count of owners or of active jobs taken under
  the lock is still right at the commit, an invitation read under its own lock is still
  pending, the sources of a book are still processed. A step of the request establishes
  the next part of `Local`; a step of another request leaves it alone (`Stable`),
  because what the other one writes it has locked (`Kept` for identities, `Spares` for
  contents) and no row is held by two transactions (`Disjoint`).
* In `IdentityProofs`, `Shape`, `FamilyLocked`, `Counted`, `Settling`, `Leaving` and
  `Ordered` are the parts of `Local`. `Ordered` bounds the rows a request that locks
  its family first may hold or wait for; `NoCircle` derives from it that two of them
  never wait for each other. `OwnersAreKeptCorrect` and `InvitationsAdmitOnceCorrect`
  are the action properties, each with the exception that the code has.
* In `FamilyContentProofs` the parts of `Local` are the kinds of requests: `Uploading`,
  `Binding`, `Removing`, `Closing`, `Leaving`. `Apart` relates two of them: they never
  make the same row, and ask for the same recording or book only within one family.
  The quotas, sums of seconds among them, hold at a commit because nothing came to the
  family or the account since they were computed (`NoneComes`, `NothingNew`). `Waiters`
  and `NoCircleFrom` list the situations in which a request can wait, from which
  `CyclesMeet` shows that a circle needs the insert of a book (section 4).
  `OnlyCreateBook` singles out the one action that `SourcesExist` is about.

### The archive

`FamilyArchiveProofs` proves `ArchiveInv` (`ArchiveCorrect`) and `RejectedStaysOut`
(`RejectedCorrect`) for any recordings with any extractions, any number of threads,
people and notes. Here no row lock protects what a transaction decides on: it reads the
claims and conflicts of the family, computes, and writes at its commit. The argument is
therefore about overlaps, which the model records in `raced`.

* The claims, conflicts, decisions and projections of a kind of claim (a relationship, an
  attribute) are a part of the archive on its own (`StatusPart`, `Part`). What a
  transaction on one kind does leaves the other alone (`CommitElsewhere`).
* Where no two transactions on a kind overlapped, the part is the one the transaction
  read when it began. So what it is going to leave behind is known from what it has
  decided: `Outcome` says that this is as good as what was there. `ReadAndReconcile`, the
  reviewer's decisions and each statement of the rebuild establish their piece of it; the
  commit makes it the archive and, if another transaction on the kind is under way, marks
  the kind as raced. `Undisturbed` is what
  an overlap ends, `ArchiveOK` and `ThreadOK`
  are what holds through overlaps too: types, which claims are stored, that all
  claims of a conflict are about what its id says and two of them disagree.
* `IInv` is their conjunction with the shape of the rows and the fact that a recording is
  finalised by one transaction at a time; TLC checks it on the instance of the `archive`
  run as well.
* Two facts about the model came out of the proof. That the preferred claim of a conflict
  is one of its claims is no consequence of its type and is now a part of `ArchiveInv`
  (`PreferredIsClaim`). That two claims on one relationship have comparable roles needs
  the check of roles that `RelationshipClaim` makes, which is now the assumption
  `RelationshipRoles`.

### Money

* The last section of `ServicesProofs`. `GuardInv`: the caller between two statements of `reserve_budget`
  is the one that holds the advisory lock, and a caller at work has a reservation. It
  yields `SerialisedCorrect` and `CommittedCorrect`. `MoneyInv` adds what the reserver
  has seen: the holds in force never exceed the sum it read (`ActiveSeen`), since they
  grow only by an admission and the lock keeps the others from one; and what is
  committed exceeds the sum it read at most by the holds committed since
  (`CommittedSeen`). With the check of `decide` this gives `BudgetCorrect` and
  `OvershootCorrect`.
* `Sums` supplies the laws of sums over finite sets that these proofs and the quotas in
  seconds use. Without induction over data they are proved from the well-foundedness of
  the order on numbers: among the sets that broke a law there would be a smallest.

### Services

`ServicesProofs` and the rest of `OperationsProofs` treat each service as a specification of
its own. The inductive invariants of the first nine are about what a step between two
transactions still knows:

* *Release control*: the row a request changes is the row that is there, one transaction
  at a time has it (`SawTheRow`, `OneHolder`), so row and decisions tell one history.
* *Retention*: no event of an ended job is younger than its end, and what the preview's
  cutoff covers can only become less.
* *Stores*: per key, where a call of `save` is, what it has left there and what was
  deleted (`KeyFits`); a step of one key leaves the others alone.
* *Drill*: until the restore the target has nothing under the drill's suffix; after it
  a table is the dump's or lacks the suffix.
* *Export*: a table that was queried holds what has been in it all along.
* *Reconciliation*: what the run knows of a key that did not change since it began
  (`KeyKnown`).
* *Health*: a live worker's lease has time left; the first row a query finds is in its
  answer however short the report is (`LimitedHasFirst`).
* *Run*: every call of the model is counted, or was of a window that failed, or is of the
  window in work; no window is begun with the budget exhausted or the job known as lost
  (`WindowedRun`).
* *Providers*: a call of the model has made the requests of the models it gave up and of
  the attempts before the one at hand, and kept one error per model (`ChatFits`); of the
  recognisers only the own worker has a lock, and a job's tries and its usage records
  go together.

The others decide about one text or one selection in a few steps. Their invariants say
which operator computed what is there, and the work is in lemmas about that operator, for
every input:

* *Evidence* (`GroundingCorrect`): a recovery is what `RecoverOffsets` says of the span.
  A text that is found once stands nowhere else, for any letters and lengths. What is kept
  of an answer is `Finished`, one stage of filtering after the other; each
  reference it holds was sound at the stage that looked at it last.
* *Book sources* (`SnapshotCorrect`): the bundle is that of the archive as it was read
  (`Bundled`), the snapshot is compiled from the bundle (`Compiled`), and what was not
  selected has no part in it (`SameBundle`). That a stored snapshot is closed under its
  references does not follow from how it is compiled: it is what the check before storing adds.
* *Plan* (`BlueprintCorrect`): `Parts` divides a number so that the parts add up
  (`PartsAddUp`, by counting the parts that get one more), under the limits nothing is
  cut off (`BookFits`), `Spread` hands out the missing words one by one and keeps
  the number of chapters and their references (`SpreadKeeps`, by a least number at which
  it would not).
* *Mentions* (`ResolveCorrect`): each answer of `Resolved` names a person with one candidate left;
  a tie through a relative is one the archive has in exactly that place (`LinkedByAClaim`).
* *Gates* (`GateCorrect`): a chapter is approved only without blockers; each extractor's
  blocker, taken alone, excludes the words its property excludes (`YearsStand`,
  `KinshipStands`, `FactsStand`, `NamesStand`).
* *Claims* (`SemanticsCorrect`): the first event's date is its one correction's, or none with
  a reason, or its own (`MineIs`); every date read from words has the shape of its kind
  (`ParsedIs`). A relationship that is still current was read from a text without a cue, and
  each clause it answers for is in that text (`SaidPlainly`).
* *Windows* (`WindowsCorrect`): the pieces of the segments are in order, none is empty and
  nothing is between them (`PiecesFit`, piece after piece, because each boundary is behind
  the one before it). The groups are stretches of the pieces, from `lo` to `hi`, that overlap or
  follow each other (`IsCut`); one more piece, a new group with what is carried over, and the join
  of two neighbours keep that (`CutGrows`, `CutOpens`, `CutJoins`), the last because what two
  overlapping stretches have between them, each piece once, is one stretch (`UniqueIs`). No group
  has two slices of one segment until groups are joined (`AllAlone`). Of the merge: after each
  mention, what became one person hangs together by shared segments (`Hangs`), which is why no
  part of it could have been kept apart, and the same of facts.
* *Cutting and merging speech* (`ChunkCorrect`): for recordings of any length under
  `ChunkAssumption`, which the defaults meet (speech of at most 20 s in ranges of at most
  22 s, gaps of 1.2 s, padding of 0.45 s, at most 24.9 s and 8 words). Regions are apart or
  cut where they are too long, so two ranges in a row begin two paddings apart or more.
  Hence a padded chunk holds its range even when trimmed, and only neighbours overlap, by
  no more than two paddings: the words two chunks share fit below the limits of the merge. Where all
  words differ, the shared words are the only tail of the text so far that is a head of
  the new part, so the text so far is what was spoken up to the end of the last chunk, a
  single shared word twice (`Retold`).
* *Pronouns* (`CorefCorrect`): after any number of runs the grounding is the first one's
  (`CompletedStays`). For quotations, after each character either a mark is open that nothing
  closes any more (`NeverCloses`), or every kind of mark was opened as often as it was closed
  and is still awaited (`Balanced`); the least position where neither held would contradict
  `CharKeeps`.

### Only model-checked

* Liveness: `EveryJobSettles`, `OnlyLastAttemptIsLost`, `EveryErasureSettles`. The prover
  has no `ENABLED` and so no fairness.

## 6. Plan

1. `BookJobs` composed with `CostGuard`: which calls escape the budget.
2. The web client's reconciliation of a memory by polling.

## 7. How to run

`tlc -config MCRecordingJobs.cfg MCRecordingJobs` checks a run, `tlapm
RecordingJobsProofs.tla` the proofs of a module. Every run ends within three
minutes on two cores, every proof module within fifteen minutes.

## 8. Not modelled

* What a sentence says: the word lists, patterns and inflections by which the extraction
  recognises kinship, doubt, dates and names. The modules take what was recognised as an
  input and model what is done with it.
* Prompts, anchors and language hints, which only the providers read; the continuity text
  and the layout of exported books.
* Evaluation and release gates, which score the pipeline offline and keep no state;
  load, smoke and release scripts, which call the API from outside.
* Migrations, which run before the processes start; the tables are the variables.
* The web client, which only uses the API; the planning prototypes.
* Redaction, log formats, error reporting, and request parsing, headers and status codes
  of the API.
* The arithmetic of the backoff with its jitter: a delay is a bounded number of ticks.
