--------------------------- MODULE FamilyArchive ----------------------------
(***************************************************************************)
(* The archive of one family: claims of its recordings, conflicts between  *)
(* them, reviewers' decisions, and the two projections that are deleted    *)
(* and rebuilt from the claims, the family graph and the person profiles.  *)
(*                                                                         *)
(* Nothing locks the family.  Transactions run at READ COMMITTED, and a    *)
(* session keeps the first version of a row it has loaded (SQLAlchemy's    *)
(* identity map), so what a transaction writes may rest on an old read.    *)
(* Its steps are: read and decide, write claims and conflicts, DELETE the  *)
(* projection, INSERT it again, commit.  A finalisation goes through them  *)
(* for the relationships and then for the attributes; a reviewer's         *)
(* decision for the kind of its conflict.  What is written stays locked    *)
(* and invisible to others until the commit.                               *)
(***************************************************************************)
EXTENDS ArchiveClaims, FiniteSetsExt

CONSTANTS
    Threads,       \* recording workers and API requests that run at once
    KnownPeople,   \* people archived before these recordings
    Notes,         \* the notes reviewers write
    MaxReviews     \* bound: how many decisions reviewers ask for

Nobody == [op |-> "none", at |-> "idle", kind |-> "none", rec |-> "", conf |-> <<>>,
           pref |-> {}, note |-> ""]

None == <<>>   \* the function with the empty domain

\* Rows, or the columns of a row, with what is written over them.
Over(w, f) == [x \in DOMAIN w \cup DOMAIN f |-> IF x \in DOMAIN w THEN w[x] ELSE f[x]]

VARIABLES
    recording,   \* recording -> where it stands
    people,      \* ArchivePersonRow: person -> source_recording_ids
    status,      \* ArchiveClaimRow.status, "absent" where there is no row
    conflicts,   \* ArchiveConflictRow by id
    decisions,   \* the latest ArchiveConflictDecisionRow of a conflict
    view,        \* FamilyGraphEdgeRow and MaterializedPersonProfileRow: key -> source_claim_ids
    req,         \* thread -> the transaction it runs
    loaded,      \* thread -> claim -> status, as its session holds them
    todo,        \* thread -> writes decided and not yet made
    made,        \* thread -> writes made and not yet committed
    reviews,     \* how many decisions were asked for
    raced,       \* the kinds that two overlapping transactions have worked on
    behind       \* the kinds a deletion has left to the next rebuild

dbVars == <<recording, people, status, conflicts, decisions, view, raced, behind>>
vars   == <<recording, people, status, conflicts, decisions, view, req, loaded, todo, made, reviews, raced, behind>>

NoWrites == [claims |-> None, conflicts |-> None, decisions |-> None, people |-> None,
             cleared |-> [k \in Kinds |-> {}], seen |-> {}, rows |-> [k \in Kinds |-> None]]

ClaimStatus == {"active", "accepted", "rejected", "disputed", "unresolved",
                "historical", "ended", "negated", "figurative"}

Stored == {c \in AllClaims : status[c] # "absent"}

AllPeople == KnownPeople \cup UNION {MappedPeople(r) : r \in Recordings}

TypeOK ==
    /\ recording \in [Recordings -> {"pending", "archived", "failed", "deleted"}]
    /\ DOMAIN people \subseteq AllPeople
    /\ status \in [AllClaims -> ClaimStatus \cup {"absent"}]
    /\ \A i \in DOMAIN conflicts :
          /\ conflicts[i].status \in {"open", "resolved", "dismissed"}
          /\ conflicts[i].claims \subseteq AllClaims
          /\ conflicts[i].preferred \subseteq AllClaims
    /\ DOMAIN decisions \subseteq DOMAIN conflicts
    /\ \A k \in Kinds : \A x \in DOMAIN view[k] : view[k][x] \subseteq OfKind(AllClaims, k)

Init ==
    /\ recording = [r \in Recordings |-> "pending"]
    /\ people = [p \in KnownPeople |-> {}]
    /\ status = [c \in AllClaims |-> "absent"]
    /\ conflicts = None
    /\ decisions = None
    /\ view = [k \in Kinds |-> IF k = "attribute" THEN [p \in KnownPeople |-> {}] ELSE None]
    /\ req = [t \in Threads |-> Nobody]
    /\ loaded = [t \in Threads |-> None]
    /\ todo = [t \in Threads |-> NoWrites]
    /\ made = [t \in Threads |-> NoWrites]
    /\ reviews = 0
    /\ raced = {}
    /\ behind = {}

-----------------------------------------------------------------------------
(* Transactions.                                                           *)

Active(t) == req[t].op # "none"

Others(t) == {u \in Threads \ {t} : Active(u)}

At(t, s) == Active(t) /\ req[t].at = s

Step(t, s) == req' = [req EXCEPT ![t].at = s]

End(t) ==
    /\ req' = [req EXCEPT ![t] = Nobody]
    /\ loaded' = [loaded EXCEPT ![t] = None]
    /\ todo' = [todo EXCEPT ![t] = NoWrites]
    /\ made' = [made EXCEPT ![t] = NoWrites]

\* The transaction rolls back.  A finalisation's job then fails as pipeline_failed, unless
\* the recording is gone.
Rollback(t) ==
    /\ End(t)
    /\ recording' = IF req[t].op = "finalise" /\ recording[req[t].rec] = "pending"
                    THEN [recording EXCEPT ![req[t].rec] = "failed"] ELSE recording
    /\ UNCHANGED <<people, status, conflicts, decisions, view, reviews, raced, behind>>

\* The connection is lost, the database breaks a deadlock, or the job is no longer the
\* worker's (finalize_recording_job).
AbortTransaction(t) == Active(t) /\ Rollback(t)

\* The claims a finalisation has inserted itself.
Own(t, k) == IF req[t].op = "finalise" THEN OfKind(ClaimsOf(req[t].rec), k) ELSE {}

\* What a query of t for the claims of a kind returns, and with which status.
Query(t, k) == OfKind(Stored, k) \cup Own(t, k)

Status(t, c) == IF c \in DOMAIN loaded[t] THEN loaded[t][c] ELSE status[c]

-----------------------------------------------------------------------------
(* Reconciliation (_reconcile_relationship_conflicts,                      *)
(* reconcile_generic_conflicts).                                           *)

KindOf(i) == IF i[1] = "relationship" THEN "relationship" ELSE "attribute"

NewId(g) == LET c == CHOOSE c \in g : TRUE
            IN  IF c.type = "relationship" THEN <<"relationship", g>> ELSE Topic(c)

\* _find_existing_conflict: the conflict of exactly these claims, else the most recently
\* updated one about the pair (which one that is, if there are several, is left open); an
\* attribute conflict is found by its id.
ExistingConflicts(t, g) ==
    LET exact == {i \in DOMAIN conflicts : KindOf(i) = "relationship" /\ conflicts[i].claims = g}
        pair  == {i \in DOMAIN conflicts : KindOf(i) = "relationship"
                    /\ \E c \in conflicts[i].claims \cap Query(t, "relationship") :
                          \E d \in g : Topic(c) = Topic(d)}
    IN  IF KindOf(NewId(g)) = "attribute" THEN {NewId(g)} \cap DOMAIN conflicts
        ELSE IF exact # {} THEN exact ELSE pair

OpenRow(g) == [status |-> "open", claims |-> g, preferred |-> {}, note |-> ""]

Reconciled_Sticky(row, g) == IF row.status # "open" THEN row ELSE OpenRow(g)

\* A conflict is opened again when its claims changed or the preferred one is gone.
Reconciled(row, g) ==
    IF row.claims # g \/ (row.status = "resolved" /\ row.preferred \cap g = {})
    THEN OpenRow(g) ELSE row

\* _apply_conflict_state
ConflictStatus(row, c) ==
    CASE row.status = "resolved" -> IF c \in row.preferred THEN "accepted" ELSE "rejected"
      [] row.status = "dismissed" -> "rejected"
      [] OTHER -> "disputed"

ReconciledStatus_OpenOnly(rows, c) ==
    LET of == {g \in DOMAIN rows : c \in g /\ rows[g].status = "open"}
    IN  IF of = {} THEN BaseStatus(c) ELSE ConflictStatus(rows[CHOOSE g \in of : TRUE], c)

\* Every claim is reset to its base status and takes its conflict's afterwards; rows has the
\* conflict of each group of competing claims.
ReconciledStatus(rows, c) ==
    LET of == {g \in DOMAIN rows : c \in g}
    IN  IF of = {} THEN BaseStatus(c) ELSE ConflictStatus(rows[CHOOSE g \in of : TRUE], c)

\* The columns an UPDATE writes: the ones that changed since the row was loaded.
Changed(old, new) == [a \in {b \in DOMAIN new : new[b] # old[b]} |-> new[a]]

Decision(action, row) == [action |-> action, status |-> row.status, preferred |-> row.preferred]

\* With the conflict chosen for each group, what reconciliation leaves in the session: the
\* status of every claim, and what it is going to write.
Reconcile(t, k, choice) ==
    LET claims == Query(t, k)
        groups == DOMAIN choice
        before(c) == IF c \in Own(t, k) THEN InsertedStatus(c) ELSE Status(t, c)
        row(g) == IF choice[g] = <<>> THEN OpenRow(g) ELSE Reconciled(conflicts[choice[g]], g)
        after == [c \in claims |-> ReconciledStatus([g \in groups |-> row(g)], c)]
        new == {g \in groups : choice[g] = <<>>}
        reopened == {g \in groups \ new : row(g) # conflicts[choice[g]]}
        id(g) == IF g \in new THEN NewId(g) ELSE choice[g]
        group(i) == CHOOSE g \in groups : id(g) = i
    IN  [loaded |-> after,
         claims |-> [c \in {d \in claims : before(d) # BaseStatus(d) \/ BaseStatus(d) # after[d]}
                       |-> after[c]],
         conflicts |-> [i \in {id(g) : g \in new \cup reopened} |->
                          IF group(i) \in new THEN row(group(i))
                          ELSE Changed(conflicts[i], row(group(i)))],
         decisions |-> [i \in {id(g) : g \in reopened} |-> Decision("auto_reopen", row(group(i)))]]

-----------------------------------------------------------------------------
(* Finalisation of a recording (orchestration/recordings.py).              *)

\* The people upserted, as read: a known one gets the recording added to the list.
UpsertPeople(r) ==
    [p \in MappedPeople(r) |-> (IF p \in DOMAIN people THEN people[p] ELSE {}) \cup {r}]

BeginFinalise(t, r) ==
    /\ ~ Active(t)
    /\ recording[r] = "pending"
    /\ \A u \in Threads : req[u].rec # r
    /\ req' = [req EXCEPT ![t] = [Nobody EXCEPT !.op = "finalise", !.rec = r,
                                  !.kind = "relationship", !.at = "people"]]
    /\ todo' = [todo EXCEPT ![t].people = UpsertPeople(r)]
    /\ UNCHANGED <<dbVars, loaded, made, reviews>>

\* The rows of known people are updated, which waits for another finalisation about them,
\* and the claims inserted, which needs the recording's row.
PeopleFree(t) == \A u \in Others(t) : DOMAIN made[u].people \cap DOMAIN todo[t].people = {}

RecordingGone(t) ==
    /\ At(t, "people") /\ PeopleFree(t)
    /\ recording[req[t].rec] = "deleted"
    /\ Rollback(t)

UpdatePeople(t) ==
    /\ At(t, "people") /\ PeopleFree(t)
    /\ recording[req[t].rec] = "pending"
    /\ made' = [made EXCEPT ![t].people = todo[t].people]
    /\ Step(t, "read")
    /\ UNCHANGED <<dbVars, loaded, todo, reviews>>

ReadAndReconcile(t) ==
    /\ At(t, "read") /\ req[t].op = "finalise"
    /\ \E choice \in {f \in [ConflictGroups(Query(t, req[t].kind)) -> DOMAIN conflicts \cup {<<>>}] :
                        \A g \in DOMAIN f : LET X == ExistingConflicts(t, g)
                                            IN  IF X = {} THEN f[g] = <<>> ELSE f[g] \in X} :
          LET w == Reconcile(t, req[t].kind, choice)
          IN  /\ loaded' = [loaded EXCEPT ![t] = Over(w.loaded, @)]
              /\ todo' = [todo EXCEPT ![t] = [NoWrites EXCEPT !.claims = w.claims,
                                               !.conflicts = w.conflicts, !.decisions = w.decisions]]
    /\ Step(t, "write")
    /\ UNCHANGED <<dbVars, made, reviews>>

-----------------------------------------------------------------------------
(* Reviewers' decisions (ConflictResolutionService,                        *)
(* GenericConflictReviewService).                                          *)

BeginDecision(t, op, i, pref, note) ==
    /\ ~ Active(t)
    /\ reviews < MaxReviews /\ reviews' = reviews + 1
    /\ req' = [req EXCEPT ![t] = [Nobody EXCEPT !.op = op, !.conf = i, !.kind = KindOf(i),
                                  !.pref = pref, !.note = note, !.at = "write"]]

\* What the session writes when row replaces the conflict that was read.
Decide(t, i, action, row) ==
    LET there == conflicts[i].claims \cap Stored
        after == [c \in there |-> ConflictStatus(row, c)]
    IN  /\ loaded' = [loaded EXCEPT ![t] = after]
        /\ todo' = [todo EXCEPT ![t] =
                      [NoWrites EXCEPT !.claims = [c \in {d \in there : after[d] # status[d]} |-> after[c]],
                                       !.conflicts = [j \in {i} |-> Changed(conflicts[j], row)],
                                       !.decisions = [j \in {i} |-> Decision(action, row)]]]

\* A decision repeated word for word only rebuilds the projection.
Repeat(t, i) ==
    /\ loaded' = [loaded EXCEPT ![t] = [c \in conflicts[i].claims \cap Stored |-> status[c]]]
    /\ UNCHANGED todo

Resolve(t, i, c, note) ==
    /\ BeginDecision(t, "resolve", i, {c}, note)
    /\ c \in conflicts[i].claims \cap Stored
    /\ ClaimIsGrounded(c)
    /\ LET row == [conflicts[i] EXCEPT !.status = "resolved", !.preferred = {c}, !.note = note]
       IN  IF row = conflicts[i] THEN Repeat(t, i) ELSE Decide(t, i, "resolve", row)
    /\ UNCHANGED <<dbVars, made>>

Dismiss(t, i, note) ==
    /\ BeginDecision(t, "dismiss", i, {}, note)
    /\ IF conflicts[i].status = "dismissed" /\ conflicts[i].note = note THEN Repeat(t, i)
       ELSE Decide(t, i, "dismiss", [conflicts[i] EXCEPT !.status = "dismissed", !.preferred = {},
                                                         !.note = note])
    /\ UNCHANGED <<dbVars, made>>

Reopen(t, i, note) ==
    /\ BeginDecision(t, "reopen", i, {}, note)
    /\ conflicts[i].status # "open"
    /\ Decide(t, i, "reopen", [conflicts[i] EXCEPT !.status = "open", !.preferred = {}, !.note = note])
    /\ UNCHANGED <<dbVars, made>>

-----------------------------------------------------------------------------
(* Writing.                                                                *)

\* The rows are locked as they are written, so a write waits for the one that has them.
Blocked(t) ==
    \E u \in Others(t) :
       \/ DOMAIN made[u].claims \cap DOMAIN todo[t].claims # {}
       \/ DOMAIN made[u].conflicts \cap DOMAIN todo[t].conflicts # {}

\* An UPDATE that finds its row gone and an INSERT that finds its key taken are errors.
WriteFails(t) ==
    \/ \E c \in DOMAIN todo[t].claims : status[c] = "absent" /\ c \notin Own(t, c.type)
    \/ \E i \in DOMAIN todo[t].conflicts :
          i \in DOMAIN conflicts /\ i \notin DOMAIN todo[t].decisions

WriteClaims(t) ==
    /\ At(t, "write") /\ ~ Blocked(t) /\ ~ WriteFails(t)
    /\ made' = [made EXCEPT ![t].claims = Over(todo[t].claims, @),
                            ![t].conflicts = Over(todo[t].conflicts, @),
                            ![t].decisions = Over(todo[t].decisions, @)]
    /\ Step(t, "clear")
    /\ todo' = [todo EXCEPT ![t] = NoWrites]
    /\ UNCHANGED <<dbVars, loaded, reviews>>

WriteError(t) == At(t, "write") /\ ~ Blocked(t) /\ WriteFails(t) /\ Rollback(t)

\* DELETE FROM the projection: it removes the rows it saw when it started and that are still
\* there when it gets to them, waiting for whoever is deleting them.
Deleting(t, k, rows) == \E u \in Others(t) : made[u].cleared[k] \cap rows # {}

ClearWaits(t) ==
    LET k == req[t].kind
    IN  /\ At(t, "clear") /\ Deleting(t, k, DOMAIN view[k])
        /\ todo' = [todo EXCEPT ![t].seen = DOMAIN view[k]]
        /\ Step(t, "clearing")
        /\ UNCHANGED <<dbVars, loaded, made, reviews>>

Clear(t) ==
    LET k == req[t].kind
        rows == IF req[t].at = "clearing" THEN todo[t].seen ELSE DOMAIN view[k]
    IN  /\ At(t, "clear") \/ At(t, "clearing")
        /\ ~ Deleting(t, k, rows)
        /\ made' = [made EXCEPT ![t].cleared[k] = rows \cap DOMAIN view[k]]
        /\ todo' = [todo EXCEPT ![t] = NoWrites]
        /\ Step(t, "insert")
        /\ UNCHANGED <<dbVars, loaded, reviews>>

\* _rebuild_graph and rebuild_materialized_profiles: the grounded claims that stand, by edge
\* and by person; every person has a profile.
Materializes(t, c) == Status(t, c) \in {"active", "accepted"} /\ ClaimIsGrounded(c)

ProjectionKey(c) == IF c.type = "relationship" THEN RelationshipSignature(c) ELSE c.subject

Projection(t, k) ==
    LET sources == {c \in Query(t, k) : Materializes(t, c)}
        known == DOMAIN people \cup DOMAIN made[t].people
    IN  [x \in (IF k = "relationship" THEN {ProjectionKey(c) : c \in sources} ELSE known) |->
           {c \in sources : ProjectionKey(c) = x}]

InsertBlocked(t) ==
    LET k == req[t].kind
    IN  \E u \in Others(t) :
           (made[u].cleared[k] \cup DOMAIN made[u].rows[k]) \cap DOMAIN Projection(t, k) # {}

KeyTaken(t) ==
    LET k == req[t].kind
    IN  \E x \in DOMAIN Projection(t, k) : x \in DOMAIN view[k] /\ x \notin made[t].cleared[k]

Insert(t) ==
    LET k == req[t].kind
    IN  /\ At(t, "insert") /\ ~ InsertBlocked(t) /\ ~ KeyTaken(t)
        /\ made' = [made EXCEPT ![t].rows[k] = Projection(t, k)]
        /\ req' = [req EXCEPT ![t] = IF @.op = "finalise" /\ k = "relationship"
                                     THEN [@ EXCEPT !.kind = "attribute", !.at = "read"]
                                     ELSE [@ EXCEPT !.at = "commit"]]
        /\ UNCHANGED <<dbVars, loaded, todo, reviews>>

InsertError(t) == At(t, "insert") /\ ~ InsertBlocked(t) /\ KeyTaken(t) /\ Rollback(t)

KindsOf(t) == IF req[t].op = "finalise" THEN Kinds ELSE {req[t].kind}

\* A change of a kind's rows while others work on the kind.
Races(t, K) == raced \cup {k \in K : \E u \in Others(t) : k \in KindsOf(u)}

Commit(t) ==
    LET w == made[t]
        inserted == Own(t, "relationship") \cup Own(t, "attribute")
    IN  /\ At(t, "commit")
        /\ recording' = IF req[t].op = "finalise" THEN [recording EXCEPT ![req[t].rec] = "archived"]
                        ELSE recording
        /\ people' = Over(w.people, people)
        /\ status' = [c \in AllClaims |-> IF c \in DOMAIN w.claims THEN w.claims[c]
                                          ELSE IF c \in inserted THEN Status(t, c) ELSE status[c]]
        /\ conflicts' = [i \in DOMAIN conflicts \cup DOMAIN w.conflicts |->
                           IF i \notin DOMAIN w.conflicts THEN conflicts[i]
                           ELSE IF i \in DOMAIN conflicts THEN Over(w.conflicts[i], conflicts[i])
                           ELSE w.conflicts[i]]
        /\ decisions' = Over(w.decisions, decisions)
        /\ view' = [k \in Kinds |->
                      Over(w.rows[k], [x \in DOMAIN view[k] \ w.cleared[k] |-> view[k][x]])]
        /\ raced' = Races(t, KindsOf(t))
        /\ behind' = behind \ KindsOf(t)
        /\ End(t)
        /\ UNCHANGED reviews

-----------------------------------------------------------------------------
(* delete_recording: the claims go, the projections, the conflicts and the *)
(* people stay.  It waits for a finalisation of the recording, whose       *)
(* claims refer to its row, and for writers of its claims.                 *)

DeleteRecording(r) ==
    /\ recording[r] # "deleted"
    /\ \A u \in Threads : /\ req[u].rec = r => At(u, "people")
                          /\ DOMAIN made[u].claims \cap ClaimsOf(r) = {}
    /\ recording' = [recording EXCEPT ![r] = "deleted"]
    /\ status' = [c \in AllClaims |-> IF c.rec = r THEN "absent" ELSE status[c]]
    /\ LET K == {c.type : c \in {d \in Stored : d.rec = r}}
       IN  /\ raced' = raced \cup {k \in K : \E u \in Threads : Active(u) /\ k \in KindsOf(u)}
           /\ behind' = behind \cup K
    /\ UNCHANGED <<people, conflicts, decisions, view, req, loaded, todo, made, reviews>>

-----------------------------------------------------------------------------

Next ==
    \/ \E t \in Threads, r \in Recordings : BeginFinalise(t, r)
    \/ \E t \in Threads, i \in DOMAIN conflicts, note \in Notes :
          \/ \E c \in conflicts[i].claims : Resolve(t, i, c, note)
          \/ Dismiss(t, i, note)
          \/ Reopen(t, i, note)
    \/ \E t \in Threads :
          \/ RecordingGone(t) \/ UpdatePeople(t) \/ ReadAndReconcile(t) \/ WriteClaims(t) \/ WriteError(t)
          \/ ClearWaits(t) \/ Clear(t) \/ Insert(t) \/ InsertError(t) \/ Commit(t)
          \/ AbortTransaction(t)
    \/ \E r \in Recordings : DeleteRecording(r)

Spec == Init /\ [][Next]_vars

-----------------------------------------------------------------------------
(* What readers of the archive see (storage/archive_read.py).              *)

ListRelationships ==
    {x \in DOMAIN view["relationship"] : \A e \in x[2] : e[1] \in DOMAIN people}

ReviewItems == {i \in DOMAIN conflicts : conflicts[i].status = "open"}

\* grounding_bundle: the part of the archive a book over the selected recordings rests on.  A
\* disputed claim is in it only together with all of its conflict.
SelectedPeople(S) ==
    {MappedPerson(r, x.id) : r \in S, x \in UNION {Extraction[s].mentions : s \in S}} \ {NoPerson}

WithinSelection(S, i) ==
    \A c \in conflicts[i].claims :
       c.rec \in S /\ status[c] \in {"active", "accepted", "disputed"}

BundleClaims(S) ==
    LET whole == UNION {conflicts[i].claims : i \in {j \in DOMAIN conflicts : WithinSelection(S, j)}}
    IN  {c \in Stored : BookTruthEligible(c, status[c], S, c \in whole)}

BundleConflicts(S) == {i \in DOMAIN conflicts : conflicts[i].claims \subseteq BundleClaims(S)}

BundleRelationships(S) ==
    {x \in DOMAIN view["relationship"] :
       /\ view["relationship"][x] \cap BundleClaims(S) # {}
       /\ \A e \in x[2] : e[1] \in SelectedPeople(S)}

Archived == {r \in Recordings : recording[r] = "archived"}

-----------------------------------------------------------------------------
(* Properties.                                                             *)

\* A recording's claims and its completion are committed together, and its deletion takes
\* every one of them: whatever transactions overlap or fail, exactly the claims of the
\* archived recordings are stored (persist_pipeline_result, delete_recording).
ClaimsFollowRecordings == Stored = UNION {ClaimsOf(r) : r \in Archived}

\* Unless transactions about it overlapped, a conflict stands as the last decision on it left
\* it: no finalisation changes a reviewer's word without recording that it opened the
\* conflict again (_reconcile_relationship_conflicts, _upsert_conflict).
DecisionStands ==
    \A i \in DOMAIN conflicts : KindOf(i) \notin raced =>
       IF i \in DOMAIN decisions
       THEN /\ conflicts[i].status = decisions[i].status
            /\ conflicts[i].preferred = decisions[i].preferred
       ELSE conflicts[i].status = "open"

\* Unless transactions about it overlapped, the claim a conflict was resolved for is one of
\* its claims, and the only one.  (An old decision to prefer a claim can be written over a
\* conflict that another transaction has opened again without that claim.)
PreferredIsClaim ==
    \A i \in DOMAIN conflicts : KindOf(i) \notin raced =>
       /\ conflicts[i].preferred \subseteq conflicts[i].claims
       /\ \A c, d \in conflicts[i].preferred : c = d

\* Unless transactions overlapped, two stored, grounded claims that disagree are claims of one
\* conflict, so a reader finds them under review or decided (list_review_items).
ContradictionsAreReviewed ==
    \A c, d \in Stored :
       (c.type \notin raced /\ ClaimIsGrounded(c) /\ ClaimIsGrounded(d) /\ Disagree(c, d))
       => \E i \in DOMAIN conflicts :
             /\ {c, d} \subseteq conflicts[i].claims
             /\ i \in ReviewItems \/ i \in DOMAIN decisions

\* The claims of a kind that a projection has to show.
Standing(k) == {c \in OfKind(Stored, k) : status[c] \in {"active", "accepted"} /\ ClaimIsGrounded(c)}

\* Unless transactions overlapped or a deletion waits for the next rebuild, the graph has an
\* edge exactly for the grounded claims that are neither disputed nor rejected, and so have
\* the profiles (_rebuild_graph, rebuild_materialized_profiles).
ProjectionsAreCurrent ==
    \A k \in Kinds \ (raced \cup behind) :
       /\ UNION {view[k][x] : x \in DOMAIN view[k]} = Standing(k)
       /\ \A x \in DOMAIN view[k] : \A c \in view[k][x] : ProjectionKey(c) = x
       /\ k = "attribute" => DOMAIN view[k] = DOMAIN people

\* Unless two finalisations overlapped, a person lists every archived recording that names it
\* (_upsert_people writes the whole list back, from the one it read).
PeopleKeepSources ==
    Kinds \subseteq raced
    \/ \A r \in Archived : \A p \in MappedPeople(r) : p \in DOMAIN people /\ r \in people[p]

\* A book that takes both sides of a contradiction as sources is told of the conflict, and no
\* relationship in it rests on a disputed claim (grounding_bundle), unless transactions
\* overlapped.
BookSeesConflicts ==
    \A S \in SUBSET Archived :
       /\ \A c, d \in BundleClaims(S) :
             (c.type \notin raced /\ ClaimIsGrounded(c) /\ Disagree(c, d))
             => \E i \in BundleConflicts(S) : {c, d} \subseteq conflicts[i].claims
       /\ "relationship" \in raced \/ \A x \in BundleRelationships(S) :
             \A c \in view["relationship"][x] : status[c] # "disputed"

\* A claim a reviewer's decision rejected comes back only when that conflict changes hands or
\* loses a claim, never as a side effect of another recording or decision.
RejectedStaysOut ==
    [][\A c \in AllClaims :
         (status[c] = "rejected" /\ status'[c] \in {"active", "accepted", "disputed"} /\ c.type \notin raced')
         => \E i \in DOMAIN conflicts :
               /\ c \in conflicts[i].claims
               /\ conflicts'[i] # conflicts[i] \/ ~ (conflicts[i].claims \subseteq Stored)]_vars

\* Of the claims of an open conflict none is in the graph or in a profile while another that
\* disagrees with it is stored: an unresolved conflict has no winner.
OpenConflictHasNoWinner ==
    \A i \in ReviewItems : \A c, d \in conflicts[i].claims \cap Stored :
       Disagree(c, d) => \A x \in DOMAIN view[c.type] : c \notin view[c.type][x]

\* The archive in every state: claims come and go with their recordings; decisions stand with
\* their log, contradictions are under review, graph, profiles and people are what the stored
\* claims say, and a book's bundle names the conflicts it contains, each as far as no two
\* transactions overlapped on it (finalize_recording_job, _reconcile_relationship_conflicts,
\* resolve, _rebuild_graph, _upsert_people, grounding_bundle).
ArchiveInv ==
    /\ TypeOK
    /\ ClaimsFollowRecordings /\ DecisionStands /\ PreferredIsClaim /\ ContradictionsAreReviewed
    /\ ProjectionsAreCurrent /\ PeopleKeepSources /\ BookSeesConflicts

=============================================================================
