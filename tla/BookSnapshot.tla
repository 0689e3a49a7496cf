---------------------------- MODULE BookSnapshot ----------------------------
(***************************************************************************)
(* The immutable sources of a family book: the bundle the archive gives    *)
(* for the selected recordings (storage/archive_read.py), its compilation  *)
(* (src/mura/book/snapshot.py) and the closure check the API makes before  *)
(* it stores the snapshot and the worker repeats before it plans           *)
(* (src/mura/book/snapshot_validation.py).                                 *)
(*                                                                         *)
(* Three recordings of one family; two claims of r1 and r1 or r2, perhaps  *)
(* in a conflict; the people p1, named in r1, and p2; two edges of the     *)
(* graph, "p1 is a parent of p2" and "p1 and p2 are married".  Numbers of  *)
(* evidence and objects are local to a recording: an extraction in one     *)
(* window keeps the ids the model proposed.                                *)
(***************************************************************************)
EXTENDS Integers, FiniteSets

CONSTANTS
    MaxSources,    \* MAX_BOOK_SOURCE_RECORDINGS
    MaxQuotes      \* MAX_BOOK_EVIDENCE_QUOTES

VARIABLES
    stage,      \* "select", "archive", "bundle", "compile", "check", "stored", "worker" or a refusal
    selected,   \* the recordings chosen for the book
    stock,      \* the archive: [claims, conflict, quotes]
    bundle,     \* GroundingBundle, NoBundle before
    snapshot    \* BookSourceSnapshot, NoBundle before

snapshotVars == <<stage, selected, stock, bundle, snapshot>>

Sources == {"r1", "r2", "r3"}
BookPeople == {"p1", "p2"}
NoBundle == [claims |-> {}, people |-> {}, edge |-> {}, conflict |-> FALSE, quotes |-> {}]
NoStock == [claims |-> {}, conflict |-> FALSE, quotes |-> {}]

\* What a claim may say: who is parent of whom and how it is written, or another kind of object.
Tie(type, subject, role, object, other) ==
    [kind |-> "relationship", type |-> type, subject |-> subject, role |-> role, object |-> object, other |-> other]
Plain(kind, person) ==
    [kind |-> kind, type |-> "none", subject |-> person, role |-> "none", object |-> "none", other |-> "none"]

Sayings ==
    {Tie("parent_child", "p1", "parent", "p2", "child"), Tie("spouse", "p2", "spouse", "p1", "spouse"),
     Tie("parent_child", "p2", "parent", "p1", "child"), Tie("spouse", "p1", "spouse", "p2", "spouse"),
     Plain("person_mention", "p2"), Plain("description", "p2"), Plain("event", "p2"),
     Plain("story", "p2"), Plain("question", "p2")}

\* A row of archive_claims: grounded stands for evidence class A, B or C, explicit or no mode, not rejected.
\* A mention has a name or none, and may carry another one that was heard or has been confirmed.
Claim(id, rec, says, status, grounded, n, named, alias) ==
    [id |-> id, rec |-> rec, says |-> says, status |-> status, grounded |-> grounded, n |-> n,
     named |-> named, alias |-> alias]

\* canonical_relationship: who stands in which role; spouses from either end are the same.
CanonicalTie(t) == <<t.type, {<<t.subject, t.role>>, <<t.object, t.other>>}>>

\* The rows of family_graph_edges.
Edges == {Tie("parent_child", "p1", "parent", "p2", "child"), Tie("spouse", "p1", "spouse", "p2", "spouse")}

SnapshotInit ==
    /\ stage = "select" /\ selected = {} /\ stock = NoStock /\ bundle = NoBundle /\ snapshot = NoBundle

\* get_eligible_recordings: a recording not yet finished, or too many of them, refuses the book
\* before anything is read (ArchiveResourceNotFound, GroundingSourceLimitExceeded).
SelectSources(S, eligible) ==
    /\ stage = "select" /\ selected' = S
    /\ stage' = IF ~(S \subseteq eligible) THEN "not_found"
                ELSE IF Cardinality(S) > MaxSources THEN "too_many" ELSE "archive"
    /\ UNCHANGED <<stock, bundle, snapshot>>

\* Finished recordings left these rows: every claim's evidence is a quote of its own recording,
\* an object id occurs once in a recording, and a conflict has both claims disputed, or one
\* preferred and the other superseded.
FillArchive(claims, conflict, extra) ==
    /\ stage = "archive" /\ stage' = "bundle"
    /\ \A c, d \in claims : c # d /\ c.rec = d.rec /\ c.says.kind = d.says.kind => c.n # d.n
    /\ stock' = [claims |-> claims, conflict |-> conflict,
                 quotes |-> {<<c.rec, c.n>> : c \in claims} \cup extra]
    /\ UNCHANGED <<selected, bundle, snapshot>>

FactIds == {"c1", "c2"}

\* The claims of the selected recordings that are not superseded or rejected.
CandidateRows(a) == {c \in a.claims : c.rec \in selected /\ c.status \in {"active", "disputed"}}

\* A disputed claim is a candidate only when every claim of its conflict is one.
WholeConflict(a) == a.conflict /\ \A i \in FactIds : \E c \in CandidateRows(a) : c.id = i

\* is_book_truth_eligible: a question is never a fact of the book.
TruthEligible(c, whole) ==
    /\ c.grounded /\ c.rec \in selected
    /\ c.status = "active" \/ (c.status = "disputed" /\ whole /\ c.id \in FactIds)
    /\ c.says.kind # "question"

\* People are made of the selected mentions alone, every attribute with the recordings it comes
\* from; one that no selected mention names is left out.
MentionsOf(truth, p) == {c \in truth : c.says.kind = "person_mention" /\ c.says.subject = p}
PeopleOf(truth) ==
    {[id |-> p, name |-> {c.rec : c \in {d \in MentionsOf(truth, p) : d.named}},
      heard |-> {c.rec : c \in {d \in MentionsOf(truth, p) : d.alias # "none"}},
      verified |-> \E c \in MentionsOf(truth, p) : c.alias = "confirmed"] :
        p \in {q \in BookPeople : \E c \in MentionsOf(truth, q) : c.named}}
IdsOf(things) == {t.id : t \in things}

ListedClaims(truth) == {c \in truth : c.says.kind \notin {"event", "story", "question"}}

\* The edge is family-wide: only a selected claim of the same direction and roles carries it.
EdgeSupport(truth) ==
    {s \in Edges \X FactIds : \E c \in truth : c.id = s[2] /\ CanonicalTie(c.says) = CanonicalTie(s[1])}

\* grounding_bundle
BundleOf(a) ==
    LET truth == {c \in CandidateRows(a) : TruthEligible(c, WholeConflict(a))}
        asked == {c \in CandidateRows(a) : c.says.kind = "question" /\ c.grounded}
    IN  [claims |-> truth \cup asked, people |-> PeopleOf(truth),
         edge |-> IF BookPeople \subseteq IdsOf(PeopleOf(truth)) THEN EdgeSupport(truth) ELSE {},
         conflict |-> a.conflict /\ FactIds \subseteq IdsOf(ListedClaims(truth)),
         quotes |-> {q \in a.quotes : q[1] \in selected}]

GatherSources == /\ stage = "bundle" /\ stage' = "compile" /\ bundle' = BundleOf(stock)
                 /\ UNCHANGED <<selected, stock, snapshot>>

\* Evidence a fact, an event or a story of the bundle cites, by its local id; questions cite none.
CitedIds(b) == {c.n : c \in {d \in b.claims : d.says.kind # "question"}}
RequiredQuotes(b) == {q \in b.quotes : q[2] \in CitedIds(b)}

\* What is cited is never cut; other quotes fill what is left of the budget.
KeptQuotes(b) ==
    LET optional == b.quotes \ RequiredQuotes(b)
        room == MaxQuotes - Cardinality(RequiredQuotes(b))
    IN  {RequiredQuotes(b) \cup Q : Q \in {O \in SUBSET optional :
            Cardinality(O) = (IF Cardinality(optional) <= room THEN Cardinality(optional) ELSE room)}}

\* An attribute stays when all of its recordings are selected; a name only heard is no identity
\* of the book ("would promote an unverified mention variant into a truth boundary").
CompiledPeople(b) ==
    {[id |-> p.id, name |-> p.name,
      alias |-> IF p.verified /\ p.heard \subseteq selected THEN p.heard ELSE {}] :
        p \in {q \in b.people : q.name # {} /\ q.name \subseteq selected}}

\* A person who is not in the book is blanked in claims, and no participant of an event or a story.
CompiledClaims(b) ==
    LET known(p) == IF p \in IdsOf(CompiledPeople(b)) THEN p ELSE "none"
    IN  {[c EXCEPT !.says.subject = known(c.says.subject), !.says.object = known(c.says.object)] : c \in b.claims}

\* Once more over the claims of the bundle: the edge's support, and conflicts with all their claims.
CompiledEdge(b) ==
    IF BookPeople \subseteq IdsOf(CompiledPeople(b))
    THEN b.edge \cap EdgeSupport({c \in b.claims : c.rec \in selected}) ELSE {}
CompiledConflict(b) == b.conflict /\ FactIds \subseteq IdsOf(ListedClaims(b.claims))

\* compile_source_snapshot up to its check; the size limit is on what is cited.
CompileSnapshot ==
    /\ stage = "compile"
    /\ IF ~(CitedIds(bundle) \subseteq {q[2] : q \in bundle.quotes})
       THEN stage' = "invalid" /\ UNCHANGED snapshot
       ELSE IF Cardinality(RequiredQuotes(bundle)) > MaxQuotes
       THEN stage' = "too_large" /\ UNCHANGED snapshot
       ELSE /\ stage' = "check"
            /\ \E Q \in KeptQuotes(bundle) :
                  snapshot' = [claims |-> CompiledClaims(bundle), people |-> CompiledPeople(bundle),
                               edge |-> CompiledEdge(bundle), conflict |-> CompiledConflict(bundle),
                               quotes |-> Q]
    /\ UNCHANGED <<selected, stock, bundle>>

SharedQuoteIds(b) == \E q, r \in b.quotes : q # r /\ q[2] = r[2]
SharedObjectIds(b) ==
    \E c, d \in b.claims : c # d /\ c.says.kind = d.says.kind /\ c.says.kind \in {"event", "story"} /\ c.n = d.n

ClosedClaims_AnyDispute(s) == \A c \in ListedClaims(s.claims) : c.rec \in selected

\* validate_snapshot_closure, in the order of the code.  Claims: selected, with evidence, and
\* disputed only when a conflict of the snapshot lists them.
ClosedClaims(s) ==
    \A c \in ListedClaims(s.claims) :
       /\ c.rec \in selected /\ c.grounded
       /\ c.status = "active" \/ (c.status = "disputed" /\ s.conflict /\ c.id \in FactIds)
       /\ \E q \in s.quotes : q[2] = c.n

ClosedPeople(s) == \A p \in s.people : p.name # {} /\ p.name \cup p.alias \subseteq selected

ClosedEdge(s) == /\ s.edge # {} => BookPeople \subseteq IdsOf(s.people)
                 /\ s.edge \subseteq EdgeSupport(s.claims)

\* Stories and events: their recording, evidence and people; questions: their recording.
ClosedTales(s) ==
    \A c \in s.claims \ ListedClaims(s.claims) :
       /\ c.rec \in selected
       /\ c.says.kind # "question" => /\ \E q \in s.quotes : q[2] = c.n
                                     /\ c.says.subject \in IdsOf(s.people) \cup {"none"}

ClosedConflict(s) == s.conflict => FactIds \subseteq IdsOf(ListedClaims(s.claims))

ClosedSnapshot(s) ==
    /\ ~SharedQuoteIds(s) /\ ~SharedObjectIds(s)
    /\ \A q \in s.quotes : q[1] \in selected
    /\ ClosedClaims(s) /\ ClosedPeople(s) /\ ClosedEdge(s) /\ ClosedTales(s) /\ ClosedConflict(s)

\* The API stores a closed snapshot or answers book_source_snapshot_invalid.
CheckSnapshot ==
    /\ stage = "check" /\ stage' = IF ClosedSnapshot(snapshot) THEN "stored" ELSE "invalid"
    /\ UNCHANGED <<selected, stock, bundle, snapshot>>

\* The worker checks what it reads again, whatever became of the archive since.
WorkerChecksAgain ==
    /\ stage = "stored" /\ stage' = IF ClosedSnapshot(snapshot) THEN "worker" ELSE "job_failed"
    /\ UNCHANGED <<selected, stock, bundle, snapshot>>

Statuses == {<<"active", "active", FALSE>>, <<"disputed", "disputed", TRUE>>, <<"active", "superseded", TRUE>>}
SecondMentions == {<<"r1", TRUE, "heard">>, <<"r2", TRUE, "confirmed">>, <<"r2", FALSE, "confirmed">>}

SnapshotNext ==
    \/ stage = "select" /\ \E S \in SUBSET Sources, E \in {Sources, {"r1"}} : SelectSources(S, E)
    \/ stage = "archive" /\ \E says1, says2 \in Sayings, s \in Statuses, g \in BOOLEAN, r \in {"r1", "r2"},
             n \in 1..2, m \in SecondMentions :
          FillArchive({Claim("c1", "r1", says1, s[1], g, 1, TRUE, "none"),
                       Claim("c2", r, says2, s[2], TRUE, n, TRUE, "heard"),
                       Claim("m1", "r1", Plain("person_mention", "p1"), "active", TRUE, 3, TRUE, "none"),
                       Claim("m2", m[1], Plain("person_mention", "p2"), "active", TRUE, 4, m[2], m[3])},
                      s[3], {<<"r1", 5>>})
    \/ GatherSources
    \/ CompileSnapshot
    \/ CheckSnapshot
    \/ WorkerChecksAgain

-----------------------------------------------------------------------------
(* Properties.                                                             *)

SnapshotTypeOK ==
    /\ stage \in {"select", "archive", "bundle", "compile", "check", "stored", "worker",
                  "not_found", "too_many", "too_large", "invalid", "job_failed"}
    /\ selected \subseteq Sources
    /\ IdsOf(snapshot.people) \subseteq BookPeople /\ bundle.conflict \in BOOLEAN

Within(a) ==
    [claims |-> {c \in a.claims : c.rec \in selected},
     conflict |-> a.conflict /\ \A i \in FactIds : \E c \in a.claims : c.id = i /\ c.rec \in selected,
     quotes |-> {q \in a.quotes : q[1] \in selected}]

\* A book knows only what was selected: the bundle is the one the archive would give if the
\* other recordings, and every conflict that reaches into one of them, had never been stored
\* (the edges and the people of the graph are family-wide).
OnlyTheSelected == stage \notin {"select", "archive", "bundle", "not_found", "too_many"} =>
                      bundle = BundleOf(Within(stock))

\* An edge of the graph enters a book only with a selected claim that says the same of the same
\* people, from either end.
EdgeSaysTheSame ==
    stage \in {"stored", "worker"} =>
       \A s \in snapshot.edge : \E c \in stock.claims :
          /\ c.id = s[2] /\ c.rec \in selected /\ c.grounded /\ c.says.type = s[1].type
          /\ c.says.type = "parent_child" => c.says.subject = "p1"

\* A second name of a person of the book was confirmed in a selected recording; one confirmed only
\* in another recording, or only heard, is none.
NamesAreConfirmed ==
    stage \in {"stored", "worker"} =>
       \A p \in snapshot.people : p.alias # {} =>
          \E c \in stock.claims : /\ c.says.kind = "person_mention" /\ c.says.subject = p.id
                                  /\ c.rec \in selected /\ c.alias = "confirmed"

\* A stored snapshot with one side of an open contradiction has the conflict and the other side.
DisputesComeWhole ==
    stage \in {"stored", "worker"} =>
       \A c \in ListedClaims(snapshot.claims) : c.status = "disputed" =>
          snapshot.conflict /\ FactIds \subseteq IdsOf(ListedClaims(snapshot.claims))

\* Finished recordings are refused as invalid in two cases only: two selected recordings use the
\* same local id, or a claim was let in for its conflict and the other side of the conflict is no
\* fact of the book (an event, a story, or ungrounded), so that the conflict is left out.  The
\* budget of quotations, above all, never cuts one that a fact rests on ("Mandatory provenance may
\* never be truncated to satisfy a context cap"), and the worker never refuses what the API stored.
RefusedOnlyFor ==
    /\ stage = "invalid" =>
          \/ SharedQuoteIds(snapshot) \/ SharedObjectIds(snapshot)
          \/ \E c \in ListedClaims(snapshot.claims) : c.status = "disputed" /\ ~snapshot.conflict
    /\ stage # "job_failed"

\* The sources of a book: only what was selected, edges and names as the archive confirms
\* them, disputes whole or not at all, and a refusal only for the reasons listed
\* (compile_source_snapshot).
SnapshotInv ==
    /\ SnapshotTypeOK
    /\ OnlyTheSelected /\ EdgeSaysTheSame /\ NamesAreConfirmed /\ DisputesComeWhole
    /\ RefusedOnlyFor

=============================================================================
