------------------------ MODULE FamilyArchiveProofs -------------------------
(***************************************************************************)
(* What holds of the family archive for any recordings, extractions,       *)
(* threads, people and notes: the archive's invariant and that a rejected  *)
(* claim stays out.                                                        *)
(*                                                                         *)
(* The argument.  As long as no two transactions overlapped on a kind of   *)
(* claims, the part of the archive that belongs to the kind is the one a   *)
(* transaction on it read when it began.  So what the transaction is going *)
(* to leave behind is known from what it has decided: Outcome says that it *)
(* is as good as what was there.  Its commit makes it the archive and, if  *)
(* another transaction on the kind is under way, records that the two      *)
(* overlapped.  What holds even when they do (types, which claims are      *)
(* stored, what a conflict is about) is stated apart, in ArchiveOK and     *)
(* ThreadOK.                                                               *)
(*                                                                         *)
(* The parts of the invariant are operators on the values of the           *)
(* variables, so that what a step leaves alone is plainly the same after   *)
(* it.                                                                     *)
(***************************************************************************)
EXTENDS FamilyArchive, TLAPS

IsFunction(f) == f = [x \in DOMAIN f |-> f[x]]

-----------------------------------------------------------------------------
(* A kind of claims on its own.                                            *)

\* The claims, and the conflicts or decisions, of a kind.
StatusPart(st, k) == [c \in OfKind(AllClaims, k) |-> st[c]]
Part(f, k)        == [i \in {j \in DOMAIN f : KindOf(j) = k} |-> f[i]]

Present(k, s) == {c \in OfKind(AllClaims, k) : s[c] # "absent"}

\* The decision recorded last is the state of the conflict.
AsDecided(cf, de) ==
    \A i \in DOMAIN cf :
       IF i \in DOMAIN de THEN cf[i].status = de[i].status /\ cf[i].preferred = de[i].preferred
       ELSE cf[i].status = "open"

OnePreferred(cf) ==
    \A i \in DOMAIN cf : /\ cf[i].preferred \subseteq cf[i].claims
                         /\ \A c, d \in cf[i].preferred : c = d

\* Of the conflicts about one thing only one has claims that are still stored.
OneLive(k, s, cf) ==
    \A i, j \in DOMAIN cf :
       \A c \in cf[i].claims \cap Present(k, s), d \in cf[j].claims \cap Present(k, s) :
          Topic(c) = Topic(d) => i = j

\* Claims that disagree are claims of one conflict and have the status it gives them.
Contested(k, s, cf) ==
    \A c, d \in Present(k, s) :
       (ClaimIsGrounded(c) /\ ClaimIsGrounded(d) /\ Disagree(c, d))
       => \E i \in DOMAIN cf : /\ c \in cf[i].claims /\ d \in cf[i].claims
                               /\ s[c] = ConflictStatus(cf[i], c)

\* A claim is rejected by a conflict.
RejectedIn(k, s, cf) ==
    \A c \in Present(k, s) :
       s[c] = "rejected"
       => \E i \in DOMAIN cf : c \in cf[i].claims /\ ConflictStatus(cf[i], c) = "rejected"

\* A claim that is not grounded never takes part in a conflict.
NotGrounded(k, s) ==
    \A c \in Present(k, s) : ~ ClaimIsGrounded(c) => s[c] = BaseStatus(c)

Settled(k, s, cf, de) ==
    /\ AsDecided(cf, de) /\ OnePreferred(cf) /\ OneLive(k, s, cf) /\ Contested(k, s, cf)
    /\ RejectedIn(k, s, cf) /\ NotGrounded(k, s)

\* A projection shows no claim that is disputed or rejected, and is what the claims say unless a
\* deletion waits for the next rebuild.
Stands(s, c) == s[c] \in {"active", "accepted"} /\ ClaimIsGrounded(c)

Shows(k, s, v, known) ==
    /\ UNION {v[x] : x \in DOMAIN v} = {c \in Present(k, s) : Stands(s, c)}
    /\ \A x \in DOMAIN v : \A c \in v[x] : ProjectionKey(c) = x
    /\ k = "attribute" => DOMAIN v = known

NoneDisputed(k, s, v) ==
    \A x \in DOMAIN v : \A c \in v[x] : s[c] \in {"active", "accepted", "absent"}

-----------------------------------------------------------------------------
(* What is in the archive whatever overlaps.                               *)

RowFields == {"status", "claims", "preferred", "note"}

\* What the id of a conflict says it is about.
About(i, topic) ==
    IF KindOf(i) = "relationship" THEN i[2] # {} /\ \A d \in i[2] : Topic(d) = topic
    ELSE topic = i

\* Claims that conflict i may have.
Fits(i, C) ==
    /\ i # <<>> /\ C \subseteq AllClaims
    /\ \A c \in C : c.type = KindOf(i) /\ ClaimIsGrounded(c) /\ About(i, Topic(c))
    /\ \E c, d \in C : Disagree(c, d)

ConflictOK(i, row, rc) ==
    /\ IsFunction(row) /\ DOMAIN row = RowFields
    /\ row.status \in {"open", "resolved", "dismissed"}
    /\ Fits(i, row.claims)
    /\ \A c \in row.claims : rc[c.rec] \in {"archived", "deleted"}
    /\ row.preferred \subseteq AllClaims

PeopleOK(rc, pp) ==
    /\ IsFunction(pp) /\ DOMAIN pp \subseteq AllPeople
    /\ \A r \in Recordings : rc[r] = "archived" => MappedPeople(r) \subseteq DOMAIN pp

ConflictsOK(rc, cf, de) ==
    /\ IsFunction(cf) /\ \A i \in DOMAIN cf : ConflictOK(i, cf[i], rc)
    /\ IsFunction(de) /\ DOMAIN de \subseteq DOMAIN cf

StatusOK(rc, st) ==
    /\ rc \in [Recordings -> {"pending", "archived", "failed", "deleted"}]
    /\ st \in [AllClaims -> ClaimStatus \cup {"absent"}]
    /\ \A c \in AllClaims : st[c] # "absent" <=> rc[c.rec] = "archived"

ViewOK(vw) ==
    /\ IsFunction(vw) /\ DOMAIN vw = Kinds
    /\ \A k \in Kinds : /\ IsFunction(vw[k])
                        /\ \A x \in DOMAIN vw[k] : vw[k][x] \subseteq OfKind(AllClaims, k)

ArchiveOK(rc, pp, st, cf, de, vw) ==
    StatusOK(rc, st) /\ PeopleOK(rc, pp) /\ ConflictsOK(rc, cf, de) /\ ViewOK(vw)

Sources(rc, pp) ==
    \A r \in Recordings : rc[r] = "archived"
       => \A p \in MappedPeople(r) : p \in DOMAIN pp /\ r \in pp[p]

\* The archive of a kind that no two transactions overlapped on.
KindOK(k, s, cf, de, v, known, be) ==
    /\ Settled(k, s, cf, de)
    /\ NoneDisputed(k, s, v)
    /\ k \notin be => Shows(k, s, v, known)

-----------------------------------------------------------------------------
(* A transaction: its request q, the statuses l its session holds, the     *)
(* writes td it has decided and those m it has made.                       *)

Stages == {"people", "read", "write", "clear", "clearing", "insert", "commit"}

OwnOf(q, k) == IF q.op = "finalise" THEN OfKind(ClaimsOf(q.rec), k) ELSE {}

WorksOn(q, k) == q.op # "none" /\ (q.op = "finalise" \/ k = q.kind)

Done(q, k)     == q.op = "finalise" /\ k = "relationship" /\ q.kind = "attribute"
Decided(q, k)  == Done(q, k) \/ (k = q.kind /\ q.at \in {"write", "clear", "clearing", "insert", "commit"})
Written(q, k)  == Done(q, k) \/ (k = q.kind /\ q.at \in {"clear", "clearing", "insert", "commit"})
Cleared(q, k)  == Done(q, k) \/ (k = q.kind /\ q.at \in {"insert", "commit"})
Inserted(q, k) == Done(q, k) \/ (k = q.kind /\ q.at = "commit")

FinaliseOK(q, rc) ==
    /\ q.rec \in Recordings /\ q.kind \in Kinds /\ q.at \in Stages
    /\ q.at = "people" => q.kind = "relationship" /\ rc[q.rec] \in {"pending", "deleted"}
    /\ q.at # "people" => rc[q.rec] = "pending"
    /\ q.at = "commit" => q.kind = "attribute"

ReviewOK(q, cf) ==
    /\ q.conf \in DOMAIN cf /\ q.kind = KindOf(q.conf)
    /\ q.at \in Stages \ {"people", "read"}

RequestOK(q, rc, cf) ==
    /\ IsFunction(q) /\ DOMAIN q = {"op", "at", "kind", "rec", "conf", "pref", "note"}
    /\ \/ q = Nobody
       \/ q.op = "finalise" /\ FinaliseOK(q, rc)
       \/ q.op \in {"resolve", "dismiss", "reopen"} /\ ReviewOK(q, cf)

WriteShape(w) ==
    /\ IsFunction(w)
    /\ DOMAIN w = {"claims", "conflicts", "decisions", "people", "cleared", "seen", "rows"}
    /\ IsFunction(w.cleared) /\ DOMAIN w.cleared = Kinds
    /\ IsFunction(w.rows) /\ DOMAIN w.rows = Kinds
    /\ \A k \in Kinds : \A x \in DOMAIN w.rows[k] : w.rows[k][x] \subseteq OfKind(AllClaims, k)

\* The row of a new conflict, or the columns of an old one that change.
RowWriteOK(i, w, q, rc, cf) ==
    /\ IsFunction(w) /\ DOMAIN w \subseteq RowFields
    /\ i \notin DOMAIN cf => DOMAIN w = RowFields
    /\ "status" \in DOMAIN w => w.status \in {"open", "resolved", "dismissed"}
    /\ "preferred" \in DOMAIN w => w.preferred \subseteq AllClaims
    /\ "claims" \in DOMAIN w
       => /\ Fits(i, w.claims)
          /\ \A c \in w.claims : \/ q.op = "finalise" /\ c.rec = q.rec
                             \/ rc[c.rec] \in {"archived", "deleted"}

ConflictWritesOK(w, q, rc, cf) ==
    /\ \A i \in DOMAIN w.conflicts : RowWriteOK(i, w.conflicts[i], q, rc, cf)
    /\ DOMAIN w.decisions \subseteq DOMAIN w.conflicts

LoadedOK(q, l) ==
    /\ IsFunction(l) /\ DOMAIN l \subseteq AllClaims
    /\ \A c \in DOMAIN l : l[c] \in ClaimStatus /\ Decided(q, c.type)
    /\ \A k \in Kinds : Decided(q, k) => OwnOf(q, k) \subseteq DOMAIN l

DecidedOK(q, td, rc, cf) ==
    /\ WriteShape(td)
    /\ q.at # "write" => td.claims = None /\ td.conflicts = None /\ td.decisions = None
    /\ \A c \in DOMAIN td.claims :
          c \in OfKind(AllClaims, q.kind) /\ td.claims[c] \in ClaimStatus
    /\ \A i \in DOMAIN td.conflicts : KindOf(i) = q.kind
    /\ ConflictWritesOK(td, q, rc, cf)
    /\ q.at = "people" => DOMAIN td.people = MappedPeople(q.rec)

MadeOK(q, m, rc, st, cf) ==
    /\ WriteShape(m)
    /\ \A c \in DOMAIN m.claims :
          /\ c \in AllClaims /\ m.claims[c] \in ClaimStatus
          /\ st[c] # "absent" \/ c \in OwnOf(q, c.type)
          /\ Written(q, c.type)
    /\ \A i \in DOMAIN m.conflicts : Written(q, KindOf(i))
    /\ ConflictWritesOK(m, q, rc, cf)
    /\ IF q.op = "finalise" /\ q.at # "people" THEN DOMAIN m.people = MappedPeople(q.rec)
       ELSE m.people = None
    /\ \A k \in Kinds : /\ ~ Cleared(q, k) => m.cleared[k] = {}
                        /\ ~ Inserted(q, k) => m.rows[k] = None

ThreadOK(q, l, td, m, rc, st, cf) ==
    /\ RequestOK(q, rc, cf)
    /\ q = Nobody => l = None /\ td = NoWrites /\ m = NoWrites
    /\ LoadedOK(q, l) /\ DecidedOK(q, td, rc, cf) /\ MadeOK(q, m, rc, st, cf)

-----------------------------------------------------------------------------
(* What a transaction on a kind leaves behind, when it commits.            *)

Seen(k, q, s) == Present(k, s) \cup OwnOf(q, k)

Session(l, s, c) == IF c \in DOMAIN l THEN l[c] ELSE s[c]

\* The writes of a kind: decided at first, made afterwards.
WritesOf(k, q, td, m) == IF q.at = "write" /\ k = q.kind THEN td ELSE m

NextStatus(k, q, l, w, s) ==
    [c \in OfKind(AllClaims, k) |->
       IF c \in DOMAIN w.claims THEN w.claims[c]
       ELSE IF c \in OwnOf(q, k) THEN Session(l, s, c) ELSE s[c]]

NextConflicts(k, w, cf) ==
    [i \in DOMAIN cf \cup {j \in DOMAIN w.conflicts : KindOf(j) = k} |->
       IF i \notin DOMAIN w.conflicts THEN cf[i]
       ELSE IF i \in DOMAIN cf THEN Over(w.conflicts[i], cf[i]) ELSE w.conflicts[i]]

NextDecisions(k, w, de) ==
    [i \in DOMAIN de \cup {j \in DOMAIN w.decisions : KindOf(j) = k} |->
       IF i \in DOMAIN w.decisions THEN w.decisions[i] ELSE de[i]]

\* The session has the statuses that will be stored.
SessionIsNext(k, q, l, s, ns) == \A c \in Seen(k, q, s) : Session(l, s, c) = ns[c]

\* A rejected claim comes back only with its conflict.
BackWithConflict(k, s, ns, cf, ncf) ==
    \A c \in OfKind(AllClaims, k) :
       (s[c] = "rejected" /\ ns[c] \in {"active", "accepted", "disputed"})
       => \E i \in DOMAIN cf : /\ c \in cf[i].claims
                               /\ ncf[i] # cf[i] \/ ~ (cf[i].claims \subseteq Present(k, s))

Outcome(k, q, l, w, s, cf, de) ==
    LET ns == NextStatus(k, q, l, w, s)
        ncf == NextConflicts(k, w, cf)
    IN  /\ Settled(k, ns, ncf, NextDecisions(k, w, de))
        /\ SessionIsNext(k, q, l, s, ns)
        /\ BackWithConflict(k, s, ns, cf, ncf)

\* The writes run into a row that is gone or a key that is taken (WriteFails).
KindWriteFails(k, q, td, s, cf) ==
    \/ \E c \in OfKind(DOMAIN td.claims, k) : s[c] = "absent" /\ c \notin OwnOf(q, k)
    \/ \E i \in DOMAIN td.conflicts : i \in DOMAIN cf /\ i \notin DOMAIN td.decisions

\* The projection a transaction inserts.
Projected(k, q, l, s, known) ==
    LET sources == {c \in Seen(k, q, s) : Session(l, s, c) \in {"active", "accepted"} /\ ClaimIsGrounded(c)}
    IN  [x \in (IF k = "relationship" THEN {ProjectionKey(c) : c \in sources} ELSE known) |->
           {c \in sources : ProjectionKey(c) = x}]

\* A transaction on a kind that no two transactions overlapped on.
Undisturbed(k, q, l, td, m, s, cf, de, v, pp) ==
    /\ Decided(q, k) => \/ q.at = "write" /\ k = q.kind /\ KindWriteFails(k, q, td, s, cf)
                        \/ Outcome(k, q, l, WritesOf(k, q, td, m), s, cf, de)
    /\ q.at = "clearing" /\ k = q.kind => td.seen = DOMAIN v
    /\ Cleared(q, k) => m.cleared[k] = DOMAIN v
    /\ Inserted(q, k) => m.rows[k] = Projected(k, q, l, s, DOMAIN pp \cup DOMAIN m.people)

\* The people a finalisation writes are the ones there are, with its recording.
Upserted(r, pp) == [p \in MappedPeople(r) |-> (IF p \in DOMAIN pp THEN pp[p] ELSE {}) \cup {r}]

PeopleUndisturbed(q, td, m, pp) ==
    q.op = "finalise" => IF q.at = "people" THEN td.people = Upserted(q.rec, pp)
                         ELSE m.people = Upserted(q.rec, pp)

ThreadFresh(q, l, td, m, pp, st, cf, de, vw, ra) ==
    /\ \A k \in Kinds \ ra : WorksOn(q, k) =>
          Undisturbed(k, q, l, td, m, StatusPart(st, k), Part(cf, k), Part(de, k), vw[k], pp)
    /\ Kinds \subseteq ra \/ PeopleUndisturbed(q, td, m, pp)

-----------------------------------------------------------------------------

Shape ==
    /\ req = [t \in Threads |-> req[t]] /\ loaded = [t \in Threads |-> loaded[t]]
    /\ todo = [t \in Threads |-> todo[t]] /\ made = [t \in Threads |-> made[t]]

OneFinalisation ==
    \A t, u \in Threads :
       (req[t].op = "finalise" /\ req[u].op = "finalise" /\ req[t].rec = req[u].rec) => t = u

ThreadInv(t) ==
    /\ ThreadOK(req[t], loaded[t], todo[t], made[t], recording, status, conflicts)
    /\ ThreadFresh(req[t], loaded[t], todo[t], made[t], people, status, conflicts, decisions, view, raced)

Undisputed(rc, pp, st, cf, de, vw, ra, be) ==
    /\ \A k \in Kinds \ ra :
          KindOK(k, StatusPart(st, k), Part(cf, k), Part(de, k), vw[k], DOMAIN pp, be)
    /\ Kinds \subseteq ra \/ Sources(rc, pp)

StoreInv ==
    /\ ArchiveOK(recording, people, status, conflicts, decisions, view)
    /\ Undisputed(recording, people, status, conflicts, decisions, view, raced, behind)

IInv == Shape /\ OneFinalisation /\ StoreInv /\ \A t \in Threads : ThreadInv(t)

-----------------------------------------------------------------------------
(* Claims and what they are about.                                         *)

LEMMA PersonIsMapped ==
    ASSUME NEW r, NEW m, MappedPerson(r, m) # NoPerson
    PROVE  MappedPerson(r, m) \in MappedPeople(r)
<1>1. CASE {x \in Extraction[r].mentions : x.id = m} = {}
  BY <1>1 DEF MappedPerson
<1>2. CASE {x \in Extraction[r].mentions : x.id = m} # {}
  <2>1. PICK x \in Extraction[r].mentions : x.id = m
    BY <1>2
  <2> QED BY <2>1 DEF MappedPeople
<1> QED BY <1>1, <1>2

LEMMA AttributeShape ==
    ASSUME NEW r, NEW source, NEW person, NEW predicate, NEW value, NEW evidence,
           NEW c \in AttributeClaim(r, source, person, predicate, value, evidence)
    PROVE  c.rec = r /\ c.type = "attribute" /\ c.subject = person
<1>1. PICK v : c = [rec |-> r, type |-> "attribute", source |-> source, predicate |-> predicate,
                    subject |-> person, object |-> NoPerson, roles |-> <<>>, value |-> v,
                    state |-> "current", evidence |-> evidence, reported |-> FALSE]
  BY Zenon DEF AttributeClaim
<1> QED BY <1>1

LEMMA RelationshipShape ==
    ASSUME NEW r \in Recordings, NEW c \in RelationshipClaims(r)
    PROVE  /\ c.rec = r /\ c.type = "relationship"
           /\ <<c.predicate, c.roles>> \in
                 {<<"parent_child", <<"parent", "child">>>>, <<"spouse", <<"spouse", "spouse">>>>,
                  <<"sibling", <<"older_sibling", "younger_sibling">>>>,
                  <<"sibling", <<"sibling", "sibling">>>>}
<1>1. PICK x \in Extraction[r].relationships :
         c = [rec |-> r, type |-> "relationship", source |-> x.id, predicate |-> x.type,
              subject |-> MappedPerson(r, x.subject), object |-> MappedPerson(r, x.object),
              roles |-> x.roles, value |-> "", state |-> x.state, evidence |-> x.evidence,
              reported |-> x.reported]
  BY Zenon DEF RelationshipClaims
<1>2. c.rec = r /\ c.type = "relationship" /\ c.predicate = x.type /\ c.roles = x.roles
  BY <1>1
<1> QED BY <1>2, RelationshipRoles

LEMMA ClaimShape ==
    ASSUME NEW r \in Recordings, NEW c \in ClaimsOf(r)
    PROVE  /\ c.rec = r /\ c.type \in Kinds
           /\ c.type = "relationship" => c \in RelationshipClaims(r)
           /\ c.type = "attribute" => (c.subject = NoPerson \/ c.subject \in MappedPeople(r))
<1>1. c \in RelationshipClaims(r) \cup ProjectAliases(r) \cup ProjectDescriptions(r) \cup ProjectEvents(r)
  BY DEF ClaimsOf, ClaimTable
<1>2. CASE c \in RelationshipClaims(r)
  BY <1>2, RelationshipShape DEF Kinds
<1> DEFINE Attribute == /\ c.rec = r /\ c.type = "attribute"
                        /\ c.subject = NoPerson \/ c.subject \in MappedPeople(r)
<1>3. CASE c \in ProjectAliases(r)
  <2>1. PICK x \in Extraction[r].mentions :
           c \in UNION {AttributeClaim(r, <<x.id, v.id>>, MappedPerson(r, x.id), "alias", v.surface,
                                       IF v.evidence # "none" THEN v.evidence ELSE x.evidence) :
                          v \in {w \in x.variants : w.type \in ProfileAliasVariants}}
    BY <1>3 DEF ProjectAliases
  <2>2. PICK v \in x.variants :
           c \in AttributeClaim(r, <<x.id, v.id>>, MappedPerson(r, x.id), "alias", v.surface,
                                IF v.evidence # "none" THEN v.evidence ELSE x.evidence)
    BY <2>1
  <2>3. c.rec = r /\ c.type = "attribute" /\ c.subject = MappedPerson(r, x.id)
    BY <2>2, AttributeShape
  <2> QED BY <2>3, PersonIsMapped DEF Kinds
<1>4. CASE c \in ProjectDescriptions(r)
  <2>1. PICK x \in Extraction[r].descriptions :
           c \in AttributeClaim(r, <<x.id>>, MappedPerson(r, x.mention), "description", x.text, x.evidence)
    BY <1>4 DEF ProjectDescriptions
  <2>2. c.rec = r /\ c.type = "attribute" /\ c.subject = MappedPerson(r, x.mention)
    BY <2>1, AttributeShape
  <2> QED BY <2>2, PersonIsMapped DEF Kinds
<1>5. CASE c \in ProjectEvents(r)
  <2>1. PICK e \in Extraction[r].events : c \in EventClaims(r, e)
    BY <1>5 DEF ProjectEvents
  <2>2. PICK m \in e.participants, f \in EventFacets(e) :
           c \in AttributeClaim(r, <<e.id, m, f[1]>>, MappedPerson(r, m), f[1], f[2], e.evidence)
    BY <2>1, SMT DEF EventClaims
  <2>3. c.rec = r /\ c.type = "attribute" /\ c.subject = MappedPerson(r, m)
    BY <2>2, AttributeShape
  <2> QED BY <2>3, PersonIsMapped DEF Kinds
<1> QED BY <1>1, <1>2, <1>3, <1>4, <1>5

LEMMA ClaimIn ==
    ASSUME NEW c \in AllClaims
    PROVE  c.rec \in Recordings /\ c \in ClaimsOf(c.rec) /\ c.type \in Kinds
<1>1. PICK r \in Recordings : c \in ClaimsOf(r)
  BY DEF AllClaims
<1> QED BY <1>1, ClaimShape

LEMMA ClaimsIn ==
    ASSUME NEW r \in Recordings
    PROVE  ClaimsOf(r) = {c \in AllClaims : c.rec = r}
<1>1. ClaimsOf(r) \subseteq {c \in AllClaims : c.rec = r}
  BY ClaimShape DEF AllClaims
<1>2. {c \in AllClaims : c.rec = r} \subseteq ClaimsOf(r)
  BY ClaimIn
<1> QED BY <1>1, <1>2

LEMMA KindsOfClaims ==
    /\ \A c \in AllClaims : c.type \in Kinds /\ c \in OfKind(AllClaims, c.type)
    /\ \A k : \A c \in OfKind(AllClaims, k) : c \in AllClaims /\ c.type = k
BY ClaimIn DEF OfKind

LEMMA BaseStatusIs ==
    ASSUME NEW c
    PROVE  BaseStatus(c) \in ClaimStatus /\ BaseStatus(c) # "rejected"
<1>1. RelationshipStateStatus(c) \in ClaimStatus /\ RelationshipStateStatus(c) # "rejected"
  BY DEF RelationshipStateStatus, ClaimStatus
<1> QED BY <1>1 DEF BaseStatus, ClaimStatus

LEMMA ConflictStatusIs ==
    ASSUME NEW row, NEW c
    PROVE  ConflictStatus(row, c) \in {"accepted", "rejected", "disputed"}
BY DEF ConflictStatus

LEMMA PredicateIs ==
    ASSUME NEW c \in AllClaims, c.type = "relationship"
    PROVE  <<c.predicate, c.roles>> \in
              {<<"parent_child", <<"parent", "child">>>>, <<"spouse", <<"spouse", "spouse">>>>,
               <<"sibling", <<"older_sibling", "younger_sibling">>>>,
               <<"sibling", <<"sibling", "sibling">>>>}
BY ClaimIn, ClaimShape, RelationshipShape

LEMMA TopicHead ==
    ASSUME NEW c \in AllClaims
    PROVE  KindOf(Topic(c)) = c.type
<1>1. c.type \in Kinds
  BY ClaimIn
<1>2. CASE c.type = "relationship"
  <2>1. c.predicate \notin {"birth_date", "death_date", "alias"}
    BY <1>2, PredicateIs
  <2>2. Topic(c) = <<"relationship", {c.subject, c.object}>>
    BY <1>2, <2>1 DEF Topic
  <2> QED BY <1>2, <2>2 DEF KindOf
<1>3. CASE c.type = "attribute"
  BY <1>3 DEF Topic, KindOf
<1> QED BY <1>1, <1>2, <1>3 DEF Kinds

LEMMA DisagreeIs ==
    ASSUME NEW c \in AllClaims, NEW d \in AllClaims, Disagree(c, d)
    PROVE  Topic(c) = Topic(d) /\ c.type = d.type
BY TopicHead DEF Disagree

\* A conflict about a relationship has roles that fit, so a book may take its claims.
LEMMA RolesAreCanonical ==
    ASSUME NEW c \in AllClaims, c.type = "relationship", ClaimIsGrounded(c)
    PROVE  c.state = "current" /\ CanonicalRelationship(c) # <<>>
<1>3. <<c.predicate, c.roles>> \in
         {<<"parent_child", <<"parent", "child">>>>, <<"spouse", <<"spouse", "spouse">>>>,
          <<"sibling", <<"older_sibling", "younger_sibling">>>>, <<"sibling", <<"sibling", "sibling">>>>}
  BY PredicateIs
<1>4. /\ RelationshipStateStatus(c) = "active" /\ c.subject # NoPerson
      /\ c.object # NoPerson /\ c.subject # c.object
  BY DEF ClaimIsGrounded
<1>5. c.state = "current"
  BY <1>4 DEF RelationshipStateStatus
<1>6. CASE c.predicate = "parent_child" /\ c.roles = <<"parent", "child">>
  <2>1. {c.roles[1], c.roles[2]} = {"parent", "child"}
    BY <1>6
  <2> QED BY <1>4, <1>5, <1>6, <2>1, Zenon DEF CanonicalRelationship
<1>7. CASE c.predicate = "spouse" /\ c.roles = <<"spouse", "spouse">>
  <2>1. {c.roles[1], c.roles[2]} = {"spouse"}
    BY <1>7
  <2> QED BY <1>4, <1>5, <1>7, <2>1, Zenon DEF CanonicalRelationship
<1>8. CASE c.predicate = "sibling" /\ c.roles = <<"older_sibling", "younger_sibling">>
  <2>1. {c.roles[1], c.roles[2]} = {"older_sibling", "younger_sibling"}
    BY <1>8
  <2> QED BY <1>4, <1>5, <1>8, <2>1, Zenon DEF CanonicalRelationship
<1>9. CASE c.predicate = "sibling" /\ c.roles = <<"sibling", "sibling">>
  <2>1. {c.roles[1], c.roles[2]} = {"sibling"}
    BY <1>9
  <2> QED BY <1>4, <1>5, <1>9, <2>1, Zenon DEF CanonicalRelationship
<1> QED BY <1>3, <1>5, <1>6, <1>7, <1>8, <1>9

LEMMA GroundedIsEligible ==
    ASSUME NEW c \in AllClaims, ClaimIsGrounded(c), NEW S, c.rec \in S,
           NEW s \in {"active", "accepted", "disputed"}
    PROVE  BookTruthEligible(c, s, S, TRUE)
BY RolesAreCanonical DEF BookTruthEligible, ClaimIsGrounded

LEMMA EligibleIsGrounded ==
    ASSUME NEW c \in AllClaims, NEW S, NEW s, NEW b \in BOOLEAN, BookTruthEligible(c, s, S, b),
           ~ ClaimIsGrounded(c) => s = BaseStatus(c)
    PROVE  ClaimIsGrounded(c)
<1>1. c.evidence \in MaterializableClasses /\ s # "unresolved" /\ c.type \in Kinds
  BY ClaimIn DEF BookTruthEligible
<1>2. CASE c.type = "attribute"
  BY <1>1, <1>2 DEF ClaimIsGrounded, BaseStatus
<1>3. CASE c.type = "relationship"
  <2>1. c.state = "current" /\ CanonicalRelationship(c) # <<>>
    BY <1>3 DEF BookTruthEligible
  <2>2. NoPerson \notin {c.subject, c.object} /\ c.subject # c.object
    BY <2>1 DEF CanonicalRelationship
  <2>3. RelationshipStateStatus(c) = "active"
    BY <2>1, <2>2 DEF RelationshipStateStatus
  <2> QED BY <1>1, <2>2, <2>3 DEF ClaimIsGrounded
<1> QED BY <1>1, <1>2, <1>3 DEF Kinds

-----------------------------------------------------------------------------
(* Groups of competing claims.                                             *)

LEMMA GroupIs ==
    ASSUME NEW C, C \subseteq AllClaims, NEW g \in ConflictGroups(C)
    PROVE  /\ g \subseteq C
           /\ \A c \in g : ClaimIsGrounded(c)
           /\ \A c, d \in g : Topic(c) = Topic(d) /\ c.type = d.type
           /\ \E c, d \in g : Disagree(c, d)
           /\ \A c \in g, e \in C : (ClaimIsGrounded(e) /\ Topic(e) = Topic(c)) => e \in g
<1> DEFINE grounded == {c \in C : ClaimIsGrounded(c)}
           about(t) == {c \in grounded : Topic(c) = t}
<1>1. PICK d \in grounded : (\E e \in grounded : Disagree(d, e)) /\ g = about(Topic(d))
  BY DEF ConflictGroups
<1>2. PICK e \in grounded : Disagree(d, e)
  BY <1>1
<1>3. Topic(e) = Topic(d)
  BY <1>2 DEF Disagree
<1>4. \A c \in g : c \in C /\ ClaimIsGrounded(c) /\ Topic(c) = Topic(d)
  BY <1>1
<1>5. \A c \in C : ClaimIsGrounded(c) /\ Topic(c) = Topic(d) => c \in g
  BY <1>1
<1>6. \A c, h \in g : c.type = h.type
  BY <1>4, TopicHead
<1> QED BY <1>2, <1>3, <1>4, <1>5, <1>6

LEMMA GroupOf ==
    ASSUME NEW C, NEW c \in C, NEW d \in C, ClaimIsGrounded(c), ClaimIsGrounded(d), Disagree(c, d)
    PROVE  \E g \in ConflictGroups(C) : c \in g /\ d \in g
<1> DEFINE grounded == {b \in C : ClaimIsGrounded(b)}
           about(t) == {b \in grounded : Topic(b) = t}
<1>1. c \in {b \in grounded : \E e \in grounded : Disagree(b, e)}
  OBVIOUS
<1>2. about(Topic(c)) \in ConflictGroups(C)
  BY <1>1 DEF ConflictGroups
<1>3. c \in about(Topic(c)) /\ d \in about(Topic(c))
  BY DEF Disagree
<1> QED BY <1>2, <1>3

LEMMA GroupsApart ==
    ASSUME NEW C, C \subseteq AllClaims, NEW g \in ConflictGroups(C), NEW h \in ConflictGroups(C),
           NEW c \in g, NEW d \in h, Topic(c) = Topic(d)
    PROVE  g = h
<1>1. \A e \in g : e \in h
  BY GroupIs
<1>2. \A e \in h : e \in g
  BY GroupIs
<1> QED BY <1>1, <1>2

\* A claim takes the status of its group's conflict.
LEMMA StatusInGroup ==
    ASSUME NEW C, C \subseteq AllClaims, NEW rows, DOMAIN rows = ConflictGroups(C),
           NEW g \in ConflictGroups(C), NEW c \in g
    PROVE  ReconciledStatus(rows, c) = ConflictStatus(rows[g], c)
<1>1. \A h \in DOMAIN rows : c \in h => h = g
  BY GroupsApart
<1>2. {h \in DOMAIN rows : c \in h} = {g}
  BY <1>1
<1> QED BY <1>2 DEF ReconciledStatus

LEMMA StatusOutside ==
    ASSUME NEW rows, NEW c, \A g \in DOMAIN rows : c \notin g
    PROVE  ReconciledStatus(rows, c) = BaseStatus(c)
BY DEF ReconciledStatus

LEMMA ReconciledStatusIs ==
    ASSUME NEW rows, NEW c
    PROVE  ReconciledStatus(rows, c) \in ClaimStatus
BY BaseStatusIs, ConflictStatusIs DEF ReconciledStatus, ClaimStatus

-----------------------------------------------------------------------------
(* Steps of one thread.                                                    *)

LEMMA ShapeStep ==
    ASSUME NEW t \in Threads, Shape,
           \E q : req' = [req EXCEPT ![t] = q],
           \E l : loaded' = [loaded EXCEPT ![t] = l],
           \E w : todo' = [todo EXCEPT ![t] = w],
           \E m : made' = [made EXCEPT ![t] = m]
    PROVE  /\ Shape'
           /\ \A u \in Threads \ {t} : /\ req'[u] = req[u] /\ loaded'[u] = loaded[u]
                                       /\ todo'[u] = todo[u] /\ made'[u] = made[u]
BY DEF Shape

\* What a thread that works alone on its session and its writes leaves to the others.
LEMMA ThreadStep ==
    ASSUME NEW t \in Threads, IInv, UNCHANGED dbVars, Shape',
           \A u \in Threads \ {t} : /\ req'[u] = req[u] /\ loaded'[u] = loaded[u]
                                    /\ todo'[u] = todo[u] /\ made'[u] = made[u],
           \A u \in Threads \ {t} :
              ~ (req'[t].op = "finalise" /\ req[u].op = "finalise" /\ req'[t].rec = req[u].rec),
           ThreadInv(t)'
    PROVE  IInv'
<1>1. StoreInv'
  BY DEF IInv, StoreInv, dbVars
<1>2. \A u \in Threads : ThreadInv(u)'
  <2> TAKE u \in Threads
  <2>1. CASE u # t
    BY <2>1 DEF IInv, ThreadInv, dbVars
  <2> QED BY <2>1
<1>3. OneFinalisation'
  BY DEF IInv, OneFinalisation
<1> QED BY <1>1, <1>2, <1>3 DEF IInv

LEMMA NoneIs == DOMAIN None = {} /\ IsFunction(None)
BY DEF None, IsFunction

LEMMA NoWritesIs ==
    /\ WriteShape(NoWrites)
    /\ NoWrites.claims = None /\ NoWrites.conflicts = None /\ NoWrites.decisions = None
    /\ NoWrites.people = None /\ NoWrites.seen = {}
    /\ \A k \in Kinds : NoWrites.cleared[k] = {} /\ NoWrites.rows[k] = None
BY NoneIs DEF WriteShape, NoWrites, IsFunction

LEMMA NobodyIs ==
    ASSUME NEW rc, NEW pp, NEW st, NEW cf, NEW de, NEW vw, NEW ra
    PROVE  /\ ThreadOK(Nobody, None, NoWrites, NoWrites, rc, st, cf)
           /\ ThreadFresh(Nobody, None, NoWrites, NoWrites, pp, st, cf, de, vw, ra)
<1>1. Nobody.op = "none" /\ Nobody.at = "idle" /\ Nobody.kind = "none"
  BY DEF Nobody
<1>2. \A k \in Kinds : OwnOf(Nobody, k) = {} /\ ~ WorksOn(Nobody, k) /\ ~ Decided(Nobody, k)
  BY <1>1 DEF OwnOf, WorksOn, Decided, Done, Kinds
<1>3. RequestOK(Nobody, rc, cf)
  BY DEF RequestOK, Nobody, IsFunction
<1>4. LoadedOK(Nobody, None)
  BY <1>2, NoneIs DEF LoadedOK
<1>5. ConflictWritesOK(NoWrites, Nobody, rc, cf)
  BY NoWritesIs, NoneIs DEF ConflictWritesOK
<1>6. DecidedOK(Nobody, NoWrites, rc, cf)
  BY <1>1, <1>5, NoWritesIs, NoneIs DEF DecidedOK
<1>7. MadeOK(Nobody, NoWrites, rc, st, cf)
  BY <1>1, <1>5, NoWritesIs, NoneIs DEF MadeOK
<1>8. ThreadFresh(Nobody, None, NoWrites, NoWrites, pp, st, cf, de, vw, ra)
  BY <1>1, <1>2 DEF ThreadFresh, PeopleUndisturbed
<1> QED BY <1>3, <1>4, <1>6, <1>7, <1>8 DEF ThreadOK

LEMMA RequestAt ==
    ASSUME NEW q, NEW rc, NEW cf, RequestOK(q, rc, cf), NEW s, NEW p, p = [q EXCEPT !.at = s]
    PROVE  /\ p.op = q.op /\ p.at = s /\ p.kind = q.kind /\ p.rec = q.rec /\ p.conf = q.conf
           /\ IsFunction(p) /\ DOMAIN p = DOMAIN q
BY DEF RequestOK, IsFunction

-----------------------------------------------------------------------------
(* What reconciliation and a decision leave behind.                        *)

LEMMA OpenRowIs ==
    ASSUME NEW g
    PROVE  /\ OpenRow(g).status = "open" /\ OpenRow(g).claims = g /\ OpenRow(g).preferred = {}
           /\ IsFunction(OpenRow(g)) /\ DOMAIN OpenRow(g) = RowFields
BY DEF OpenRow, IsFunction, RowFields

LEMMA ReconciledIs ==
    ASSUME NEW row, NEW g
    PROVE  /\ Reconciled(row, g).claims = g
           /\ Reconciled(row, g) = row \/ Reconciled(row, g) = OpenRow(g)
BY OpenRowIs DEF Reconciled

LEMMA OpenStatus ==
    ASSUME NEW row, row.status = "open", NEW c
    PROVE  ConflictStatus(row, c) = "disputed"
BY DEF ConflictStatus

\* Reconciliation in general: the claims Q of a kind compete in the groups G; id and row give
\* each group its conflict and the row it has afterwards, new are the groups without one.  A
\* conflict about a group that has stored claims is the one the group gets.
GroupsMatched(G, Q, cf, id, new) ==
    /\ new \subseteq G
    /\ \A g \in G : g \in new <=> id[g] \notin DOMAIN cf
    /\ \A g, h \in G : id[g] = id[h] => g = h
    /\ \A g \in G : \A i \in DOMAIN cf : \A d \in cf[i].claims \cap Q, c \in g :
          Topic(c) = Topic(d) => id[g] = i

RowsReconciled(G, cf, id, row, new) ==
    /\ DOMAIN row = G
    /\ \A g \in G : row[g] = IF g \in new THEN OpenRow(g) ELSE Reconciled(cf[id[g]], g)

StatusReconciled(k, Q, row, ns) ==
    /\ \A c \in Q : ns[c] = ReconciledStatus(row, c)
    /\ \A c \in OfKind(AllClaims, k) \ Q : ns[c] = "absent"

ConflictsReconciled(G, cf, id, row, ncf) ==
    /\ DOMAIN ncf = DOMAIN cf \cup {id[g] : g \in G}
    /\ \A g \in G : ncf[id[g]] = row[g]
    /\ \A i \in DOMAIN cf : (\A g \in G : id[g] # i) => ncf[i] = cf[i]

DecisionsReconciled(G, cf, de, id, row, new, nde) ==
    LET reopened == {g \in G \ new : row[g] # cf[id[g]]}
    IN  /\ DOMAIN nde = DOMAIN de \cup {id[g] : g \in reopened}
        /\ \A g \in reopened : /\ nde[id[g]].status = row[g].status
                               /\ nde[id[g]].preferred = row[g].preferred
        /\ \A i \in DOMAIN de : (\A g \in reopened : id[g] # i) => nde[i] = de[i]

LEMMA ReconcileSettles ==
    ASSUME NEW k, NEW s, NEW own, NEW Q, NEW cf, NEW de, NEW id, NEW row, NEW new, NEW ns, NEW ncf, NEW nde,
           NEW G, G = ConflictGroups(Q),
           Q = Present(k, s) \cup own /\ own \subseteq OfKind(AllClaims, k),
           DOMAIN de \subseteq DOMAIN cf,
           Settled(k, s, cf, de),
           \A i \in DOMAIN cf : Fits(i, cf[i].claims) /\ cf[i].claims \cap own = {},
           GroupsMatched(G, Q, cf, id, new), RowsReconciled(G, cf, id, row, new),
           StatusReconciled(k, Q, row, ns), ConflictsReconciled(G, cf, id, row, ncf),
           DecisionsReconciled(G, cf, de, id, row, new, nde)
    PROVE  Settled(k, ns, ncf, nde) /\ BackWithConflict(k, s, ns, cf, ncf)
<1>1. Q \subseteq AllClaims /\ Q \subseteq OfKind(AllClaims, k)
  BY KindsOfClaims DEF Present
<1>2. \A c \in Q : ns[c] # "absent"
  BY ReconciledStatusIs DEF ClaimStatus, StatusReconciled
<1>3. Present(k, ns) = Q
  BY <1>1, <1>2 DEF Present, StatusReconciled
<1>4. \A g \in G : row[g].claims = g /\ (row[g] = OpenRow(g) \/ (g \notin new /\ row[g] = cf[id[g]]))
  <2> TAKE g \in G
  <2>1. row[g] = IF g \in new THEN OpenRow(g) ELSE Reconciled(cf[id[g]], g)
    BY DEF RowsReconciled
  <2> QED BY <2>1, OpenRowIs, ReconciledIs
<1>5. \A g \in G : \A c \in g : c \in Q /\ ns[c] = ConflictStatus(row[g], c)
  <2> TAKE g \in G
  <2> TAKE c \in g
  <2>1. c \in Q
    BY <1>1, GroupIs
  <2>2. ReconciledStatus(row, c) = ConflictStatus(row[g], c)
    BY <1>1, StatusInGroup DEF RowsReconciled
  <2> QED BY <2>1, <2>2 DEF StatusReconciled
<1>6. \A c \in Q : (\A g \in G : c \notin g) => ns[c] = BaseStatus(c)
  <2> TAKE c \in Q
  <2> HAVE \A g \in G : c \notin g
  <2>1. ReconciledStatus(row, c) = BaseStatus(c)
    BY StatusOutside DEF RowsReconciled
  <2> QED BY <2>1 DEF StatusReconciled
<1>7. \A g \in G : /\ id[g] \in DOMAIN ncf /\ ncf[id[g]] = row[g] /\ ncf[id[g]].claims = g
                   /\ g \in new <=> id[g] \notin DOMAIN cf
                   /\ ncf[id[g]] = OpenRow(g) \/ (id[g] \in DOMAIN cf /\ ncf[id[g]] = cf[id[g]])
                   /\ g \in new => ncf[id[g]].status = "open"
                   /\ \A c \in g : c \in Q /\ ns[c] = ConflictStatus(ncf[id[g]], c)
  <2> TAKE g \in G
  <2>1. id[g] \in DOMAIN ncf /\ ncf[id[g]] = row[g]
    BY DEF ConflictsReconciled
  <2>2. g \in new <=> id[g] \notin DOMAIN cf
    BY DEF GroupsMatched
  <2>3. row[g].claims = g /\ (row[g] = OpenRow(g) \/ (g \notin new /\ row[g] = cf[id[g]]))
    BY <1>4
  <2>4. \A c \in g : c \in Q /\ ns[c] = ConflictStatus(row[g], c)
    BY <1>5
  <2> QED BY <2>1, <2>2, <2>3, <2>4, OpenRowIs
<1>7r. ASSUME NEW g \in G PROVE id[g] \in DOMAIN ncf /\ ncf[id[g]] = row[g] /\ ncf[id[g]].claims = g
  BY <1>4 DEF ConflictsReconciled
<1>7s. ASSUME NEW g \in G, NEW c \in g PROVE ns[c] = ConflictStatus(ncf[id[g]], c)
  <2>1. ns[c] = ConflictStatus(row[g], c)
    BY <1>5
  <2>2. ncf[id[g]] = row[g]
    BY <1>7r
  <2> QED BY <2>1, <2>2
<1>8. \A i \in DOMAIN ncf : (\A g \in G : id[g] # i) => i \in DOMAIN cf /\ ncf[i] = cf[i]
  BY DEF ConflictsReconciled
<1>9. \A i \in DOMAIN cf : cf[i].claims \cap Q \subseteq Present(k, s)
  OBVIOUS
<1>9a. \A g \in G : \A i \in DOMAIN cf : \A d \in cf[i].claims \cap Q, c \in g :
         Topic(c) = Topic(d) => id[g] = i
  BY DEF GroupsMatched
<1>9b. \A g, h \in G : id[g] = id[h] => g = h
  BY DEF GroupsMatched
<1>10. AsDecided(ncf, nde)
  <2> SUFFICES ASSUME NEW i \in DOMAIN ncf
               PROVE  IF i \in DOMAIN nde THEN ncf[i].status = nde[i].status /\ ncf[i].preferred = nde[i].preferred
                      ELSE ncf[i].status = "open"
    BY DEF AsDecided
  <2> DEFINE reopened == {g \in G \ new : row[g] # cf[id[g]]}
  <2>0. /\ DOMAIN nde = DOMAIN de \cup {id[g] : g \in reopened}
        /\ \A g \in reopened : nde[id[g]].status = row[g].status /\ nde[id[g]].preferred = row[g].preferred
        /\ \A j \in DOMAIN de : (\A g \in reopened : id[g] # j) => nde[j] = de[j]
    BY DEF DecisionsReconciled
  <2>1. CASE \A g \in reopened : id[g] # i
    <3>1. i \in DOMAIN nde <=> i \in DOMAIN de
      BY <2>0, <2>1
    <3>2. i \in DOMAIN de => nde[i] = de[i]
      BY <2>0, <2>1
    <3>3. CASE i \in DOMAIN cf /\ ncf[i] = cf[i]
      BY <3>1, <3>2, <3>3 DEF Settled, AsDecided
    <3>4. ASSUME NEW g \in G, i = id[g], g \in new PROVE i \notin DOMAIN de /\ ncf[i].status = "open"
      BY <3>4, <1>7
    <3>5. ASSUME NEW g \in G, i = id[g], g \notin new PROVE i \in DOMAIN cf /\ ncf[i] = cf[i]
      BY <3>5, <2>1, <1>7
    <3> QED BY <3>1, <3>3, <3>4, <3>5, <1>8
  <2>2. ASSUME NEW g \in reopened, id[g] = i
        PROVE  /\ i \in DOMAIN nde /\ ncf[i] = row[g]
               /\ nde[i].status = row[g].status /\ nde[i].preferred = row[g].preferred
    BY <2>0, <2>2, <1>7
  <2> QED BY <2>1, <2>2
<1>11. OnePreferred(ncf)
  <2> SUFFICES ASSUME NEW i \in DOMAIN ncf
               PROVE  /\ ncf[i].preferred \subseteq ncf[i].claims
                      /\ \A c, d \in ncf[i].preferred : c = d
    BY DEF OnePreferred
  <2>1. CASE i \in DOMAIN cf /\ ncf[i] = cf[i]
    BY <2>1 DEF Settled, OnePreferred
  <2>2. ASSUME NEW g \in G, i = id[g] PROVE ncf[i] = OpenRow(g) \/ (i \in DOMAIN cf /\ ncf[i] = cf[i])
    BY <2>2, <1>7
  <2>3. CASE \E g : ncf[i] = OpenRow(g)
    <3>1. PICK g : ncf[i] = OpenRow(g)
      BY <2>3
    <3> QED BY <3>1, OpenRowIs
  <2> QED BY <2>1, <2>2, <2>3, <1>8
<1>12. OneLive(k, ns, ncf)
  <2> SUFFICES ASSUME NEW i \in DOMAIN ncf, NEW j \in DOMAIN ncf,
                      NEW c \in ncf[i].claims \cap Q, NEW d \in ncf[j].claims \cap Q,
                      Topic(c) = Topic(d)
               PROVE  i = j
    BY <1>3 DEF OneLive
  <2>1. CASE (\A g \in G : id[g] # i) /\ (\A g \in G : id[g] # j)
    BY <2>1, <1>8, <1>9 DEF Settled, OneLive
  <2>2. ASSUME NEW g \in G, i = id[g] PROVE i = j
    <3>1. c \in g
      BY <2>2, <1>7
    <3>2. ASSUME NEW h \in G, j = id[h] PROVE i = j
      <4>1. d \in h
        BY <3>2, <1>7
      <4>2. g = h
        BY <3>1, <4>1, <1>1, GroupsApart
      <4> QED BY <2>2, <3>2, <4>2
    <3>3. CASE j \in DOMAIN cf /\ ncf[j] = cf[j]
      BY <2>2, <3>1, <3>3, <1>9a
    <3> QED BY <3>2, <3>3, <1>8
  <2>3. ASSUME NEW g \in G, j = id[g] PROVE i = j
    <3>1. d \in g
      BY <2>3, <1>7
    <3>2. CASE i \in DOMAIN cf /\ ncf[i] = cf[i]
      BY <2>3, <3>1, <3>2, <1>9a
    <3> QED BY <2>2, <3>2, <1>8
  <2> QED BY <2>1, <2>2, <2>3
<1>13. Contested(k, ns, ncf)
  <2> SUFFICES ASSUME NEW c \in Q, NEW d \in Q, ClaimIsGrounded(c), ClaimIsGrounded(d), Disagree(c, d)
               PROVE  \E i \in DOMAIN ncf : /\ c \in ncf[i].claims /\ d \in ncf[i].claims
                                            /\ ns[c] = ConflictStatus(ncf[i], c)
    BY <1>3 DEF Contested
  <2>1. PICK g \in G : c \in g /\ d \in g
    BY GroupOf
  <2>2. /\ id[g] \in DOMAIN ncf /\ ncf[id[g]].claims = g
        /\ ns[c] = ConflictStatus(ncf[id[g]], c)
    BY <2>1, <1>7r, <1>7s
  <2>3. c \in ncf[id[g]].claims /\ d \in ncf[id[g]].claims
    BY <2>1, <2>2
  <2> DEFINE i == id[g]
  <2> HIDE DEF i
  <2>4. i \in DOMAIN ncf /\ c \in ncf[i].claims /\ d \in ncf[i].claims /\ ns[c] = ConflictStatus(ncf[i], c)
    BY <2>2, <2>3 DEF i
  <2> QED BY <2>4
<1>14. RejectedIn(k, ns, ncf)
  <2>1. ASSUME NEW c \in Q, ns[c] = "rejected", NEW g \in G, c \in g
        PROVE  \E i \in DOMAIN ncf : c \in ncf[i].claims /\ ConflictStatus(ncf[i], c) = "rejected"
    <3>1. /\ id[g] \in DOMAIN ncf /\ ncf[id[g]].claims = g
          /\ \A b \in g : b \in Q /\ ns[b] = ConflictStatus(ncf[id[g]], b)
      BY <1>7
    <3>2. ns[c] = ConflictStatus(ncf[id[g]], c)
      BY <2>1, <3>1
    <3> QED BY <2>1, <3>1, <3>2
  <2> SUFFICES ASSUME NEW c \in Q, ns[c] = "rejected"
               PROVE  \E i \in DOMAIN ncf : c \in ncf[i].claims /\ ConflictStatus(ncf[i], c) = "rejected"
    BY <1>3 DEF RejectedIn
  <2>2. PICK g \in G : c \in g
    BY <1>6, BaseStatusIs
  <2> QED BY <2>1, <2>2
<1>15. NotGrounded(k, ns)
  <2> SUFFICES ASSUME NEW c \in Q, ~ ClaimIsGrounded(c)
               PROVE  ns[c] = BaseStatus(c)
    BY <1>3 DEF NotGrounded
  <2>1. \A g \in G : c \notin g
    BY <1>1, GroupIs
  <2> QED BY <2>1, <1>6
<1>16. BackWithConflict(k, s, ns, cf, ncf)
  <2> SUFFICES ASSUME NEW c \in OfKind(AllClaims, k), s[c] = "rejected",
                      ns[c] \in {"active", "accepted", "disputed"}
               PROVE  \E i \in DOMAIN cf : /\ c \in cf[i].claims
                                           /\ ncf[i] # cf[i] \/ ~ (cf[i].claims \subseteq Present(k, s))
    BY DEF BackWithConflict
  <2>1. c \in Present(k, s) /\ c \in Q
    BY DEF Present
  <2>2. PICK i \in DOMAIN cf : c \in cf[i].claims /\ ConflictStatus(cf[i], c) = "rejected"
    BY <2>1 DEF Settled, RejectedIn
  <2>3. CASE \E g \in G : c \in g
    <3>1. PICK g \in G : c \in g
      BY <2>3
    <3>2. id[g] = i
      BY <2>1, <2>2, <3>1, <1>9a
    <3>3. ns[c] = ConflictStatus(ncf[i], c)
      BY <3>1, <3>2, <1>7
    <3> QED BY <2>2, <3>3
  <2>4. CASE \A g \in G : c \notin g
    <3> SUFFICES ASSUME cf[i].claims \subseteq Present(k, s)
                 PROVE  FALSE
      BY <2>2
    <3>1. PICK a \in cf[i].claims, b \in cf[i].claims : Disagree(a, b)
      BY DEF Fits
    <3>2. /\ a \in Q /\ b \in Q /\ ClaimIsGrounded(a) /\ ClaimIsGrounded(b) /\ ClaimIsGrounded(c)
          /\ About(i, Topic(a)) /\ About(i, Topic(c))
      BY <2>2, <3>1 DEF Fits
    <3>3. PICK g \in G : a \in g /\ b \in g
      BY <3>1, <3>2, GroupOf
    <3>4. Topic(a) = Topic(c)
      BY <3>2 DEF About
    <3>5. c \in g
      BY <2>1, <3>2, <3>3, <3>4, <1>1, GroupIs
    <3> QED BY <2>4, <3>5
  <2> QED BY <2>3, <2>4
<1> QED BY <1>10, <1>11, <1>12, <1>13, <1>14, <1>15, <1>16 DEF Settled

\* A decision on conflict i replaces its row and gives its stored claims the status it says.
DecisionTaken(k, s, cf, de, i, row, ns, ncf, nde) ==
    /\ \A c \in OfKind(AllClaims, k) :
          ns[c] = IF c \in cf[i].claims \cap Present(k, s) THEN ConflictStatus(row, c) ELSE s[c]
    /\ DOMAIN ncf = DOMAIN cf /\ ncf[i] = row
    /\ \A j \in DOMAIN cf \ {i} : ncf[j] = cf[j]
    /\ DOMAIN nde = DOMAIN de \cup {i}
    /\ nde[i].status = row.status /\ nde[i].preferred = row.preferred
    /\ \A j \in DOMAIN de \ {i} : nde[j] = de[j]

LEMMA DecisionSettles ==
    ASSUME NEW k, NEW s, NEW cf, NEW de, NEW i \in DOMAIN cf, NEW row, NEW ns, NEW ncf, NEW nde,
           Settled(k, s, cf, de), Fits(i, cf[i].claims),
           row # cf[i], row.claims = cf[i].claims, row.preferred \subseteq row.claims,
           \A c, d \in row.preferred : c = d,
           DecisionTaken(k, s, cf, de, i, row, ns, ncf, nde)
    PROVE  Settled(k, ns, ncf, nde) /\ BackWithConflict(k, s, ns, cf, ncf)
<1>1. \A c \in OfKind(AllClaims, k) :
         ns[c] = IF c \in cf[i].claims \cap Present(k, s) THEN ConflictStatus(row, c) ELSE s[c]
  BY DEF DecisionTaken
<1>2. /\ DOMAIN ncf = DOMAIN cf /\ ncf[i] = row /\ \A j \in DOMAIN cf \ {i} : ncf[j] = cf[j]
      /\ \A j \in DOMAIN cf : ncf[j].claims = cf[j].claims
  BY DEF DecisionTaken
<1>3. Present(k, ns) = Present(k, s)
  <2>1. \A c \in OfKind(AllClaims, k) : ns[c] = "absent" <=> s[c] = "absent"
    BY <1>1, ConflictStatusIs DEF Present
  <2> QED BY <2>1 DEF Present
<1>4. \A c \in Present(k, s) : c \in OfKind(AllClaims, k)
  BY DEF Present
<1>5. AsDecided(ncf, nde)
  BY DEF Settled, AsDecided, DecisionTaken
<1>6. OnePreferred(ncf)
  BY <1>2 DEF Settled, OnePreferred
<1>7. OneLive(k, ns, ncf)
  BY <1>2, <1>3 DEF Settled, OneLive
<1>8. Contested(k, ns, ncf)
  <2> SUFFICES ASSUME NEW c \in Present(k, s), NEW d \in Present(k, s),
                      ClaimIsGrounded(c), ClaimIsGrounded(d), Disagree(c, d)
               PROVE  \E j \in DOMAIN ncf : /\ c \in ncf[j].claims /\ d \in ncf[j].claims
                                            /\ ns[c] = ConflictStatus(ncf[j], c)
    BY <1>3 DEF Contested
  <2>1. PICK j \in DOMAIN cf : c \in cf[j].claims /\ d \in cf[j].claims /\ s[c] = ConflictStatus(cf[j], c)
    BY DEF Settled, Contested
  <2>2. CASE j = i
    <3>1. ns[c] = ConflictStatus(row, c)
      BY <1>1, <1>4, <2>1, <2>2
    <3> QED BY <2>1, <2>2, <3>1, <1>2
  <2>3. CASE j # i
    <3>1. c \notin cf[i].claims
      BY <2>1, <2>3 DEF Settled, OneLive
    <3>2. ns[c] = s[c]
      BY <1>1, <1>4, <3>1
    <3> QED BY <2>1, <2>3, <3>2, <1>2
  <2> QED BY <2>2, <2>3
<1>9. RejectedIn(k, ns, ncf)
  <2> SUFFICES ASSUME NEW c \in Present(k, s), ns[c] = "rejected"
               PROVE  \E j \in DOMAIN ncf : c \in ncf[j].claims /\ ConflictStatus(ncf[j], c) = "rejected"
    BY <1>3 DEF RejectedIn
  <2>1. CASE c \in cf[i].claims
    BY <1>1, <1>2, <1>4, <2>1
  <2>2. CASE c \notin cf[i].claims
    <3>1. s[c] = "rejected"
      BY <1>1, <1>4, <2>2
    <3>2. PICK j \in DOMAIN cf : c \in cf[j].claims /\ ConflictStatus(cf[j], c) = "rejected"
      BY <3>1 DEF Settled, RejectedIn
    <3> QED BY <2>2, <3>2, <1>2
  <2> QED BY <2>1, <2>2
<1>10. NotGrounded(k, ns)
  <2> SUFFICES ASSUME NEW c \in Present(k, s), ~ ClaimIsGrounded(c)
               PROVE  ns[c] = BaseStatus(c)
    BY <1>3 DEF NotGrounded
  <2>1. c \notin cf[i].claims
    BY DEF Fits
  <2>2. ns[c] = s[c]
    BY <1>1, <1>4, <2>1
  <2> QED BY <2>2 DEF Settled, NotGrounded
<1>11. BackWithConflict(k, s, ns, cf, ncf)
  BY <1>1, <1>2 DEF BackWithConflict
<1> QED BY <1>5, <1>6, <1>7, <1>8, <1>9, <1>10, <1>11 DEF Settled

\* What is left behind depends only on what the session and the writes say of the kind.
SameOfKind(k, l, lp) ==
    \A c \in OfKind(AllClaims, k) : /\ c \in DOMAIN l <=> c \in DOMAIN lp
                                    /\ c \in DOMAIN l => l[c] = lp[c]

SamePart(k, w, wp) ==
    \A i : KindOf(i) = k => /\ i \in DOMAIN w <=> i \in DOMAIN wp
                            /\ i \in DOMAIN w => w[i] = wp[i]

LEMMA ProjectedSame ==
    ASSUME NEW k, NEW q, NEW qp, NEW l, NEW lp, NEW s, NEW known,
           OwnOf(qp, k) = OwnOf(q, k), OwnOf(q, k) \subseteq OfKind(AllClaims, k), SameOfKind(k, l, lp)
    PROVE  Projected(k, qp, lp, s, known) = Projected(k, q, l, s, known)
<1>1. \A c \in OfKind(AllClaims, k) : Session(lp, s, c) = Session(l, s, c)
  BY DEF SameOfKind, Session
<1>2. Seen(k, qp, s) = Seen(k, q, s) /\ Seen(k, q, s) \subseteq OfKind(AllClaims, k)
  BY DEF Seen, Present
<1>3. {c \in Seen(k, qp, s) : Session(lp, s, c) \in {"active", "accepted"} /\ ClaimIsGrounded(c)}
      = {c \in Seen(k, q, s) : Session(l, s, c) \in {"active", "accepted"} /\ ClaimIsGrounded(c)}
  BY <1>1, <1>2
<1> QED BY <1>3, Zenon DEF Projected

LEMMA OutcomeSame ==
    ASSUME NEW k, NEW q, NEW qp, NEW l, NEW lp, NEW w, NEW wp, NEW s, NEW cf, NEW de,
           OwnOf(qp, k) = OwnOf(q, k), OwnOf(q, k) \subseteq OfKind(AllClaims, k),
           \A i \in DOMAIN cf : KindOf(i) = k, \A i \in DOMAIN de : KindOf(i) = k,
           SameOfKind(k, l, lp), SameOfKind(k, w.claims, wp.claims),
           SamePart(k, w.conflicts, wp.conflicts), SamePart(k, w.decisions, wp.decisions)
    PROVE  Outcome(k, q, l, w, s, cf, de) => Outcome(k, qp, lp, wp, s, cf, de)
<1>1. \A c \in OfKind(AllClaims, k) : Session(lp, s, c) = Session(l, s, c)
  BY DEF SameOfKind, Session
<1>2. NextStatus(k, qp, lp, wp, s) = NextStatus(k, q, l, w, s)
  <2>1. \A c \in OfKind(AllClaims, k) : NextStatus(k, qp, lp, wp, s)[c] = NextStatus(k, q, l, w, s)[c]
    BY <1>1 DEF NextStatus, SameOfKind
  <2> QED BY <2>1 DEF NextStatus
<1>3. NextConflicts(k, wp, cf) = NextConflicts(k, w, cf)
  <2>1. {j \in DOMAIN wp.conflicts : KindOf(j) = k} = {j \in DOMAIN w.conflicts : KindOf(j) = k}
    BY DEF SamePart
  <2>2. \A i \in DOMAIN cf \cup {j \in DOMAIN w.conflicts : KindOf(j) = k} :
          NextConflicts(k, wp, cf)[i] = NextConflicts(k, w, cf)[i]
    BY <2>1 DEF NextConflicts, SamePart
  <2> QED BY <2>1, <2>2 DEF NextConflicts
<1>4. NextDecisions(k, wp, de) = NextDecisions(k, w, de)
  <2>1. {j \in DOMAIN wp.decisions : KindOf(j) = k} = {j \in DOMAIN w.decisions : KindOf(j) = k}
    BY DEF SamePart
  <2>2. \A i \in DOMAIN de \cup {j \in DOMAIN w.decisions : KindOf(j) = k} :
          NextDecisions(k, wp, de)[i] = NextDecisions(k, w, de)[i]
    BY <2>1 DEF NextDecisions, SamePart
  <2> QED BY <2>1, <2>2 DEF NextDecisions
<1>5. Seen(k, qp, s) = Seen(k, q, s) /\ Seen(k, q, s) \subseteq OfKind(AllClaims, k)
  BY DEF Seen, Present
<1> QED BY <1>1, <1>2, <1>3, <1>4, <1>5 DEF Outcome, SessionIsNext

-----------------------------------------------------------------------------
(* The conflict of a group.                                                *)

LEMMA PartIs ==
    ASSUME NEW f, NEW k
    PROVE  /\ DOMAIN Part(f, k) = {i \in DOMAIN f : KindOf(i) = k}
           /\ \A i \in DOMAIN f : KindOf(i) = k => Part(f, k)[i] = f[i]
BY DEF Part

LEMMA StatusPartIs ==
    ASSUME NEW st, NEW k
    PROVE  /\ \A c \in OfKind(AllClaims, k) : StatusPart(st, k)[c] = st[c]
           /\ Present(k, StatusPart(st, k)) = {c \in OfKind(AllClaims, k) : st[c] # "absent"}
BY DEF StatusPart, Present

LEMMA OwnIs ==
    ASSUME NEW q, NEW k, q.op = "finalise" => q.rec \in Recordings
    PROVE  /\ OwnOf(q, k) \subseteq OfKind(AllClaims, k)
           /\ \A c \in OwnOf(q, k) : q.op = "finalise" /\ c.rec = q.rec
BY ClaimsIn DEF OwnOf, OfKind

LEMMA QueryIs ==
    ASSUME NEW t, NEW k, req[t].op = "finalise" => req[t].rec \in Recordings
    PROVE  /\ Own(t, k) = OwnOf(req[t], k)
           /\ Query(t, k) = Present(k, StatusPart(status, k)) \cup OwnOf(req[t], k)
           /\ Query(t, k) \subseteq OfKind(AllClaims, k) /\ Query(t, k) \subseteq AllClaims
<1>1. Own(t, k) = OwnOf(req[t], k)
  BY DEF Own, OwnOf
<1>2. Query(t, k) = Present(k, StatusPart(status, k)) \cup OwnOf(req[t], k)
  BY <1>1, StatusPartIs DEF Query, Stored, OfKind
<1>3. Query(t, k) \subseteq OfKind(AllClaims, k)
  BY <1>2, OwnIs DEF Present
<1> QED BY <1>1, <1>2, <1>3 DEF OfKind

LEMMA AboutOne ==
    ASSUME NEW i, NEW a, NEW b, About(i, a), About(i, b)
    PROVE  a = b
BY DEF About

LEMMA NewIdIs ==
    ASSUME NEW C, C \subseteq AllClaims, NEW g \in ConflictGroups(C), NEW c \in g
    PROVE  /\ NewId(g) # <<>> /\ KindOf(NewId(g)) = c.type /\ About(NewId(g), Topic(c))
           /\ c.type = "attribute" => NewId(g) = Topic(c)
<1> DEFINE d == CHOOSE d \in g : TRUE
<1>1. d \in g
  OBVIOUS
<1> HIDE DEF d
<1>2. c \in AllClaims /\ d.type = c.type /\ Topic(d) = Topic(c) /\ c.type \in Kinds
      /\ \A e \in g : Topic(e) = Topic(c)
  BY <1>1, GroupIs, ClaimIn
<1>3. NewId(g) = IF d.type = "relationship" THEN <<"relationship", g>> ELSE Topic(d)
  BY DEF NewId, d
<1>4. CASE c.type = "relationship"
  <2>1. NewId(g) = <<"relationship", g>>
    BY <1>2, <1>3, <1>4
  <2>2. KindOf(NewId(g)) = "relationship"
    BY <2>1 DEF KindOf
  <2>3. NewId(g)[2] = g /\ NewId(g) # <<>>
    BY <2>1
  <2> QED BY <1>2, <1>4, <2>2, <2>3 DEF About
<1>5. CASE c.type = "attribute"
  <2>1. NewId(g) = Topic(c) /\ KindOf(Topic(c)) = "attribute"
    BY <1>2, <1>3, <1>5, TopicHead
  <2>2. Topic(c) # <<>>
    <3>1. CASE c.predicate \in {"birth_date", "death_date"}
      BY <1>5, <3>1 DEF Topic
    <3>2. CASE c.predicate = "alias"
      BY <1>5, <3>2 DEF Topic
    <3>3. CASE c.predicate \notin {"birth_date", "death_date", "alias"}
      BY <1>5, <3>3 DEF Topic
    <3> QED BY <3>1, <3>2, <3>3
  <2> QED BY <1>5, <2>1, <2>2 DEF About
<1> QED BY <1>2, <1>4, <1>5 DEF Kinds

LEMMA ExistingIs ==
    ASSUME NEW t, NEW k \in Kinds, Query(t, k) \subseteq OfKind(AllClaims, k),
           \A i \in DOMAIN conflicts : Fits(i, conflicts[i].claims),
           NEW g \in ConflictGroups(Query(t, k)), NEW i \in ExistingConflicts(t, g)
    PROVE  /\ i \in DOMAIN conflicts /\ KindOf(i) = k
           /\ \A c \in g : About(i, Topic(c))
           /\ k = "relationship" => \/ conflicts[i].claims = g
                                    \/ \E c \in conflicts[i].claims \cap Query(t, k) :
                                          \E d \in g : Topic(c) = Topic(d)
<1>1. /\ Query(t, k) \subseteq AllClaims /\ g \subseteq Query(t, k) /\ (\E c \in g : TRUE)
      /\ \A c \in g : c.type = k
      /\ \A c, d \in g : Topic(c) = Topic(d)
  BY GroupIs, KindsOfClaims
<1>2. KindOf(NewId(g)) = k
  BY <1>1, NewIdIs
<1>3. CASE k = "attribute"
  <2>1. i = NewId(g) /\ i \in DOMAIN conflicts
    BY <1>2, <1>3 DEF ExistingConflicts
  <2> QED BY <2>1, <1>1, <1>2, <1>3, NewIdIs
<1>4. CASE k = "relationship"
  <2>1. /\ i \in DOMAIN conflicts /\ KindOf(i) = k
        /\ \/ conflicts[i].claims = g
           \/ \E c \in conflicts[i].claims \cap Query(t, k) : \E d \in g : Topic(c) = Topic(d)
    BY <1>2, <1>4 DEF ExistingConflicts
  <2>2. \E c \in conflicts[i].claims : \E d \in g : Topic(c) = Topic(d)
    BY <2>1, <1>1
  <2>3. \E d \in g : About(i, Topic(d))
    BY <2>1, <2>2 DEF Fits
  <2> QED BY <2>1, <2>3, <1>1
<1> QED BY <1>3, <1>4 DEF Kinds

LEMMA ExistingLive ==
    ASSUME NEW t, NEW k \in Kinds, Query(t, k) \subseteq OfKind(AllClaims, k),
           \A j \in DOMAIN conflicts : Fits(j, conflicts[j].claims),
           \A j \in DOMAIN conflicts : conflicts[j].claims \cap Query(t, k) \subseteq Present(k, StatusPart(status, k)),
           OneLive(k, StatusPart(status, k), Part(conflicts, k)),
           NEW i \in DOMAIN conflicts, KindOf(i) = k, NEW d \in conflicts[i].claims \cap Query(t, k),
           NEW g \in ConflictGroups(Query(t, k)), NEW c \in g, Topic(c) = Topic(d)
    PROVE  ExistingConflicts(t, g) = {i}
<1>1. /\ Query(t, k) \subseteq AllClaims /\ g \subseteq Query(t, k) /\ \A e \in g : e.type = k
      /\ \A e, f \in g : Topic(e) = Topic(f)
  BY GroupIs, KindsOfClaims
<1>2. KindOf(NewId(g)) = k
  BY <1>1, NewIdIs
<1>3. CASE k = "attribute"
  <2>1. NewId(g) = Topic(c)
    BY <1>1, <1>3, NewIdIs
  <2>2. About(i, Topic(d))
    BY DEF Fits
  <2>3. i = Topic(c)
    BY <2>2, <1>3 DEF About
  <2> QED BY <1>2, <1>3, <2>1, <2>3 DEF ExistingConflicts
<1>4. CASE k = "relationship"
  <2>1. ASSUME NEW j \in DOMAIN conflicts, KindOf(j) = k,
               NEW e \in conflicts[j].claims \cap Query(t, k), Topic(e) = Topic(c)
        PROVE  j = i
    <3>1. e \in Present(k, StatusPart(status, k)) /\ d \in Present(k, StatusPart(status, k))
      BY <2>1
    <3>2. /\ i \in DOMAIN Part(conflicts, k) /\ Part(conflicts, k)[i] = conflicts[i]
          /\ j \in DOMAIN Part(conflicts, k) /\ Part(conflicts, k)[j] = conflicts[j]
      BY <2>1, PartIs
    <3> QED BY <2>1, <3>1, <3>2 DEF OneLive
  <2>2. \A j \in ExistingConflicts(t, g) : j = i
    <3> TAKE j \in ExistingConflicts(t, g)
    <3>1. /\ j \in DOMAIN conflicts /\ KindOf(j) = k
          /\ \/ conflicts[j].claims = g
             \/ \E e \in conflicts[j].claims \cap Query(t, k) : \E f \in g : Topic(e) = Topic(f)
      BY <1>4, ExistingIs
    <3>2. CASE conflicts[j].claims = g
      BY <3>1, <3>2, <2>1, <1>1
    <3>3. CASE \E e \in conflicts[j].claims \cap Query(t, k) : \E f \in g : Topic(e) = Topic(f)
      <4>1. PICK e \in conflicts[j].claims \cap Query(t, k) : Topic(e) = Topic(c)
        BY <3>3, <1>1
      <4> QED BY <4>1, <3>1, <2>1
    <3> QED BY <3>1, <3>2, <3>3
  <2>3. ExistingConflicts(t, g) # {}
    <3>1. i \in {j \in DOMAIN conflicts : KindOf(j) = "relationship"
                   /\ \E e \in conflicts[j].claims \cap Query(t, "relationship") :
                         \E f \in g : Topic(e) = Topic(f)}
      BY <1>4
    <3> QED BY <3>1, <1>2, <1>4 DEF ExistingConflicts
  <2> QED BY <2>2, <2>3
<1> QED BY <1>3, <1>4 DEF Kinds

-----------------------------------------------------------------------------
(* Reading and reconciling.                                                *)

ConflictChoices(t, k) ==
    {f \in [ConflictGroups(Query(t, k)) -> DOMAIN conflicts \cup {<<>>}] :
       \A g \in DOMAIN f : LET X == ExistingConflicts(t, g)
                           IN  IF X = {} THEN f[g] = <<>> ELSE f[g] \in X}

\* The id and the row of each group, the groups without a conflict and those whose conflict is
\* opened again.
Ids(choice)  == [g \in DOMAIN choice |-> IF choice[g] = <<>> THEN NewId(g) ELSE choice[g]]
Rows(choice) == [g \in DOMAIN choice |-> IF choice[g] = <<>> THEN OpenRow(g)
                                         ELSE Reconciled(conflicts[choice[g]], g)]
Fresh(choice) == {g \in DOMAIN choice : choice[g] = <<>>}
Reopened(choice) == {g \in DOMAIN choice \ Fresh(choice) : Rows(choice)[g] # conflicts[choice[g]]}

Before(t, k, c) == IF c \in Own(t, k) THEN InsertedStatus(c) ELSE Status(t, c)

LEMMA ChoiceIs ==
    ASSUME NEW t, NEW k \in Kinds, Query(t, k) \subseteq OfKind(AllClaims, k),
           \A i \in DOMAIN conflicts : Fits(i, conflicts[i].claims),
           NEW choice \in ConflictChoices(t, k)
    PROVE  /\ DOMAIN choice = ConflictGroups(Query(t, k))
           /\ \A g \in DOMAIN choice : /\ KindOf(Ids(choice)[g]) = k /\ Fits(Ids(choice)[g], g)
                                       /\ g \notin Fresh(choice)
                                          => choice[g] \in ExistingConflicts(t, g) /\ Ids(choice)[g] = choice[g]
                                             /\ choice[g] \in DOMAIN conflicts
                                       /\ g \in Fresh(choice) => ExistingConflicts(t, g) = {}
           /\ \A g, h \in DOMAIN choice : Ids(choice)[g] = Ids(choice)[h] => g = h
<1>1. /\ DOMAIN choice = ConflictGroups(Query(t, k))
      /\ \A g \in DOMAIN choice : IF ExistingConflicts(t, g) = {} THEN choice[g] = <<>>
                                  ELSE choice[g] \in ExistingConflicts(t, g)
  BY DEF ConflictChoices
<1>2. Query(t, k) \subseteq AllClaims
  BY DEF OfKind
<1>3. ASSUME NEW g \in DOMAIN choice
      PROVE  /\ g \subseteq OfKind(AllClaims, k)
             /\ \A c \in g : c.type = k /\ ClaimIsGrounded(c)
             /\ \E c, d \in g : Disagree(c, d)
  BY <1>1, <1>2, GroupIs DEF OfKind
<1>4. ASSUME NEW g \in DOMAIN choice, choice[g] # <<>>
      PROVE  /\ choice[g] \in ExistingConflicts(t, g) /\ choice[g] \in DOMAIN conflicts
             /\ KindOf(choice[g]) = k /\ \A c \in g : About(choice[g], Topic(c))
  BY <1>1, <1>4, ExistingIs
<1>5. ASSUME NEW g \in DOMAIN choice, choice[g] = <<>>
      PROVE  /\ ExistingConflicts(t, g) = {} /\ NewId(g) # <<>>
             /\ KindOf(NewId(g)) = k /\ \A c \in g : About(NewId(g), Topic(c))
  <2>1. /\ NewId(g) # <<>> /\ KindOf(NewId(g)) = k /\ \A c \in g : About(NewId(g), Topic(c))
    BY <1>1, <1>2, <1>3, NewIdIs
  <2>2. <<>> \notin ExistingConflicts(t, g)
    <3>1. SUFFICES ASSUME <<>> \in ExistingConflicts(t, g) PROVE FALSE
      OBVIOUS
    <3>2. <<>> \in DOMAIN conflicts
      BY <1>1, <3>1, ExistingIs
    <3> QED BY <3>2 DEF Fits
  <2> QED BY <1>1, <1>5, <2>1, <2>2
<1>6. ASSUME NEW g \in DOMAIN choice
      PROVE  /\ KindOf(Ids(choice)[g]) = k /\ Ids(choice)[g] # <<>>
             /\ \A c \in g : About(Ids(choice)[g], Topic(c))
  <2>1. CASE choice[g] = <<>>
    BY <1>5, <2>1 DEF Ids
  <2>2. CASE choice[g] # <<>>
    BY <1>4, <2>2 DEF Ids
  <2> QED BY <2>1, <2>2
<1>7. ASSUME NEW g \in DOMAIN choice PROVE Fits(Ids(choice)[g], g)
  BY <1>3, <1>6 DEF Fits, OfKind
<1>8. ASSUME NEW g \in DOMAIN choice, NEW h \in DOMAIN choice, Ids(choice)[g] = Ids(choice)[h]
      PROVE  g = h
  <2>1. PICK c \in g, d \in h : TRUE
    BY <1>3
  <2>2. About(Ids(choice)[g], Topic(c)) /\ About(Ids(choice)[g], Topic(d))
    BY <1>6, <1>8
  <2>3. Topic(c) = Topic(d)
    BY <2>2, AboutOne
  <2> QED BY <2>3, <1>1, <1>2, GroupsApart
<1> QED BY <1>1, <1>4, <1>5, <1>6, <1>7, <1>8 DEF Fresh, Ids

\* What reconciliation plans to write: the status that changes, the conflicts that are new or
\* opened again, and the decisions that open them.
Plans(t, k, choice, w) ==
    /\ w.loaded = [c \in Query(t, k) |-> ReconciledStatus(Rows(choice), c)]
    /\ DOMAIN w.claims = {c \in Query(t, k) : \/ Before(t, k, c) # BaseStatus(c)
                                              \/ BaseStatus(c) # w.loaded[c]}
    /\ \A c \in DOMAIN w.claims : w.claims[c] = w.loaded[c]
    /\ DOMAIN w.conflicts = {Ids(choice)[g] : g \in Fresh(choice) \cup Reopened(choice)}
    /\ \A g \in Fresh(choice) : w.conflicts[Ids(choice)[g]] = OpenRow(g)
    /\ \A g \in Reopened(choice) :
          w.conflicts[Ids(choice)[g]] = Changed(conflicts[Ids(choice)[g]], Rows(choice)[g])
    /\ DOMAIN w.decisions = {Ids(choice)[g] : g \in Reopened(choice)}
    /\ \A g \in Reopened(choice) :
          w.decisions[Ids(choice)[g]] = Decision("auto_reopen", Rows(choice)[g])

LEMMA ReconcileIs ==
    ASSUME NEW t, NEW k, NEW choice, NEW w, w = Reconcile(t, k, choice),
           \A g, h \in DOMAIN choice : Ids(choice)[g] = Ids(choice)[h] => g = h
    PROVE  Plans(t, k, choice, w)
<1> DEFINE claims == Query(t, k)
           groups == DOMAIN choice
           before(c) == IF c \in Own(t, k) THEN InsertedStatus(c) ELSE Status(t, c)
           row(g) == IF choice[g] = <<>> THEN OpenRow(g) ELSE Reconciled(conflicts[choice[g]], g)
           after == [c \in claims |-> ReconciledStatus([g \in groups |-> row(g)], c)]
           new == {g \in groups : choice[g] = <<>>}
           reopened == {g \in groups \ new : row(g) # conflicts[choice[g]]}
           id(g) == IF g \in new THEN NewId(g) ELSE choice[g]
           group(i) == CHOOSE g \in groups : id(g) = i
           wc == [c \in {d \in claims : before(d) # BaseStatus(d) \/ BaseStatus(d) # after[d]} |-> after[c]]
           wf == [i \in {id(g) : g \in new \cup reopened} |->
                    IF group(i) \in new THEN row(group(i)) ELSE Changed(conflicts[i], row(group(i)))]
           wd == [i \in {id(g) : g \in reopened} |-> Decision("auto_reopen", row(group(i)))]
<1>1. w = [loaded |-> after, claims |-> wc, conflicts |-> wf, decisions |-> wd]
  BY Zenon DEF Reconcile
<1>2. w.loaded = after /\ w.claims = wc /\ w.conflicts = wf /\ w.decisions = wd
  <2> HIDE DEF after, wc, wf, wd
  <2> QED BY <1>1
<1>3. /\ Rows(choice) = [g \in groups |-> row(g)]
      /\ \A g \in groups : Rows(choice)[g] = row(g)
  BY DEF Rows
<1>4. \A g \in groups : Ids(choice)[g] = id(g)
  BY DEF Ids
<1>5. new = Fresh(choice) /\ reopened = Reopened(choice) /\ new \cup reopened \subseteq groups
  BY <1>3 DEF Fresh, Reopened
<1>6. \A g \in groups : group(id(g)) = g
  BY <1>4
<1>7. w.loaded = [c \in Query(t, k) |-> ReconciledStatus(Rows(choice), c)]
  BY <1>2, <1>3
<1>8. /\ DOMAIN w.claims = {c \in Query(t, k) : \/ Before(t, k, c) # BaseStatus(c)
                                                \/ BaseStatus(c) # w.loaded[c]}
      /\ \A c \in DOMAIN w.claims : w.claims[c] = w.loaded[c]
  <2> HIDE DEF after
  <2> QED BY <1>2 DEF Before
<1> HIDE DEF row, new, reopened, id, group
<1>9. /\ DOMAIN w.conflicts = {id(g) : g \in new \cup reopened}
      /\ DOMAIN w.decisions = {id(g) : g \in reopened}
      /\ \A i \in DOMAIN w.conflicts :
            w.conflicts[i] = IF group(i) \in new THEN row(group(i)) ELSE Changed(conflicts[i], row(group(i)))
      /\ \A i \in DOMAIN w.decisions : w.decisions[i] = Decision("auto_reopen", row(group(i)))
  BY <1>2
<1>10. /\ DOMAIN w.conflicts = {Ids(choice)[g] : g \in Fresh(choice) \cup Reopened(choice)}
       /\ DOMAIN w.decisions = {Ids(choice)[g] : g \in Reopened(choice)}
  BY <1>4, <1>5, <1>9
<1>11. ASSUME NEW g \in new PROVE w.conflicts[Ids(choice)[g]] = OpenRow(g)
  <2>1. row(g) = OpenRow(g)
    BY DEF row, new
  <2>2. w.conflicts[id(g)] = row(g)
    BY <1>5, <1>6, <1>9
  <2> QED BY <2>1, <2>2, <1>4, <1>5
<1>12. ASSUME NEW g \in reopened
       PROVE  /\ w.conflicts[Ids(choice)[g]] = Changed(conflicts[Ids(choice)[g]], Rows(choice)[g])
              /\ w.decisions[Ids(choice)[g]] = Decision("auto_reopen", Rows(choice)[g])
  <2>1. g \notin new /\ g \in groups
    BY DEF reopened
  <2>2. w.conflicts[id(g)] = Changed(conflicts[id(g)], row(g))
    BY <1>6, <1>9, <2>1
  <2>3. w.decisions[id(g)] = Decision("auto_reopen", row(g))
    BY <1>6, <1>9, <2>1
  <2> QED BY <2>1, <2>2, <2>3, <1>3, <1>4
<1> QED BY <1>5, <1>7, <1>8, <1>10, <1>11, <1>12 DEF Plans

LEMMA ChangedIs ==
    ASSUME NEW old, NEW row, IsFunction(old), IsFunction(row), DOMAIN old = RowFields, DOMAIN row = RowFields
    PROVE  /\ IsFunction(Changed(old, row)) /\ DOMAIN Changed(old, row) \subseteq RowFields
           /\ \A a \in DOMAIN Changed(old, row) : Changed(old, row)[a] = row[a]
           /\ Over(Changed(old, row), old) = row
<1>1. /\ IsFunction(Changed(old, row)) /\ DOMAIN Changed(old, row) = {b \in RowFields : row[b] # old[b]}
      /\ \A a \in DOMAIN Changed(old, row) : Changed(old, row)[a] = row[a]
  BY DEF Changed, IsFunction
<1>2. \A a \in RowFields : Over(Changed(old, row), old)[a] = row[a]
  BY <1>1 DEF Over
<1>3. Over(Changed(old, row), old) = [a \in RowFields |-> Over(Changed(old, row), old)[a]]
  BY <1>1 DEF Over
<1>4. row = [a \in RowFields |-> row[a]]
  BY DEF IsFunction
<1> QED BY <1>1, <1>2, <1>3, <1>4

\* What t is going to write once it has read the kind k.
Planned(td, w) ==
    td.claims = w.claims /\ td.conflicts = w.conflicts /\ td.decisions = w.decisions

\* t reads the kind k for the first time, and no conflict has a claim of its recording.
ReadsFirst(t, k) ==
    /\ req[t].op = "finalise" => req[t].rec \in Recordings
    /\ \A c \in Query(t, k) : c \notin DOMAIN loaded[t]
    /\ \A i \in DOMAIN conflicts : conflicts[i].claims \cap OwnOf(req[t], k) = {}
    /\ ConflictsOK(recording, conflicts, decisions)

LEMMA ReadStatus ==
    ASSUME NEW t, NEW k \in Kinds, ReadsFirst(t, k),
           NEW choice, NEW w, w = Reconcile(t, k, choice),
           \A g, h \in DOMAIN choice : Ids(choice)[g] = Ids(choice)[h] => g = h,
           NEW q, OwnOf(q, k) = OwnOf(req[t], k), NEW td, Planned(td, w)
    PROVE  /\ StatusReconciled(k, Query(t, k), Rows(choice),
                               NextStatus(k, q, Over(w.loaded, loaded[t]), td, StatusPart(status, k)))
           /\ SessionIsNext(k, q, Over(w.loaded, loaded[t]), StatusPart(status, k),
                            NextStatus(k, q, Over(w.loaded, loaded[t]), td, StatusPart(status, k)))
<1> DEFINE Q  == Query(t, k)
           s  == StatusPart(status, k)
           l  == Over(w.loaded, loaded[t])
           ns == NextStatus(k, q, l, td, s)
<1>1. Q = Present(k, s) \cup OwnOf(q, k) /\ Q \subseteq OfKind(AllClaims, k)
      /\ Own(t, k) = OwnOf(q, k)
  BY QueryIs DEF ReadsFirst
<1>2. /\ DOMAIN w.loaded = Q /\ \A c \in Q : w.loaded[c] = ReconciledStatus(Rows(choice), c)
      /\ DOMAIN td.claims = {c \in Q : Before(t, k, c) # BaseStatus(c) \/ BaseStatus(c) # w.loaded[c]}
      /\ \A c \in DOMAIN td.claims : td.claims[c] = w.loaded[c]
  <2>1. /\ w.loaded = [c \in Q |-> ReconciledStatus(Rows(choice), c)]
        /\ DOMAIN w.claims = {c \in Q : Before(t, k, c) # BaseStatus(c) \/ BaseStatus(c) # w.loaded[c]}
        /\ \A c \in DOMAIN w.claims : w.claims[c] = w.loaded[c]
    BY ReconcileIs DEF Plans
  <2>2. td.claims = w.claims
    BY DEF Planned
  <2> HIDE DEF Q
  <2> QED BY <2>1, <2>2
<1>3. \A c \in Q : c \in DOMAIN l /\ l[c] = w.loaded[c]
  <2>1. /\ DOMAIN l = DOMAIN w.loaded \cup DOMAIN loaded[t]
        /\ \A x \in DOMAIN w.loaded : l[x] = w.loaded[x]
    BY DEF Over
  <2> HIDE DEF l, Q
  <2> QED BY <1>2, <2>1
<1>4. \A c \in Q \ OwnOf(q, k) : Before(t, k, c) = s[c]
  <2> TAKE c \in Q \ OwnOf(q, k)
  <2>1. c \notin Own(t, k) /\ c \notin DOMAIN loaded[t] /\ s[c] = status[c]
    BY <1>1, StatusPartIs DEF ReadsFirst
  <2> QED BY <2>1 DEF Before, Status
<1>5. \A c \in OfKind(AllClaims, k) :
         ns[c] = IF c \in DOMAIN td.claims THEN td.claims[c]
                 ELSE IF c \in OwnOf(q, k) THEN Session(l, s, c) ELSE s[c]
  BY DEF NextStatus
<1>6. \A c \in Q : ns[c] = w.loaded[c]
  <2> TAKE c \in Q
  <2> HIDE DEF ns, l, s, Q
  <2>1. CASE c \in DOMAIN td.claims
    BY <1>1, <1>2, <1>5, <2>1
  <2>2. CASE c \notin DOMAIN td.claims
    <3>1. Before(t, k, c) = w.loaded[c]
      BY <1>2, <2>2
    <3>2. Session(l, s, c) = w.loaded[c]
      BY <1>3 DEF Session
    <3> QED BY <1>1, <1>4, <1>5, <2>2, <3>1, <3>2
  <2> QED BY <2>1, <2>2
<1>7. \A c \in OfKind(AllClaims, k) \ Q : ns[c] = "absent"
  <2> HIDE DEF ns, l
  <2>1. \A c \in OfKind(AllClaims, k) \ Q : s[c] = "absent" /\ c \notin OwnOf(q, k) /\ c \notin DOMAIN td.claims
    BY <1>1, <1>2 DEF Present
  <2> QED BY <2>1, <1>5
<1>8. \A c \in Seen(k, q, s) : Session(l, s, c) = ns[c]
  <2> HIDE DEF ns, l, Q
  <2> QED BY <1>1, <1>3, <1>6 DEF Seen, Session
<1> HIDE DEF ns, l, s, Q
<1>9. StatusReconciled(k, Q, Rows(choice), ns)
  BY <1>2, <1>6, <1>7 DEF StatusReconciled
<1>10. SessionIsNext(k, q, l, s, ns)
  BY <1>8 DEF SessionIsNext
<1> QED BY <1>9, <1>10 DEF ns, l, s, Q

LEMMA ReadGroups ==
    ASSUME NEW t, NEW k \in Kinds, ReadsFirst(t, k),
           OneLive(k, StatusPart(status, k), Part(conflicts, k)),
           NEW choice \in ConflictChoices(t, k),
           \A g \in Fresh(choice) : Ids(choice)[g] \notin DOMAIN conflicts
    PROVE  /\ GroupsMatched(DOMAIN choice, Query(t, k), Part(conflicts, k), Ids(choice), Fresh(choice))
           /\ RowsReconciled(DOMAIN choice, Part(conflicts, k), Ids(choice), Rows(choice), Fresh(choice))
<1> DEFINE G  == DOMAIN choice
           cf == Part(conflicts, k)
           id == Ids(choice)
<1>1. /\ Query(t, k) \subseteq OfKind(AllClaims, k)
      /\ \A i \in DOMAIN conflicts : Fits(i, conflicts[i].claims)
  BY QueryIs DEF ReadsFirst, ConflictsOK, ConflictOK
<1>2. /\ G = ConflictGroups(Query(t, k))
      /\ \A g \in G : /\ KindOf(id[g]) = k
                      /\ g \notin Fresh(choice)
                         => choice[g] \in ExistingConflicts(t, g) /\ id[g] = choice[g] /\ choice[g] \in DOMAIN conflicts
                      /\ g \in Fresh(choice) => ExistingConflicts(t, g) = {}
      /\ \A g, h \in G : id[g] = id[h] => g = h
  BY <1>1, ChoiceIs
<1>3. /\ DOMAIN cf = {i \in DOMAIN conflicts : KindOf(i) = k}
      /\ \A i \in DOMAIN cf : cf[i] = conflicts[i]
  <2>1. /\ DOMAIN Part(conflicts, k) = {i \in DOMAIN conflicts : KindOf(i) = k}
        /\ \A i \in DOMAIN conflicts : KindOf(i) = k => Part(conflicts, k)[i] = conflicts[i]
    BY PartIs
  <2> QED BY <2>1
<1>4. \A j \in DOMAIN conflicts : conflicts[j].claims \cap Query(t, k) \subseteq Present(k, StatusPart(status, k))
  BY QueryIs DEF ReadsFirst
<1>5. \A g \in G : g \in Fresh(choice) <=> id[g] \notin DOMAIN cf
  BY <1>2, <1>3
<1>6. ASSUME NEW g \in G, NEW i \in DOMAIN cf, NEW d \in cf[i].claims \cap Query(t, k), NEW c \in g,
             Topic(c) = Topic(d)
      PROVE  id[g] = i
  <2>1. ExistingConflicts(t, g) = {i}
    BY <1>1, <1>2, <1>3, <1>4, <1>6, ExistingLive
  <2> QED BY <1>2, <2>1
<1>7. GroupsMatched(G, Query(t, k), cf, id, Fresh(choice))
  BY <1>2, <1>5, <1>6, Zenon DEF GroupsMatched, Fresh
<1>8. RowsReconciled(G, cf, id, Rows(choice), Fresh(choice))
  <2>1. ASSUME NEW g \in G PROVE Rows(choice)[g] = IF g \in Fresh(choice) THEN OpenRow(g) ELSE Reconciled(cf[id[g]], g)
    <3>1. CASE g \in Fresh(choice)
      BY <3>1 DEF Rows, Fresh
    <3>2. CASE g \notin Fresh(choice)
      <4>1. Rows(choice)[g] = Reconciled(conflicts[choice[g]], g)
        BY <3>2 DEF Rows, Fresh
      <4>2. id[g] = choice[g] /\ cf[id[g]] = conflicts[choice[g]]
        BY <1>2, <1>3, <3>2
      <4> QED BY <3>2, <4>1, <4>2
    <3> QED BY <3>1, <3>2
  <2>2. DOMAIN Rows(choice) = G
    BY DEF Rows
  <2> QED BY <2>1, <2>2, Zenon DEF RowsReconciled
<1> QED BY <1>7, <1>8

LEMMA ReadConflicts ==
    ASSUME NEW t, NEW k \in Kinds, ReadsFirst(t, k),
           NEW choice \in ConflictChoices(t, k), NEW w, w = Reconcile(t, k, choice),
           \A g \in Fresh(choice) : Ids(choice)[g] \notin DOMAIN conflicts,
           NEW td, Planned(td, w)
    PROVE  /\ ConflictsReconciled(DOMAIN choice, Part(conflicts, k), Ids(choice), Rows(choice),
                                  NextConflicts(k, td, Part(conflicts, k)))
           /\ DecisionsReconciled(DOMAIN choice, Part(conflicts, k), Part(decisions, k), Ids(choice),
                                  Rows(choice), Fresh(choice), NextDecisions(k, td, Part(decisions, k)))
<1> DEFINE G   == DOMAIN choice
           cf  == Part(conflicts, k)
           de  == Part(decisions, k)
           id  == Ids(choice)
           row == Rows(choice)
           ncf == NextConflicts(k, td, cf)
           nde == NextDecisions(k, td, de)
<1>1. /\ Query(t, k) \subseteq OfKind(AllClaims, k)
      /\ \A i \in DOMAIN conflicts : Fits(i, conflicts[i].claims) /\ ConflictOK(i, conflicts[i], recording)
  BY QueryIs DEF ReadsFirst, ConflictsOK, ConflictOK
<1>2. /\ \A g \in G : KindOf(id[g]) = k
      /\ \A g \in G \ Fresh(choice) : id[g] = choice[g] /\ id[g] \in DOMAIN conflicts
      /\ \A g, h \in G : id[g] = id[h] => g = h
  BY <1>1, ChoiceIs
<1>3. /\ DOMAIN cf = {i \in DOMAIN conflicts : KindOf(i) = k}
      /\ \A i \in DOMAIN cf : cf[i] = conflicts[i]
  <2>1. /\ DOMAIN Part(conflicts, k) = {i \in DOMAIN conflicts : KindOf(i) = k}
        /\ \A i \in DOMAIN conflicts : KindOf(i) = k => Part(conflicts, k)[i] = conflicts[i]
    BY PartIs
  <2> QED BY <2>1
<1>4. Fresh(choice) \subseteq G /\ Reopened(choice) = {g \in G \ Fresh(choice) : row[g] # conflicts[id[g]]}
  BY <1>2 DEF Fresh, Reopened
<1>5. /\ DOMAIN td.conflicts = {id[g] : g \in Fresh(choice) \cup Reopened(choice)}
      /\ \A g \in Fresh(choice) : td.conflicts[id[g]] = OpenRow(g)
      /\ \A g \in Reopened(choice) : td.conflicts[id[g]] = Changed(conflicts[id[g]], row[g])
      /\ DOMAIN td.decisions = {id[g] : g \in Reopened(choice)}
      /\ \A g \in Reopened(choice) : td.decisions[id[g]] = Decision("auto_reopen", row[g])
  <2>1. Plans(t, k, choice, w)
    BY <1>2, ReconcileIs
  <2> QED BY <2>1 DEF Plans, Planned
<1>6. \A g \in G : row[g] = IF g \in Fresh(choice) THEN OpenRow(g) ELSE Reconciled(conflicts[id[g]], g)
  BY <1>2 DEF Rows, Fresh
<1>7. /\ DOMAIN ncf = DOMAIN cf \cup {j \in DOMAIN td.conflicts : KindOf(j) = k}
      /\ \A i \in DOMAIN ncf : ncf[i] = IF i \notin DOMAIN td.conflicts THEN cf[i]
                                        ELSE IF i \in DOMAIN cf THEN Over(td.conflicts[i], cf[i])
                                        ELSE td.conflicts[i]
  BY DEF NextConflicts
<1>8. /\ DOMAIN nde = DOMAIN de \cup {j \in DOMAIN td.decisions : KindOf(j) = k}
      /\ \A i \in DOMAIN nde : nde[i] = IF i \in DOMAIN td.decisions THEN td.decisions[i] ELSE de[i]
  BY DEF NextDecisions
<1> HIDE DEF G, cf, de, id, row, ncf, nde
<1>9. ASSUME NEW g \in Reopened(choice) PROVE Over(td.conflicts[id[g]], cf[id[g]]) = row[g]
  <2>1. g \in G /\ g \notin Fresh(choice) /\ id[g] \in DOMAIN conflicts /\ id[g] \in DOMAIN cf
    BY <1>2, <1>3, <1>4
  <2>2. row[g] = OpenRow(g) \/ row[g] = conflicts[id[g]]
    BY <1>6, <2>1, ReconciledIs
  <2>3. /\ IsFunction(row[g]) /\ DOMAIN row[g] = RowFields
        /\ IsFunction(conflicts[id[g]]) /\ DOMAIN conflicts[id[g]] = RowFields
    BY <1>1, <2>1, <2>2, OpenRowIs DEF ConflictOK
  <2>4. Over(Changed(conflicts[id[g]], row[g]), conflicts[id[g]]) = row[g]
    BY <2>3, ChangedIs
  <2>5. td.conflicts[id[g]] = Changed(conflicts[id[g]], row[g]) /\ cf[id[g]] = conflicts[id[g]]
    BY <1>3, <1>5, <2>1
  <2> QED BY <2>4, <2>5
<1>10. ASSUME NEW g \in G PROVE id[g] \in DOMAIN ncf /\ ncf[id[g]] = row[g]
  <2>1. CASE g \in Fresh(choice)
    <3>1. id[g] \notin DOMAIN cf /\ id[g] \in DOMAIN td.conflicts /\ td.conflicts[id[g]] = row[g]
      BY <1>3, <1>5, <1>6, <2>1 DEF id
    <3> QED BY <1>2, <1>7, <3>1
  <2>2. CASE g \in Reopened(choice)
    <3>1. id[g] \in DOMAIN cf /\ id[g] \in DOMAIN td.conflicts
      BY <1>2, <1>3, <1>4, <1>5, <2>2
    <3> QED BY <1>7, <1>9, <2>2, <3>1
  <2>3. CASE g \notin Fresh(choice) /\ g \notin Reopened(choice)
    <3>1. id[g] \in DOMAIN cf /\ row[g] = cf[id[g]]
      BY <1>2, <1>3, <1>4, <2>3
    <3>2. id[g] \notin DOMAIN td.conflicts
      BY <1>2, <1>4, <1>5, <2>3
    <3> QED BY <1>7, <3>1, <3>2
  <2> QED BY <2>1, <2>2, <2>3
<1>11. ConflictsReconciled(G, cf, id, row, ncf)
  <2>1. \A i \in DOMAIN td.conflicts : KindOf(i) = k /\ \E g \in G : id[g] = i
    BY <1>2, <1>4, <1>5
  <2>2. DOMAIN ncf = DOMAIN cf \cup {id[g] : g \in G}
    BY <1>7, <1>10, <2>1
  <2>3. \A i \in DOMAIN cf : (\A g \in G : id[g] # i) => ncf[i] = cf[i]
    BY <1>7, <2>1
  <2> QED BY <1>10, <2>2, <2>3 DEF ConflictsReconciled
<1>12. DecisionsReconciled(G, cf, de, id, row, Fresh(choice), nde)
  <2>1. Reopened(choice) = {g \in G \ Fresh(choice) : row[g] # cf[id[g]]}
    BY <1>2, <1>3, <1>4
  <2>2. \A i \in DOMAIN td.decisions : KindOf(i) = k /\ \E g \in Reopened(choice) : id[g] = i
    BY <1>2, <1>4, <1>5
  <2>3. DOMAIN nde = DOMAIN de \cup {id[g] : g \in Reopened(choice)}
    BY <1>5, <1>8, <2>2
  <2>4. \A g \in Reopened(choice) : /\ nde[id[g]].status = row[g].status
                                    /\ nde[id[g]].preferred = row[g].preferred
    <3> TAKE g \in Reopened(choice)
    <3>1. nde[id[g]] = Decision("auto_reopen", row[g])
      BY <1>5, <1>8, <2>3
    <3> QED BY <3>1 DEF Decision
  <2>5. \A i \in DOMAIN de : (\A g \in Reopened(choice) : id[g] # i) => nde[i] = de[i]
    BY <1>8, <2>2
  <2> QED BY <2>1, <2>3, <2>4, <2>5, Zenon DEF DecisionsReconciled
<1> QED BY <1>11, <1>12 DEF G, cf, de, id, row, ncf, nde

\* A finalisation that has read and reconciled a kind will leave it settled, or runs into a
\* conflict with the id of a new one.
LEMMA ReadSettles ==
    ASSUME NEW t, NEW k \in Kinds, ReadsFirst(t, k),
           Settled(k, StatusPart(status, k), Part(conflicts, k), Part(decisions, k)),
           NEW choice \in ConflictChoices(t, k), NEW w, w = Reconcile(t, k, choice),
           NEW q, OwnOf(q, k) = OwnOf(req[t], k), NEW td, Planned(td, w)
    PROVE  \/ KindWriteFails(k, q, td, StatusPart(status, k), Part(conflicts, k))
           \/ Outcome(k, q, Over(w.loaded, loaded[t]), td, StatusPart(status, k), Part(conflicts, k),
                      Part(decisions, k))
<1> DEFINE s  == StatusPart(status, k)
           cf == Part(conflicts, k)
           de == Part(decisions, k)
<1>1. /\ Query(t, k) \subseteq OfKind(AllClaims, k)
      /\ Query(t, k) = Present(k, s) \cup OwnOf(req[t], k) /\ OwnOf(req[t], k) \subseteq OfKind(AllClaims, k)
      /\ \A i \in DOMAIN conflicts : Fits(i, conflicts[i].claims)
  BY QueryIs, OwnIs DEF ReadsFirst, ConflictsOK, ConflictOK
<1>2. /\ DOMAIN choice = ConflictGroups(Query(t, k))
      /\ \A g \in DOMAIN choice : KindOf(Ids(choice)[g]) = k
      /\ \A g, h \in DOMAIN choice : Ids(choice)[g] = Ids(choice)[h] => g = h
  BY <1>1, ChoiceIs
<1>3. /\ DOMAIN cf = {i \in DOMAIN conflicts : KindOf(i) = k}
      /\ \A i \in DOMAIN cf : cf[i] = conflicts[i]
      /\ DOMAIN de = {i \in DOMAIN decisions : KindOf(i) = k}
  <2>1. /\ DOMAIN Part(conflicts, k) = {i \in DOMAIN conflicts : KindOf(i) = k}
        /\ \A i \in DOMAIN conflicts : KindOf(i) = k => Part(conflicts, k)[i] = conflicts[i]
        /\ DOMAIN Part(decisions, k) = {i \in DOMAIN decisions : KindOf(i) = k}
    BY PartIs
  <2> QED BY <2>1
<1>4. CASE \E g \in Fresh(choice) : Ids(choice)[g] \in DOMAIN conflicts
  <2>1. PICK g \in Fresh(choice) : Ids(choice)[g] \in DOMAIN conflicts
    BY <1>4
  <2>2. g \in DOMAIN choice /\ g \notin Reopened(choice) /\ Reopened(choice) \subseteq DOMAIN choice
    BY DEF Fresh, Reopened
  <2>3. /\ DOMAIN td.conflicts = {Ids(choice)[h] : h \in Fresh(choice) \cup Reopened(choice)}
        /\ DOMAIN td.decisions = {Ids(choice)[h] : h \in Reopened(choice)}
    <3>1. Plans(t, k, choice, w)
      BY <1>2, ReconcileIs
    <3> QED BY <3>1 DEF Plans, Planned
  <2>4. Ids(choice)[g] \in DOMAIN td.conflicts /\ Ids(choice)[g] \notin DOMAIN td.decisions
    BY <1>2, <2>2, <2>3
  <2> QED BY <1>2, <1>3, <2>1, <2>2, <2>4 DEF KindWriteFails
<1>5. CASE \A g \in Fresh(choice) : Ids(choice)[g] \notin DOMAIN conflicts
  <2> DEFINE l  == Over(w.loaded, loaded[t])
             ns == NextStatus(k, q, l, td, s)
  <2>1. /\ StatusReconciled(k, Query(t, k), Rows(choice), ns)
        /\ SessionIsNext(k, q, l, s, ns)
    BY <1>2, ReadStatus
  <2>2. /\ GroupsMatched(DOMAIN choice, Query(t, k), cf, Ids(choice), Fresh(choice))
        /\ RowsReconciled(DOMAIN choice, cf, Ids(choice), Rows(choice), Fresh(choice))
    BY <1>5, ReadGroups DEF Settled
  <2>3. /\ ConflictsReconciled(DOMAIN choice, cf, Ids(choice), Rows(choice), NextConflicts(k, td, cf))
        /\ DecisionsReconciled(DOMAIN choice, cf, de, Ids(choice), Rows(choice), Fresh(choice),
                               NextDecisions(k, td, de))
    BY <1>5, ReadConflicts
  <2>4. \A i \in DOMAIN cf : Fits(i, cf[i].claims) /\ cf[i].claims \cap OwnOf(req[t], k) = {}
    BY <1>1, <1>3 DEF ReadsFirst
  <2>5. DOMAIN de \subseteq DOMAIN cf
    BY <1>3 DEF ReadsFirst, ConflictsOK
  <2>8. Settled(k, s, cf, de)
    OBVIOUS
  <2> HIDE DEF l, ns, s, cf, de
  <2>6. /\ Settled(k, ns, NextConflicts(k, td, cf), NextDecisions(k, td, de))
        /\ BackWithConflict(k, s, ns, cf, NextConflicts(k, td, cf))
    BY <1>1, <1>2, <2>1, <2>2, <2>3, <2>4, <2>5, <2>8, ReconcileSettles
  <2>7. Outcome(k, q, l, td, s, cf, de)
    BY <2>1, <2>6, Zenon DEF Outcome, ns
  <2> QED BY <2>7 DEF l, s, cf, de
<1> QED BY <1>4, <1>5

-----------------------------------------------------------------------------
(* Transactions that go on.                                                *)

LEMMA KindOfIs == \A i : KindOf(i) \in Kinds
BY DEF KindOf, Kinds

LEMMA NotNobody ==
    ASSUME NEW q, q.op # "none"
    PROVE  q # Nobody
<1>1. Nobody.op = "none"
  BY DEF Nobody
<1> QED BY <1>1

LEMMA RequestIs ==
    ASSUME NEW q, NEW rc, NEW cf, RequestOK(q, rc, cf)
    PROVE  /\ q.op = "none" => q = Nobody
           /\ q.op = "finalise" => FinaliseOK(q, rc)
           /\ q.op \notin {"none", "finalise"} => q.op \in {"resolve", "dismiss", "reopen"} /\ ReviewOK(q, cf)
           /\ q.op # "none" => q.kind \in Kinds /\ q.at \in Stages /\ q # Nobody
           /\ q.op = "finalise" => q.rec \in Recordings
           /\ \A k : OwnOf(q, k) \subseteq OfKind(AllClaims, k)
           /\ \A k : \A c \in OwnOf(q, k) : q.op = "finalise" /\ c.rec = q.rec
<1>1. Nobody.op = "none"
  BY DEF Nobody
<1>2. q.op = "none" => q = Nobody
  BY DEF RequestOK
<1>3. q.op = "finalise" => FinaliseOK(q, rc) /\ q.rec \in Recordings
  BY <1>1 DEF RequestOK, FinaliseOK
<1>4. q.op \notin {"none", "finalise"} => q.op \in {"resolve", "dismiss", "reopen"} /\ ReviewOK(q, cf)
  BY <1>1 DEF RequestOK
<1>5. q.op # "none" => q.kind \in Kinds /\ q.at \in Stages /\ q # Nobody
  BY <1>1, <1>3, <1>4, KindOfIs DEF FinaliseOK, ReviewOK
<1>6. \A k : OwnOf(q, k) \subseteq OfKind(AllClaims, k) /\ \A c \in OwnOf(q, k) : q.op = "finalise" /\ c.rec = q.rec
  BY <1>3, OwnIs
<1> QED BY <1>2, <1>3, <1>4, <1>5, <1>6

\* The step of a thread that leaves the archive alone.
Moves(t, q, l, w, m) ==
    /\ UNCHANGED dbVars
    /\ req' = [req EXCEPT ![t] = q] /\ loaded' = [loaded EXCEPT ![t] = l]
    /\ todo' = [todo EXCEPT ![t] = w] /\ made' = [made EXCEPT ![t] = m]

LEMMA LocalStep ==
    ASSUME NEW t \in Threads, IInv, NEW q, NEW l, NEW w, NEW m, Moves(t, q, l, w, m),
           \A u \in Threads \ {t} : ~ (q.op = "finalise" /\ req[u].op = "finalise" /\ q.rec = req[u].rec),
           ThreadOK(q, l, w, m, recording, status, conflicts),
           ThreadFresh(q, l, w, m, people, status, conflicts, decisions, view, raced)
    PROVE  IInv'
<1>1. Shape
  BY DEF IInv
<1>2. /\ Shape'
      /\ \A u \in Threads \ {t} : /\ req'[u] = req[u] /\ loaded'[u] = loaded[u]
                                  /\ todo'[u] = todo[u] /\ made'[u] = made[u]
  BY <1>1, ShapeStep DEF Moves
<1>3. req'[t] = q /\ loaded'[t] = l /\ todo'[t] = w /\ made'[t] = m /\ UNCHANGED dbVars
  BY <1>1 DEF Shape, Moves
<1>4. ThreadInv(t)'
  BY <1>3 DEF ThreadInv, dbVars
<1> QED BY <1>2, <1>3, <1>4, ThreadStep

\* A transaction that goes on works on the same recording.
LEMMA Continue ==
    ASSUME NEW t \in Threads, IInv, NEW q, NEW l, NEW w, NEW m, Moves(t, q, l, w, m),
           q.op = req[t].op, q.rec = req[t].rec,
           ThreadOK(q, l, w, m, recording, status, conflicts),
           ThreadFresh(q, l, w, m, people, status, conflicts, decisions, view, raced)
    PROVE  IInv'
<1>1. \A u \in Threads \ {t} : ~ (q.op = "finalise" /\ req[u].op = "finalise" /\ q.rec = req[u].rec)
  BY DEF IInv, OneFinalisation
<1> QED BY <1>1, LocalStep

\* The kind a finalisation is done with stays as it leaves it while it works on the other.
LEMMA DoneStays ==
    ASSUME NEW q, NEW qp, NEW l, NEW lp, NEW td, NEW tdp, NEW m, NEW mp,
           NEW s, NEW cf, NEW de, NEW v, NEW pp, NEW k,
           Done(q, k), Done(qp, k), qp.rec = q.rec, q.op = "finalise" => q.rec \in Recordings,
           \A i \in DOMAIN cf : KindOf(i) = k, \A i \in DOMAIN de : KindOf(i) = k,
           SameOfKind(k, l, lp), SameOfKind(k, m.claims, mp.claims),
           SamePart(k, m.conflicts, mp.conflicts), SamePart(k, m.decisions, mp.decisions),
           mp.cleared[k] = m.cleared[k], mp.rows[k] = m.rows[k], mp.people = m.people,
           Undisturbed(k, q, l, td, m, s, cf, de, v, pp)
    PROVE  Undisturbed(k, qp, lp, tdp, mp, s, cf, de, v, pp)
<1>1. k # q.kind /\ k # qp.kind
  BY DEF Done
<1>2. OwnOf(qp, k) = OwnOf(q, k) /\ OwnOf(q, k) \subseteq OfKind(AllClaims, k)
  BY OwnIs DEF OwnOf, Done
<1>3. WritesOf(k, q, td, m) = m /\ WritesOf(k, qp, tdp, mp) = mp
  BY <1>1 DEF WritesOf
<1>4. Outcome(k, q, l, m, s, cf, de)
  BY <1>1, <1>3 DEF Undisturbed, Decided
<1>5. /\ Outcome(k, qp, lp, mp, s, cf, de)
      /\ \A known : Projected(k, qp, lp, s, known) = Projected(k, q, l, s, known)
  <2>1. Outcome(k, qp, lp, mp, s, cf, de)
    BY <1>2, <1>4, OutcomeSame
  <2>2. \A known : Projected(k, qp, lp, s, known) = Projected(k, q, l, s, known)
    BY <1>2, ProjectedSame
  <2> QED BY <2>1, <2>2
<1>6. /\ m.cleared[k] = DOMAIN v
      /\ m.rows[k] = Projected(k, q, l, s, DOMAIN pp \cup DOMAIN m.people)
  BY DEF Undisturbed, Cleared, Inserted
<1>7. mp.rows[k] = Projected(k, qp, lp, s, DOMAIN pp \cup DOMAIN mp.people)
  BY <1>5, <1>6
<1>8. \/ qp.at = "write" /\ k = qp.kind /\ KindWriteFails(k, qp, tdp, s, cf)
      \/ Outcome(k, qp, lp, WritesOf(k, qp, tdp, mp), s, cf, de)
  BY <1>3, <1>5
<1> QED BY <1>1, <1>6, <1>7, <1>8, Zenon DEF Undisturbed

\* A transaction that has not decided anything on a kind.
LEMMA Undecided ==
    ASSUME NEW q, NEW l, NEW td, NEW m, NEW s, NEW cf, NEW de, NEW v, NEW pp, NEW k, ~ Decided(q, k)
    PROVE  Undisturbed(k, q, l, td, m, s, cf, de, v, pp)
BY DEF Undisturbed, Decided, Cleared, Inserted

LEMMA UndecidedFresh ==
    ASSUME NEW q, NEW l, NEW td, NEW m, NEW pp, NEW st, NEW cf, NEW de, NEW vw, NEW ra,
           \A k : ~ Decided(q, k), Kinds \subseteq ra \/ PeopleUndisturbed(q, td, m, pp)
    PROVE  ThreadFresh(q, l, td, m, pp, st, cf, de, vw, ra)
BY Undecided DEF ThreadFresh

\* A transaction whose session and writes do not change, and that is not yet done with a kind.
LEMMA StillTheSame ==
    ASSUME NEW q, NEW qp, NEW l, NEW td, NEW tdp, NEW m, NEW mp, NEW s, NEW cf, NEW de, NEW v, NEW pp, NEW k,
           qp.op = q.op, qp.rec = q.rec, qp.kind = q.kind, q.op = "finalise" => q.rec \in Recordings,
           \A i \in DOMAIN cf : KindOf(i) = k, \A i \in DOMAIN de : KindOf(i) = k,
           ~ Done(q, k), Decided(q, k) /\ Decided(qp, k), q.at # "write" /\ qp.at # "write",
           mp.claims = m.claims, mp.conflicts = m.conflicts, mp.decisions = m.decisions,
           Undisturbed(k, q, l, td, m, s, cf, de, v, pp)
    PROVE  Outcome(k, qp, l, WritesOf(k, qp, tdp, mp), s, cf, de)
<1>1. WritesOf(k, q, td, m) = m /\ WritesOf(k, qp, tdp, mp) = mp
  BY DEF WritesOf
<1>2. OwnOf(qp, k) = OwnOf(q, k) /\ OwnOf(q, k) \subseteq OfKind(AllClaims, k)
  BY OwnIs DEF OwnOf
<1>3. Outcome(k, q, l, m, s, cf, de)
  BY <1>1 DEF Undisturbed
<1>4. /\ SameOfKind(k, l, l) /\ SameOfKind(k, m.claims, mp.claims)
      /\ SamePart(k, m.conflicts, mp.conflicts) /\ SamePart(k, m.decisions, mp.decisions)
  BY DEF SameOfKind, SamePart
<1> QED BY <1>1, <1>2, <1>3, <1>4, OutcomeSame

LEMMA ThreadIs ==
    ASSUME NEW t \in Threads, IInv
    PROVE  /\ RequestOK(req[t], recording, conflicts)
           /\ req[t] = Nobody => loaded[t] = None /\ todo[t] = NoWrites /\ made[t] = NoWrites
           /\ LoadedOK(req[t], loaded[t])
           /\ DecidedOK(req[t], todo[t], recording, conflicts)
           /\ MadeOK(req[t], made[t], recording, status, conflicts)
           /\ ThreadFresh(req[t], loaded[t], todo[t], made[t], people, status, conflicts, decisions, view, raced)
BY DEF IInv, ThreadInv, ThreadOK

LEMMA StoreIs ==
    ASSUME IInv
    PROVE  /\ StatusOK(recording, status) /\ PeopleOK(recording, people)
           /\ ConflictsOK(recording, conflicts, decisions) /\ ViewOK(view)
           /\ \A k \in Kinds \ raced :
                 KindOK(k, StatusPart(status, k), Part(conflicts, k), Part(decisions, k), view[k],
                        DOMAIN people, behind)
           /\ Kinds \subseteq raced \/ Sources(recording, people)
           /\ Shape
BY DEF IInv, StoreInv, ArchiveOK, Undisputed

\* The claims of a conflict are of recordings that are not being finalised.
LEMMA ConflictClaims ==
    ASSUME IInv, NEW i \in DOMAIN conflicts
    PROVE  /\ ConflictOK(i, conflicts[i], recording) /\ Fits(i, conflicts[i].claims)
           /\ \A c \in conflicts[i].claims :
                 /\ c \in OfKind(AllClaims, KindOf(i))
                 /\ recording[c.rec] \in {"archived", "deleted"}
<1>1. ConflictOK(i, conflicts[i], recording)
  BY StoreIs DEF ConflictsOK
<1> QED BY <1>1 DEF ConflictOK, Fits, OfKind

\* The column a step of a transaction writes.
LEMMA WritesWith ==
    ASSUME NEW m, WriteShape(m)
    PROVE  /\ \A P : LET mp == [m EXCEPT !.people = P]
                     IN  /\ WriteShape(mp) /\ mp.people = P /\ mp.claims = m.claims
                         /\ mp.conflicts = m.conflicts /\ mp.decisions = m.decisions
                         /\ mp.cleared = m.cleared /\ mp.rows = m.rows
           /\ \A P : LET mp == [m EXCEPT !.seen = P]
                     IN  /\ WriteShape(mp) /\ mp.people = m.people /\ mp.claims = m.claims
                         /\ mp.conflicts = m.conflicts /\ mp.decisions = m.decisions
                         /\ mp.cleared = m.cleared /\ mp.rows = m.rows /\ mp.seen = P
<1> DEFINE Fields == {"claims", "conflicts", "decisions", "people", "cleared", "seen", "rows"}
<1>0. IsFunction(m) /\ DOMAIN m = Fields
  BY DEF WriteShape
<1>1. ASSUME NEW P, NEW mp, mp = [m EXCEPT !.people = P]
      PROVE  /\ WriteShape(mp) /\ mp.people = P /\ mp.claims = m.claims
             /\ mp.conflicts = m.conflicts /\ mp.decisions = m.decisions
             /\ mp.cleared = m.cleared /\ mp.rows = m.rows
  <2>1. /\ IsFunction(mp) /\ DOMAIN mp = Fields /\ mp.people = P /\ mp.claims = m.claims
        /\ mp.conflicts = m.conflicts /\ mp.decisions = m.decisions
        /\ mp.cleared = m.cleared /\ mp.rows = m.rows
    BY <1>0, <1>1 DEF IsFunction
  <2> QED BY <2>1 DEF WriteShape
<1>2. ASSUME NEW P, NEW mp, mp = [m EXCEPT !.seen = P]
      PROVE  /\ WriteShape(mp) /\ mp.people = m.people /\ mp.claims = m.claims
             /\ mp.conflicts = m.conflicts /\ mp.decisions = m.decisions
             /\ mp.cleared = m.cleared /\ mp.rows = m.rows /\ mp.seen = P
  <2>1. /\ IsFunction(mp) /\ DOMAIN mp = Fields /\ mp.people = m.people /\ mp.claims = m.claims
        /\ mp.conflicts = m.conflicts /\ mp.decisions = m.decisions
        /\ mp.cleared = m.cleared /\ mp.rows = m.rows /\ mp.seen = P
    BY <1>0, <1>2 DEF IsFunction
  <2> QED BY <2>1 DEF WriteShape
<1> QED BY <1>1, <1>2

LEMMA UpdatePeopleStep ==
    ASSUME NEW t \in Threads, IInv, UpdatePeople(t)
    PROVE  IInv'
<1> DEFINE q  == req[t]
           qp == [req[t] EXCEPT !.at = "read"]
           td == todo[t]
           m  == made[t]
           mp == [made[t] EXCEPT !.people = todo[t].people]
<1>1. /\ UNCHANGED dbVars /\ q.op # "none" /\ q.at = "people" /\ recording[q.rec] = "pending"
      /\ req' = [req EXCEPT ![t] = qp] /\ made' = [made EXCEPT ![t] = mp]
      /\ UNCHANGED <<loaded, todo>>
  BY DEF UpdatePeople, Step, At, Active
<1>2. Moves(t, qp, loaded[t], td, mp)
  BY <1>1 DEF IInv, Shape, Moves
<1>3. /\ RequestOK(q, recording, conflicts) /\ LoadedOK(q, loaded[t])
      /\ DecidedOK(q, td, recording, conflicts) /\ MadeOK(q, m, recording, status, conflicts)
      /\ ThreadFresh(q, loaded[t], td, m, people, status, conflicts, decisions, view, raced)
  BY ThreadIs
<1>4. /\ qp.op = q.op /\ qp.at = "read" /\ qp.kind = q.kind /\ qp.rec = q.rec /\ qp.conf = q.conf
      /\ IsFunction(qp) /\ DOMAIN qp = DOMAIN q
  BY <1>3, RequestAt
<1>5. /\ q.op = "finalise" /\ q.rec \in Recordings /\ q.kind = "relationship" /\ q # Nobody
      /\ FinaliseOK(q, recording)
  BY <1>1, <1>3, RequestIs DEF ReviewOK, FinaliseOK
<1> HIDE DEF q, qp, td, m, mp
<1>6. qp # Nobody /\ RequestOK(qp, recording, conflicts)
  <2>1. FinaliseOK(qp, recording)
    BY <1>1, <1>4, <1>5 DEF FinaliseOK, Stages
  <2> QED BY <1>3, <1>4, <1>5, <2>1, NotNobody DEF RequestOK
<1>7. \A k : /\ ~ Decided(q, k) /\ ~ Decided(qp, k) /\ ~ Written(q, k) /\ ~ Written(qp, k)
             /\ ~ Cleared(q, k) /\ ~ Inserted(q, k) /\ OwnOf(qp, k) = OwnOf(q, k)
  BY <1>1, <1>4, <1>5 DEF Decided, Written, Cleared, Inserted, Done, OwnOf
<1>8. WriteShape(m)
  BY <1>3 DEF MadeOK
<1>9. /\ WriteShape(mp) /\ mp.people = td.people /\ mp.claims = m.claims
      /\ mp.conflicts = m.conflicts /\ mp.decisions = m.decisions
      /\ mp.cleared = m.cleared /\ mp.rows = m.rows
  BY <1>8, WritesWith DEF mp, m, td
<1>10. LoadedOK(qp, loaded[t])
  BY <1>3, <1>7 DEF LoadedOK
<1>11. DecidedOK(qp, td, recording, conflicts)
  BY <1>1, <1>3, <1>4 DEF DecidedOK, ConflictWritesOK, RowWriteOK
<1>12. MadeOK(qp, mp, recording, status, conflicts)
  <2>1. ConflictWritesOK(mp, qp, recording, conflicts)
    BY <1>3, <1>4, <1>9 DEF MadeOK, ConflictWritesOK, RowWriteOK
  <2>2. DOMAIN mp.people = MappedPeople(q.rec)
    BY <1>1, <1>3, <1>9 DEF DecidedOK
  <2>3. \A c : c \notin DOMAIN mp.claims
    BY <1>3, <1>7, <1>9 DEF MadeOK
  <2>4. \A i : i \notin DOMAIN mp.conflicts
    BY <1>3, <1>7, <1>9 DEF MadeOK
  <2>5. \A k \in Kinds : mp.cleared[k] = {} /\ mp.rows[k] = None
    BY <1>3, <1>7, <1>9 DEF MadeOK
  <2> QED BY <1>4, <1>5, <1>9, <2>1, <2>2, <2>3, <2>4, <2>5 DEF MadeOK
<1>13. ThreadOK(qp, loaded[t], td, mp, recording, status, conflicts)
  BY <1>6, <1>10, <1>11, <1>12 DEF ThreadOK
<1>14. ThreadFresh(qp, loaded[t], td, mp, people, status, conflicts, decisions, view, raced)
  <2>1. Kinds \subseteq raced \/ mp.people = Upserted(qp.rec, people)
    BY <1>1, <1>3, <1>4, <1>5, <1>9 DEF ThreadFresh, PeopleUndisturbed
  <2>2. Kinds \subseteq raced \/ PeopleUndisturbed(qp, td, mp, people)
    BY <1>4, <2>1 DEF PeopleUndisturbed
  <2> QED BY <1>7, <2>2, UndecidedFresh
<1> QED BY <1>2, <1>4, <1>13, <1>14, Continue DEF q

LEMMA BeginFinaliseStep ==
    ASSUME NEW t \in Threads, NEW r \in Recordings, IInv, BeginFinalise(t, r)
    PROVE  IInv'
<1> DEFINE qp == [Nobody EXCEPT !.op = "finalise", !.rec = r, !.kind = "relationship", !.at = "people"]
           td == [todo[t] EXCEPT !.people = UpsertPeople(r)]
<1>1. /\ UNCHANGED dbVars /\ req[t].op = "none" /\ recording[r] = "pending"
      /\ \A u \in Threads : req[u].rec # r
      /\ req' = [req EXCEPT ![t] = qp] /\ todo' = [todo EXCEPT ![t] = td]
      /\ UNCHANGED <<loaded, made>>
  BY DEF BeginFinalise, Active
<1>2. Moves(t, qp, loaded[t], td, made[t])
  BY <1>1 DEF IInv, Shape, Moves
<1>3. loaded[t] = None /\ todo[t] = NoWrites /\ made[t] = NoWrites
  BY <1>1, ThreadIs, RequestIs
<1>4. /\ qp.op = "finalise" /\ qp.rec = r /\ qp.kind = "relationship" /\ qp.at = "people"
      /\ IsFunction(qp) /\ DOMAIN qp = {"op", "at", "kind", "rec", "conf", "pref", "note"}
  BY DEF Nobody, IsFunction
<1>5. /\ WriteShape(td) /\ td.people = UpsertPeople(r) /\ td.claims = None
      /\ td.conflicts = None /\ td.decisions = None
  BY <1>3, NoWritesIs, WritesWith
<1> HIDE DEF qp, td
<1>6. qp # Nobody /\ RequestOK(qp, recording, conflicts)
  <2>1. FinaliseOK(qp, recording)
    BY <1>1, <1>4 DEF FinaliseOK, Stages, Kinds
  <2> QED BY <1>4, <2>1, NotNobody DEF RequestOK
<1>7. \A k : ~ Decided(qp, k) /\ ~ Written(qp, k) /\ ~ Cleared(qp, k) /\ ~ Inserted(qp, k)
  BY <1>4 DEF Decided, Written, Cleared, Inserted, Done
<1>8. LoadedOK(qp, None)
  BY <1>7, NoneIs DEF LoadedOK
<1>9. DecidedOK(qp, td, recording, conflicts)
  <2>1. ConflictWritesOK(td, qp, recording, conflicts)
    BY <1>5, NoneIs DEF ConflictWritesOK
  <2>2. DOMAIN td.people = MappedPeople(qp.rec)
    BY <1>4, <1>5 DEF UpsertPeople
  <2> QED BY <1>5, <2>1, <2>2, NoneIs DEF DecidedOK
<1>10. MadeOK(qp, NoWrites, recording, status, conflicts)
  <2>1. ConflictWritesOK(NoWrites, qp, recording, conflicts)
    BY NoWritesIs, NoneIs DEF ConflictWritesOK
  <2> QED BY <1>4, <2>1, NoWritesIs, NoneIs DEF MadeOK
<1>11. ThreadOK(qp, None, td, NoWrites, recording, status, conflicts)
  BY <1>6, <1>8, <1>9, <1>10 DEF ThreadOK
<1>12. ThreadFresh(qp, None, td, NoWrites, people, status, conflicts, decisions, view, raced)
  <2>1. td.people = Upserted(r, people)
    BY <1>5 DEF UpsertPeople, Upserted
  <2>2. Kinds \subseteq raced \/ PeopleUndisturbed(qp, td, NoWrites, people)
    BY <1>4, <2>1 DEF PeopleUndisturbed
  <2> QED BY <1>7, <2>2, UndecidedFresh
<1> QED BY <1>1, <1>2, <1>3, <1>4, <1>11, <1>12, LocalStep

\* The request at the next step of its kind.
LEMMA NextRequest ==
    ASSUME NEW q, NEW rc, NEW cf, RequestOK(q, rc, cf), q.op # "none", q.at # "people",
           NEW s \in Stages \ {"people", "read", "commit"}, NEW p, p = [q EXCEPT !.at = s]
    PROVE  RequestOK(p, rc, cf) /\ p # Nobody
<1>1. /\ p.op = q.op /\ p.at = s /\ p.kind = q.kind /\ p.rec = q.rec /\ p.conf = q.conf
      /\ IsFunction(p) /\ DOMAIN p = DOMAIN q /\ DOMAIN q = {"op", "at", "kind", "rec", "conf", "pref", "note"}
  BY RequestAt DEF RequestOK
<1>2. p # Nobody /\ q # Nobody
  BY <1>1, NotNobody
<1>3. CASE q.op = "finalise" /\ FinaliseOK(q, rc)
  <2>1. FinaliseOK(p, rc)
    BY <1>1, <1>3 DEF FinaliseOK
  <2> QED BY <1>1, <1>2, <1>3, <2>1 DEF RequestOK
<1>4. CASE q.op \in {"resolve", "dismiss", "reopen"} /\ ReviewOK(q, cf)
  <2>1. ReviewOK(p, cf)
    BY <1>1, <1>4 DEF ReviewOK
  <2> QED BY <1>1, <1>2, <1>4, <2>1 DEF RequestOK
<1> QED BY <1>2, <1>3, <1>4 DEF RequestOK

NewWrites(A, B, C) == [NoWrites EXCEPT !.claims = A, !.conflicts = B, !.decisions = C]

LEMMA WritesNew ==
    ASSUME NEW A, NEW B, NEW C, NEW w, w = NewWrites(A, B, C)
    PROVE  WriteShape(w) /\ w.claims = A /\ w.conflicts = B /\ w.decisions = C /\ w.people = None
<1> DEFINE Fields == {"claims", "conflicts", "decisions", "people", "cleared", "seen", "rows"}
<1>1. IsFunction(NoWrites) /\ DOMAIN NoWrites = Fields
  BY NoWritesIs DEF WriteShape
<1>2. /\ IsFunction(w) /\ DOMAIN w = Fields
      /\ w.claims = A /\ w.conflicts = B /\ w.decisions = C /\ w.people = NoWrites.people
      /\ w.cleared = NoWrites.cleared /\ w.rows = NoWrites.rows
  BY <1>1 DEF IsFunction, NewWrites
<1> QED BY <1>2, NoWritesIs DEF WriteShape

\* What a finalisation that reads the kind k plans to write is in order.
LEMMA ReadOK ==
    ASSUME NEW t \in Threads, IInv, NEW k \in Kinds, ReadsFirst(t, k), req[t].op = "finalise",
           NEW choice \in ConflictChoices(t, k), NEW w, w = Reconcile(t, k, choice),
           NEW td, Planned(td, w)
    PROVE  /\ DOMAIN w.loaded = Query(t, k) /\ \A c \in DOMAIN w.loaded : w.loaded[c] \in ClaimStatus
           /\ \A c \in DOMAIN td.claims : c \in OfKind(AllClaims, k) /\ td.claims[c] \in ClaimStatus
           /\ \A i \in DOMAIN td.conflicts : KindOf(i) = k
           /\ ConflictWritesOK(td, req[t], recording, conflicts)
<1>1. /\ Query(t, k) \subseteq OfKind(AllClaims, k)
      /\ Query(t, k) = Present(k, StatusPart(status, k)) \cup OwnOf(req[t], k)
      /\ \A i \in DOMAIN conflicts : Fits(i, conflicts[i].claims) /\ ConflictOK(i, conflicts[i], recording)
  BY QueryIs DEF ReadsFirst, ConflictsOK, ConflictOK
<1>2. /\ DOMAIN choice = ConflictGroups(Query(t, k))
      /\ \A g \in DOMAIN choice : /\ KindOf(Ids(choice)[g]) = k /\ Fits(Ids(choice)[g], g)
                                  /\ g \notin Fresh(choice)
                                     => Ids(choice)[g] = choice[g] /\ choice[g] \in DOMAIN conflicts
      /\ \A g, h \in DOMAIN choice : Ids(choice)[g] = Ids(choice)[h] => g = h
  <2>1. Query(t, k) \subseteq OfKind(AllClaims, k) /\ \A i \in DOMAIN conflicts : Fits(i, conflicts[i].claims)
    BY <1>1
  <2> QED BY <2>1, ChoiceIs
<1>3. Plans(t, k, choice, w)
  BY <1>2, ReconcileIs
<1>4. DOMAIN w.loaded = Query(t, k) /\ \A c \in DOMAIN w.loaded : w.loaded[c] \in ClaimStatus
  BY <1>3, ReconciledStatusIs DEF Plans
<1>5. \A c \in DOMAIN td.claims : c \in OfKind(AllClaims, k) /\ td.claims[c] \in ClaimStatus
  BY <1>1, <1>3, <1>4 DEF Plans, Planned
<1>6. Fresh(choice) \subseteq DOMAIN choice /\ Reopened(choice) \subseteq DOMAIN choice \ Fresh(choice)
  BY DEF Fresh, Reopened
<1>7. /\ DOMAIN td.conflicts = {Ids(choice)[g] : g \in Fresh(choice) \cup Reopened(choice)}
      /\ \A g \in Fresh(choice) : td.conflicts[Ids(choice)[g]] = OpenRow(g)
      /\ \A g \in Reopened(choice) :
            td.conflicts[Ids(choice)[g]] = Changed(conflicts[Ids(choice)[g]], Rows(choice)[g])
      /\ DOMAIN td.decisions = {Ids(choice)[g] : g \in Reopened(choice)}
  BY <1>3 DEF Plans, Planned
<1>8. ASSUME NEW g \in DOMAIN choice, NEW c \in g
      PROVE  c.rec = req[t].rec \/ recording[c.rec] \in {"archived", "deleted"}
  <2>1. c \in Query(t, k)
    BY <1>1, <1>2, GroupIs DEF OfKind
  <2>2. CASE c \in OwnOf(req[t], k)
    BY <2>2, OwnIs DEF ReadsFirst
  <2>3. CASE c \in Present(k, StatusPart(status, k))
    <3>1. c \in AllClaims /\ status[c] # "absent"
      BY <2>3, StatusPartIs DEF OfKind
    <3> QED BY <3>1, StoreIs DEF StatusOK
  <2> QED BY <1>1, <2>1, <2>2, <2>3
<1>9. ASSUME NEW g \in Fresh(choice)
      PROVE  RowWriteOK(Ids(choice)[g], td.conflicts[Ids(choice)[g]], req[t], recording, conflicts)
  <2>1. td.conflicts[Ids(choice)[g]] = OpenRow(g) /\ Fits(Ids(choice)[g], g)
    BY <1>2, <1>6, <1>7
  <2> QED BY <1>6, <1>8, <2>1, OpenRowIs DEF RowWriteOK
<1>10. ASSUME NEW g \in Reopened(choice)
       PROVE  RowWriteOK(Ids(choice)[g], td.conflicts[Ids(choice)[g]], req[t], recording, conflicts)
  <2> DEFINE i   == Ids(choice)[g]
             row == Rows(choice)[g]
  <2>1. g \in DOMAIN choice /\ i = choice[g] /\ i \in DOMAIN conflicts /\ Fits(i, g)
        /\ td.conflicts[i] = Changed(conflicts[i], row)
    BY <1>2, <1>6, <1>7
  <2>2. row = Reconciled(conflicts[i], g)
    BY <1>6, <2>1 DEF Rows, Fresh
  <2> HIDE DEF i, row
  <2>3. row.claims = g /\ (row = conflicts[i] \/ row = OpenRow(g)) /\ ConflictOK(i, conflicts[i], recording)
    BY <1>1, <2>1, <2>2, ReconciledIs
  <2>4. /\ IsFunction(row) /\ DOMAIN row = RowFields
        /\ IsFunction(conflicts[i]) /\ DOMAIN conflicts[i] = RowFields
        /\ row.status \in {"open", "resolved", "dismissed"} /\ row.preferred \subseteq AllClaims
    BY <2>3, OpenRowIs DEF ConflictOK
  <2>5. /\ IsFunction(Changed(conflicts[i], row)) /\ DOMAIN Changed(conflicts[i], row) \subseteq RowFields
        /\ \A a \in DOMAIN Changed(conflicts[i], row) : Changed(conflicts[i], row)[a] = row[a]
    BY <2>4, ChangedIs
  <2>6. RowWriteOK(i, Changed(conflicts[i], row), req[t], recording, conflicts)
    BY <1>8, <2>1, <2>3, <2>4, <2>5 DEF RowWriteOK
  <2> QED BY <2>1, <2>6 DEF i
<1>11. ConflictWritesOK(td, req[t], recording, conflicts)
  BY <1>7, <1>9, <1>10 DEF ConflictWritesOK
<1>12. \A i \in DOMAIN td.conflicts : KindOf(i) = k
  BY <1>2, <1>6, <1>7
<1> QED BY <1>4, <1>5, <1>11, <1>12

LEMMA ReadStep ==
    ASSUME NEW t \in Threads, IInv, ReadAndReconcile(t)
    PROVE  IInv'
<1> DEFINE q == req[t]
           qp == [req[t] EXCEPT !.at = "write"]
           k == req[t].kind
           m == made[t]
           l == loaded[t]
           s(kk) == StatusPart(status, kk)
<1>1. /\ q.op = "finalise" /\ q.at = "read" /\ UNCHANGED <<dbVars, made, reviews>>
      /\ req' = [req EXCEPT ![t] = qp]
  BY DEF ReadAndReconcile, At, Active, Step
<1>2. PICK choice \in ConflictChoices(t, k) :
         LET w == Reconcile(t, k, choice)
         IN  /\ loaded' = [loaded EXCEPT ![t] = Over(w.loaded, @)]
             /\ todo' = [todo EXCEPT ![t] = [NoWrites EXCEPT !.claims = w.claims,
                                               !.conflicts = w.conflicts, !.decisions = w.decisions]]
  BY DEF ReadAndReconcile, ConflictChoices
<1> DEFINE w  == Reconcile(t, k, choice)
           lp == Over(w.loaded, l)
           td == NewWrites(w.claims, w.conflicts, w.decisions)
<1>3. Moves(t, qp, lp, td, m)
  BY <1>1, <1>2 DEF IInv, Shape, Moves, NewWrites
<1>4. /\ RequestOK(q, recording, conflicts) /\ LoadedOK(q, l)
      /\ MadeOK(q, m, recording, status, conflicts)
      /\ ThreadFresh(q, l, todo[t], m, people, status, conflicts, decisions, view, raced)
  BY ThreadIs
<1>5. /\ q.rec \in Recordings /\ k \in Kinds /\ recording[q.rec] = "pending"
      /\ \A kk : OwnOf(q, kk) \subseteq OfKind(AllClaims, kk)
  BY <1>1, <1>4, RequestIs DEF FinaliseOK
<1>6. /\ qp.op = q.op /\ qp.at = "write" /\ qp.kind = k /\ qp.rec = q.rec /\ qp.conf = q.conf
  BY <1>4, RequestAt
<1>7. RequestOK(qp, recording, conflicts) /\ qp # Nobody
  BY <1>1, <1>4, NextRequest DEF Stages
<1>8. WriteShape(td) /\ Planned(td, w) /\ td.people = None
  BY WritesNew DEF Planned
<1>9. ReadsFirst(t, k)
  <2>1. \A c \in Query(t, k) : c \notin DOMAIN l
    <3>1. ~ Decided(q, k)
      BY <1>1 DEF Decided, Done
    <3>2. \A c \in Query(t, k) : c.type = k
      BY <1>5, QueryIs DEF OfKind
    <3> QED BY <1>4, <3>1, <3>2 DEF LoadedOK
  <2>2. \A i \in DOMAIN conflicts : conflicts[i].claims \cap OwnOf(q, k) = {}
    BY <1>5, ConflictClaims, OwnIs
  <2> QED BY <1>5, <2>1, <2>2, StoreIs DEF ReadsFirst
<1> HIDE DEF q, qp, k, m, l, w, lp, td
<1>10. /\ DOMAIN w.loaded = Query(t, k) /\ \A c \in DOMAIN w.loaded : w.loaded[c] \in ClaimStatus
       /\ \A c \in DOMAIN td.claims : c \in OfKind(AllClaims, k) /\ td.claims[c] \in ClaimStatus
       /\ \A i \in DOMAIN td.conflicts : KindOf(i) = k
       /\ ConflictWritesOK(td, q, recording, conflicts)
  BY <1>1, <1>5, <1>8, <1>9, ReadOK DEF q, w
<1>11. /\ \A kk : OwnOf(qp, kk) = OwnOf(q, kk) /\ (Decided(qp, kk) <=> Done(q, kk) \/ kk = k)
       /\ \A kk : /\ Written(qp, kk) <=> Done(q, kk)
                  /\ Cleared(qp, kk) <=> Done(q, kk)
                  /\ Inserted(qp, kk) <=> Done(q, kk)
                  /\ Done(qp, kk) <=> Done(q, kk)
                  /\ Decided(q, kk) <=> Done(q, kk)
                  /\ Written(q, kk) <=> Done(q, kk)
                  /\ Cleared(q, kk) <=> Done(q, kk)
                  /\ Inserted(q, kk) <=> Done(q, kk)
  BY <1>1, <1>6 DEF OwnOf, Decided, Written, Cleared, Inserted, Done, k, q
<1>12. Query(t, k) \subseteq OfKind(AllClaims, k) /\ OwnOf(q, k) \subseteq Query(t, k)
  BY <1>5, QueryIs DEF q
<1>13. LoadedOK(qp, lp)
  <2>1. IsFunction(lp) /\ DOMAIN lp = Query(t, k) \cup DOMAIN l
    BY <1>10 DEF lp, Over, IsFunction
  <2>2. \A c \in DOMAIN lp : lp[c] = IF c \in Query(t, k) THEN w.loaded[c] ELSE l[c]
    BY <1>10 DEF lp, Over
  <2>3. \A c \in DOMAIN lp : c \in AllClaims /\ lp[c] \in ClaimStatus /\ Decided(qp, c.type)
    BY <1>4, <1>10, <1>11, <1>12, <2>1, <2>2 DEF LoadedOK, OfKind
  <2>4. \A kk \in Kinds : Decided(qp, kk) => OwnOf(qp, kk) \subseteq DOMAIN lp
    BY <1>4, <1>11, <1>12, <2>1 DEF LoadedOK
  <2> QED BY <2>1, <2>3, <2>4 DEF LoadedOK
<1>14. DecidedOK(qp, td, recording, conflicts)
  <2>1. ConflictWritesOK(td, qp, recording, conflicts)
    BY <1>6, <1>10 DEF ConflictWritesOK, RowWriteOK
  <2> QED BY <1>6, <1>8, <1>10, <2>1 DEF DecidedOK
<1>15. MadeOK(qp, m, recording, status, conflicts)
  <2>1. ConflictWritesOK(m, qp, recording, conflicts)
    BY <1>4, <1>6 DEF MadeOK, ConflictWritesOK, RowWriteOK
  <2> QED BY <1>1, <1>4, <1>6, <1>11, <2>1 DEF MadeOK
<1>16. ThreadOK(qp, lp, td, m, recording, status, conflicts)
  BY <1>7, <1>13, <1>14, <1>15 DEF ThreadOK
<1>17. ASSUME NEW kk \in Kinds \ raced
       PROVE  Undisturbed(kk, qp, lp, td, m, s(kk), Part(conflicts, kk), Part(decisions, kk), view[kk], people)
  <2>1. CASE kk = k
    <3>1. Settled(k, StatusPart(status, k), Part(conflicts, k), Part(decisions, k))
      BY <2>1, StoreIs DEF KindOK
    <3>2. \/ KindWriteFails(k, qp, td, StatusPart(status, k), Part(conflicts, k))
          \/ Outcome(k, qp, lp, td, StatusPart(status, k), Part(conflicts, k), Part(decisions, k))
      BY <1>5, <1>8, <1>9, <1>11, <3>1, ReadSettles DEF q, w, l, lp
    <3>3. WritesOf(k, qp, td, m) = td /\ ~ Done(q, k)
      BY <1>1, <1>6 DEF WritesOf, Done, k, q
    <3> QED BY <1>6, <1>11, <2>1, <3>2, <3>3, Zenon DEF Undisturbed
  <2>2. CASE kk # k /\ ~ Done(q, kk)
    BY <1>11, <2>2, Undecided
  <2>3. CASE kk # k /\ Done(q, kk)
    <3>1. SameOfKind(kk, l, lp)
      BY <1>10, <1>12, <2>3 DEF SameOfKind, lp, Over, OfKind
    <3>2. /\ SameOfKind(kk, m.claims, m.claims) /\ SamePart(kk, m.conflicts, m.conflicts)
          /\ SamePart(kk, m.decisions, m.decisions)
      BY DEF SameOfKind, SamePart
    <3>3. /\ \A i \in DOMAIN Part(conflicts, kk) : KindOf(i) = kk
          /\ \A i \in DOMAIN Part(decisions, kk) : KindOf(i) = kk
      BY DEF Part
    <3>4. Undisturbed(kk, q, l, todo[t], m, s(kk), Part(conflicts, kk), Part(decisions, kk), view[kk], people)
      BY <1>1, <1>4 DEF ThreadFresh, WorksOn
    <3> HIDE DEF s
    <3> QED BY <1>5, <1>6, <1>11, <2>3, <3>1, <3>2, <3>3, <3>4, DoneStays
  <2> QED BY <2>1, <2>2, <2>3
<1>18. ThreadFresh(qp, lp, td, m, people, status, conflicts, decisions, view, raced)
  BY <1>1, <1>4, <1>6, <1>17 DEF ThreadFresh, PeopleUndisturbed
<1> QED BY <1>3, <1>6, <1>16, <1>18, Continue DEF q

LEMMA PartsIn ==
    \A f, k : \A i \in DOMAIN Part(f, k) : KindOf(i) = k
BY DEF Part

LEMMA SameItself ==
    \A k, f : SameOfKind(k, f, f) /\ SamePart(k, f, f)
BY DEF SameOfKind, SamePart

MadeWith(m, td) ==
    [m EXCEPT !.claims = Over(td.claims, m.claims), !.conflicts = Over(td.conflicts, m.conflicts),
              !.decisions = Over(td.decisions, m.decisions)]

LEMMA WritesThree ==
    ASSUME NEW m, WriteShape(m), NEW td, NEW p, p = MadeWith(m, td)
    PROVE  /\ WriteShape(p) /\ p.claims = Over(td.claims, m.claims)
           /\ p.conflicts = Over(td.conflicts, m.conflicts) /\ p.decisions = Over(td.decisions, m.decisions)
           /\ p.people = m.people /\ p.cleared = m.cleared /\ p.rows = m.rows
<1> DEFINE Fields == {"claims", "conflicts", "decisions", "people", "cleared", "seen", "rows"}
<1>1. IsFunction(m) /\ DOMAIN m = Fields
  BY DEF WriteShape
<1>2. /\ IsFunction(p) /\ DOMAIN p = Fields
      /\ p.claims = Over(td.claims, m.claims) /\ p.conflicts = Over(td.conflicts, m.conflicts)
      /\ p.decisions = Over(td.decisions, m.decisions) /\ p.people = m.people
      /\ p.cleared = m.cleared /\ p.rows = m.rows
  BY <1>1 DEF IsFunction, MadeWith
<1> QED BY <1>2 DEF WriteShape

LEMMA WriteStep ==
    ASSUME NEW t \in Threads, IInv, WriteClaims(t)
    PROVE  IInv'
<1> DEFINE q == req[t]
           qp == [req[t] EXCEPT !.at = "clear"]
           k == req[t].kind
           m == made[t]
           td == todo[t]
           l == loaded[t]
           mp == MadeWith(m, td)
           s(kk) == StatusPart(status, kk)
<1>1. /\ q.op # "none" /\ q.at = "write" /\ UNCHANGED <<dbVars, loaded, reviews>> /\ ~ WriteFails(t)
      /\ req' = [req EXCEPT ![t] = qp] /\ todo' = [todo EXCEPT ![t] = NoWrites]
      /\ made' = [made EXCEPT ![t].claims = Over(todo[t].claims, @),
                              ![t].conflicts = Over(todo[t].conflicts, @),
                              ![t].decisions = Over(todo[t].decisions, @)]
  BY DEF WriteClaims, At, Active, Step
<1>2. made' = [made EXCEPT ![t] = mp]
  BY <1>1 DEF IInv, Shape, MadeWith
<1>3. Moves(t, qp, l, NoWrites, mp)
  BY <1>1, <1>2 DEF IInv, Shape, Moves
<1>4. /\ RequestOK(q, recording, conflicts) /\ LoadedOK(q, l)
      /\ DecidedOK(q, td, recording, conflicts)
      /\ MadeOK(q, m, recording, status, conflicts)
      /\ ThreadFresh(q, l, td, m, people, status, conflicts, decisions, view, raced)
  BY ThreadIs
<1>5. /\ k \in Kinds /\ (q.op = "finalise" => q.rec \in Recordings)
      /\ \A kk : OwnOf(q, kk) \subseteq OfKind(AllClaims, kk)
  BY <1>1, <1>4, RequestIs
<1>6. /\ qp.op = q.op /\ qp.at = "clear" /\ qp.kind = k /\ qp.rec = q.rec /\ qp.conf = q.conf
  BY <1>4, RequestAt
<1>7. RequestOK(qp, recording, conflicts) /\ qp # Nobody
  BY <1>1, <1>4, NextRequest DEF Stages
<1>8. WriteShape(m)
  BY <1>4 DEF MadeOK
<1>9. /\ WriteShape(mp) /\ mp.claims = Over(td.claims, m.claims)
      /\ mp.conflicts = Over(td.conflicts, m.conflicts) /\ mp.decisions = Over(td.decisions, m.decisions)
      /\ mp.people = m.people /\ mp.cleared = m.cleared /\ mp.rows = m.rows
  BY <1>8, WritesThree
<1>10. \A c \in DOMAIN td.claims : status[c] # "absent" \/ c \in OwnOf(q, c.type)
  BY <1>1 DEF WriteFails, Own, OwnOf
<1>11. ~ KindWriteFails(k, q, td, s(k), Part(conflicts, k))
  <2>1. \A c \in OfKind(DOMAIN td.claims, k) : s(k)[c] # "absent" \/ c \in OwnOf(q, k)
    <3> TAKE c \in OfKind(DOMAIN td.claims, k)
    <3>1. c \in OfKind(AllClaims, k) /\ c \in DOMAIN td.claims /\ c.type = k
      BY <1>4 DEF DecidedOK, OfKind
    <3>2. s(k)[c] = status[c]
      BY <3>1, StatusPartIs
    <3> QED BY <1>10, <3>1, <3>2
  <2>2. \A i \in DOMAIN td.conflicts : i \in DOMAIN Part(conflicts, k) => i \in DOMAIN td.decisions
    BY <1>1 DEF WriteFails, Part
  <2> QED BY <2>1, <2>2 DEF KindWriteFails
<1> HIDE DEF q, qp, k, m, l, td, mp, s
<1>12. /\ \A kk : OwnOf(qp, kk) = OwnOf(q, kk) /\ (Decided(qp, kk) <=> Done(q, kk) \/ kk = k)
       /\ \A kk : /\ Written(qp, kk) <=> (Done(q, kk) \/ kk = k)
                  /\ Cleared(qp, kk) <=> Done(q, kk)
                  /\ Inserted(qp, kk) <=> Done(q, kk)
                  /\ Done(qp, kk) <=> Done(q, kk)
                  /\ Decided(q, kk) <=> (Done(q, kk) \/ kk = k)
                  /\ Written(q, kk) <=> Done(q, kk)
                  /\ Cleared(q, kk) <=> Done(q, kk)
                  /\ Inserted(q, kk) <=> Done(q, kk)
       /\ ~ Done(q, k)
  BY <1>1, <1>6 DEF OwnOf, Decided, Written, Cleared, Inserted, Done, k, q
<1>13. LoadedOK(qp, l)
  BY <1>4, <1>12 DEF LoadedOK
<1>14. DecidedOK(qp, NoWrites, recording, conflicts)
  <2>1. ConflictWritesOK(NoWrites, qp, recording, conflicts)
    BY NoWritesIs, NoneIs DEF ConflictWritesOK
  <2> QED BY <1>6, <2>1, NoWritesIs, NoneIs DEF DecidedOK
<1>15. MadeOK(qp, mp, recording, status, conflicts)
  <2>1. ASSUME NEW c \in DOMAIN mp.claims
        PROVE  /\ c \in AllClaims /\ mp.claims[c] \in ClaimStatus
               /\ status[c] # "absent" \/ c \in OwnOf(qp, c.type)
               /\ Written(qp, c.type)
    <3>1. CASE c \in DOMAIN td.claims
      <4>1. c \in OfKind(AllClaims, k) /\ td.claims[c] \in ClaimStatus
        BY <1>1, <1>4, <3>1 DEF DecidedOK, k, q
      <4>2. mp.claims[c] = td.claims[c]
        BY <1>9, <3>1 DEF Over
      <4> QED BY <1>10, <1>12, <3>1, <4>1, <4>2 DEF OfKind
    <3>2. CASE c \notin DOMAIN td.claims
      <4>1. c \in DOMAIN m.claims /\ mp.claims[c] = m.claims[c]
        BY <1>9, <3>2, <2>1 DEF Over
      <4> QED BY <1>4, <1>12, <4>1 DEF MadeOK
    <3> QED BY <3>1, <3>2
  <2>2. ASSUME NEW i \in DOMAIN mp.conflicts
        PROVE  Written(qp, KindOf(i)) /\ RowWriteOK(i, mp.conflicts[i], qp, recording, conflicts)
    <3>1. CASE i \in DOMAIN td.conflicts
      <4>1. KindOf(i) = k /\ RowWriteOK(i, td.conflicts[i], q, recording, conflicts)
        BY <1>4, <3>1 DEF DecidedOK, ConflictWritesOK, k, q
      <4>2. mp.conflicts[i] = td.conflicts[i]
        BY <1>9, <3>1 DEF Over
      <4> QED BY <1>6, <1>12, <4>1, <4>2 DEF RowWriteOK
    <3>2. CASE i \notin DOMAIN td.conflicts
      <4>1. i \in DOMAIN m.conflicts /\ mp.conflicts[i] = m.conflicts[i]
        BY <1>9, <3>2, <2>2 DEF Over
      <4>2. Written(q, KindOf(i)) /\ RowWriteOK(i, m.conflicts[i], q, recording, conflicts)
        BY <1>4, <4>1 DEF MadeOK, ConflictWritesOK
      <4> QED BY <1>6, <1>12, <4>1, <4>2 DEF RowWriteOK
    <3> QED BY <3>1, <3>2
  <2>3. DOMAIN mp.decisions \subseteq DOMAIN mp.conflicts
    BY <1>4, <1>9 DEF MadeOK, DecidedOK, ConflictWritesOK, Over
  <2>4. ConflictWritesOK(mp, qp, recording, conflicts)
    BY <2>2, <2>3 DEF ConflictWritesOK
  <2>5. IF qp.op = "finalise" /\ qp.at # "people" THEN DOMAIN mp.people = MappedPeople(qp.rec)
        ELSE mp.people = None
    BY <1>1, <1>4, <1>6, <1>9 DEF MadeOK
  <2>6. \A kk \in Kinds : /\ ~ Cleared(qp, kk) => mp.cleared[kk] = {}
                          /\ ~ Inserted(qp, kk) => mp.rows[kk] = None
    BY <1>4, <1>9, <1>12 DEF MadeOK
  <2> QED BY <1>9, <2>1, <2>2, <2>4, <2>5, <2>6 DEF MadeOK
<1>16. ThreadOK(qp, l, NoWrites, mp, recording, status, conflicts)
  BY <1>7, <1>13, <1>14, <1>15 DEF ThreadOK
<1>17. ASSUME NEW kk \in Kinds \ raced, WorksOn(q, kk)
       PROVE  Undisturbed(kk, qp, l, NoWrites, mp, s(kk), Part(conflicts, kk), Part(decisions, kk), view[kk], people)
  <2>0. Undisturbed(kk, q, l, td, m, s(kk), Part(conflicts, kk), Part(decisions, kk), view[kk], people)
    BY <1>4, <1>17 DEF ThreadFresh, s
  <2>1. CASE kk = k
    <3>1. Outcome(k, q, l, td, s(k), Part(conflicts, k), Part(decisions, k))
      <4>1. WritesOf(k, q, td, m) = td
        BY <1>1 DEF WritesOf, k, q
      <4> QED BY <1>11, <1>12, <2>0, <2>1, <4>1, Zenon DEF Undisturbed
    <3>2. SameOfKind(k, td.claims, mp.claims)
      <4>1. \A c \in OfKind(AllClaims, k) : c \notin DOMAIN m.claims
        BY <1>4, <1>12 DEF MadeOK, OfKind
      <4> QED BY <1>9, <4>1 DEF SameOfKind, Over
    <3>3. SamePart(k, td.conflicts, mp.conflicts) /\ SamePart(k, td.decisions, mp.decisions)
      <4>1. \A i : KindOf(i) = k => i \notin DOMAIN m.conflicts /\ i \notin DOMAIN m.decisions
        BY <1>4, <1>12 DEF MadeOK, ConflictWritesOK
      <4> QED BY <1>9, <4>1 DEF SamePart, Over
    <3>4. Outcome(k, qp, l, mp, s(k), Part(conflicts, k), Part(decisions, k))
      BY <1>5, <1>12, <3>1, <3>2, <3>3, PartsIn, SameItself, OutcomeSame DEF q
    <3>5. WritesOf(k, qp, NoWrites, mp) = mp
      BY <1>6 DEF WritesOf
    <3> QED BY <1>6, <1>12, <2>1, <3>4, <3>5, Zenon DEF Undisturbed
  <2>2. CASE kk # k /\ ~ Done(q, kk)
    BY <1>12, <2>2, Undecided
  <2>3. CASE kk # k /\ Done(q, kk)
    <3>1. \A c \in OfKind(AllClaims, kk) : c \notin DOMAIN td.claims
      BY <1>4, <2>3 DEF DecidedOK, OfKind, k, q
    <3>2. \A i : KindOf(i) = kk => i \notin DOMAIN td.conflicts /\ i \notin DOMAIN td.decisions
      BY <1>4, <2>3 DEF DecidedOK, ConflictWritesOK, k, q
    <3>3. /\ SameOfKind(kk, m.claims, mp.claims) /\ SamePart(kk, m.conflicts, mp.conflicts)
          /\ SamePart(kk, m.decisions, mp.decisions)
      BY <1>9, <3>1, <3>2 DEF SameOfKind, SamePart, Over
    <3> QED BY <1>5, <1>6, <1>9, <1>12, <2>0, <2>3, <3>3, PartsIn, SameItself, DoneStays
  <2> QED BY <2>1, <2>2, <2>3
<1>18. ThreadFresh(qp, l, NoWrites, mp, people, status, conflicts, decisions, view, raced)
  <2>1. \A kk : WorksOn(qp, kk) <=> WorksOn(q, kk)
    BY <1>6 DEF WorksOn, k, q
  <2>2. Kinds \subseteq raced \/ PeopleUndisturbed(qp, NoWrites, mp, people)
    BY <1>1, <1>4, <1>6, <1>9 DEF ThreadFresh, PeopleUndisturbed
  <2> QED BY <1>17, <2>1, <2>2 DEF ThreadFresh, s
<1> QED BY <1>3, <1>6, <1>16, <1>18, Continue DEF q

LEMMA WaitsStep ==
    ASSUME NEW t \in Threads, IInv, ClearWaits(t)
    PROVE  IInv'
<1> DEFINE q == req[t]
           qp == [req[t] EXCEPT !.at = "clearing"]
           k == req[t].kind
           m == made[t]
           td == todo[t]
           tdp == [todo[t] EXCEPT !.seen = DOMAIN view[req[t].kind]]
           l == loaded[t]
           s(kk) == StatusPart(status, kk)
<1>1. /\ q.op # "none" /\ q.at = "clear" /\ UNCHANGED <<dbVars, loaded, made, reviews>>
      /\ req' = [req EXCEPT ![t] = qp] /\ todo' = [todo EXCEPT ![t] = tdp]
  BY DEF ClearWaits, At, Active, Step
<1>2. Moves(t, qp, l, tdp, m)
  BY <1>1 DEF IInv, Shape, Moves
<1>3. /\ RequestOK(q, recording, conflicts) /\ LoadedOK(q, l)
      /\ DecidedOK(q, td, recording, conflicts)
      /\ MadeOK(q, m, recording, status, conflicts)
      /\ ThreadFresh(q, l, td, m, people, status, conflicts, decisions, view, raced)
  BY ThreadIs
<1>4. /\ k \in Kinds /\ (q.op = "finalise" => q.rec \in Recordings)
  BY <1>1, <1>3, RequestIs
<1>5. /\ qp.op = q.op /\ qp.at = "clearing" /\ qp.kind = k /\ qp.rec = q.rec /\ qp.conf = q.conf
  BY <1>3, RequestAt
<1>6. RequestOK(qp, recording, conflicts) /\ qp # Nobody
  BY <1>1, <1>3, NextRequest DEF Stages
<1>7. WriteShape(td)
  BY <1>3 DEF DecidedOK
<1>8. /\ WriteShape(tdp) /\ tdp.claims = td.claims /\ tdp.conflicts = td.conflicts
      /\ tdp.decisions = td.decisions /\ tdp.seen = DOMAIN view[k]
  BY <1>7, WritesWith
<1> HIDE DEF q, qp, k, m, l, td, tdp, s
<1>9. /\ \A kk : OwnOf(qp, kk) = OwnOf(q, kk)
      /\ \A kk : /\ Decided(qp, kk) <=> (Done(q, kk) \/ kk = k)
                 /\ Written(qp, kk) <=> (Done(q, kk) \/ kk = k)
                 /\ Cleared(qp, kk) <=> Done(q, kk)
                 /\ Inserted(qp, kk) <=> Done(q, kk)
                 /\ Done(qp, kk) <=> Done(q, kk)
                 /\ Decided(q, kk) <=> (Done(q, kk) \/ kk = k)
                 /\ Written(q, kk) <=> (Done(q, kk) \/ kk = k)
                 /\ Cleared(q, kk) <=> Done(q, kk)
                 /\ Inserted(q, kk) <=> Done(q, kk)
      /\ ~ Done(q, k)
  BY <1>1, <1>5 DEF OwnOf, Decided, Written, Cleared, Inserted, Done, k, q
<1>10. LoadedOK(qp, l)
  BY <1>3, <1>9 DEF LoadedOK
<1>11. DecidedOK(qp, tdp, recording, conflicts)
  <2>1. td.claims = None /\ td.conflicts = None /\ td.decisions = None
    BY <1>1, <1>3 DEF DecidedOK
  <2>2. ConflictWritesOK(tdp, qp, recording, conflicts)
    BY <1>8, <2>1, NoneIs DEF ConflictWritesOK
  <2> QED BY <1>5, <1>8, <2>1, <2>2, NoneIs DEF DecidedOK
<1>12. MadeOK(qp, m, recording, status, conflicts)
  <2>1. ConflictWritesOK(m, qp, recording, conflicts)
    BY <1>3, <1>5 DEF MadeOK, ConflictWritesOK, RowWriteOK
  <2> QED BY <1>1, <1>3, <1>5, <1>9, <2>1 DEF MadeOK
<1>13. ThreadOK(qp, l, tdp, m, recording, status, conflicts)
  BY <1>6, <1>10, <1>11, <1>12 DEF ThreadOK
<1>14. ASSUME NEW kk \in Kinds \ raced, WorksOn(q, kk)
       PROVE  Undisturbed(kk, qp, l, tdp, m, s(kk), Part(conflicts, kk), Part(decisions, kk), view[kk], people)
  <2>0. Undisturbed(kk, q, l, td, m, s(kk), Part(conflicts, kk), Part(decisions, kk), view[kk], people)
    BY <1>3, <1>14 DEF ThreadFresh, s
  <2>1. CASE kk = k
    <3>0. q.kind = k
      BY DEF q, k
    <3>1. Outcome(k, qp, l, WritesOf(k, qp, tdp, m), s(k), Part(conflicts, k), Part(decisions, k))
      BY <1>1, <1>4, <1>5, <1>9, <2>0, <2>1, <3>0, PartsIn, StillTheSame
    <3> QED BY <1>8, <1>9, <2>1, <3>1, Zenon DEF Undisturbed
  <2>2. CASE kk # k /\ ~ Done(q, kk)
    BY <1>9, <2>2, Undecided
  <2>3. CASE kk # k /\ Done(q, kk)
    BY <1>4, <1>5, <1>9, <2>0, <2>3, PartsIn, SameItself, DoneStays
  <2> QED BY <2>1, <2>2, <2>3
<1>15. ThreadFresh(qp, l, tdp, m, people, status, conflicts, decisions, view, raced)
  <2>1. \A kk : WorksOn(qp, kk) <=> WorksOn(q, kk)
    BY <1>5 DEF WorksOn, k, q
  <2>2. Kinds \subseteq raced \/ PeopleUndisturbed(qp, tdp, m, people)
    BY <1>1, <1>3, <1>5 DEF ThreadFresh, PeopleUndisturbed
  <2> QED BY <1>14, <2>1, <2>2 DEF ThreadFresh, s
<1> QED BY <1>2, <1>5, <1>13, <1>15, Continue DEF q

\* What a transaction has written, with the rows of the kind k it has deleted or inserted.
MadeCleared(m, k, R) == [m EXCEPT !.cleared[k] = R]
MadeRows(m, k, P)    == [m EXCEPT !.rows[k] = P]

LEMMA WritesCleared ==
    ASSUME NEW m, WriteShape(m), NEW k \in Kinds, NEW R, NEW p, p = MadeCleared(m, k, R)
    PROVE  /\ WriteShape(p) /\ p.claims = m.claims /\ p.conflicts = m.conflicts
           /\ p.decisions = m.decisions /\ p.people = m.people /\ p.rows = m.rows
           /\ p.cleared[k] = R /\ \A kk \in Kinds \ {k} : p.cleared[kk] = m.cleared[kk]
<1> DEFINE Fields == {"claims", "conflicts", "decisions", "people", "cleared", "seen", "rows"}
<1>1. IsFunction(m) /\ DOMAIN m = Fields /\ IsFunction(m.cleared) /\ DOMAIN m.cleared = Kinds
  BY DEF WriteShape
<1>2. /\ IsFunction(p) /\ DOMAIN p = Fields
      /\ p.claims = m.claims /\ p.conflicts = m.conflicts /\ p.decisions = m.decisions
      /\ p.people = m.people /\ p.rows = m.rows /\ p.cleared = [m.cleared EXCEPT ![k] = R]
  BY <1>1 DEF IsFunction, MadeCleared
<1>3. /\ IsFunction(p.cleared) /\ DOMAIN p.cleared = Kinds
      /\ p.cleared[k] = R /\ \A kk \in Kinds \ {k} : p.cleared[kk] = m.cleared[kk]
  BY <1>1, <1>2 DEF IsFunction
<1> QED BY <1>2, <1>3 DEF WriteShape

LEMMA WritesRows ==
    ASSUME NEW m, WriteShape(m), NEW k \in Kinds, NEW P, NEW p, p = MadeRows(m, k, P),
           \A x \in DOMAIN P : P[x] \subseteq OfKind(AllClaims, k)
    PROVE  /\ WriteShape(p) /\ p.claims = m.claims /\ p.conflicts = m.conflicts
           /\ p.decisions = m.decisions /\ p.people = m.people /\ p.cleared = m.cleared
           /\ p.rows[k] = P /\ \A kk \in Kinds \ {k} : p.rows[kk] = m.rows[kk]
<1> DEFINE Fields == {"claims", "conflicts", "decisions", "people", "cleared", "seen", "rows"}
<1>1. IsFunction(m) /\ DOMAIN m = Fields /\ IsFunction(m.rows) /\ DOMAIN m.rows = Kinds
  BY DEF WriteShape
<1>2. /\ IsFunction(p) /\ DOMAIN p = Fields
      /\ p.claims = m.claims /\ p.conflicts = m.conflicts /\ p.decisions = m.decisions
      /\ p.people = m.people /\ p.cleared = m.cleared /\ p.rows = [m.rows EXCEPT ![k] = P]
  BY <1>1 DEF IsFunction, MadeRows
<1>3. /\ IsFunction(p.rows) /\ DOMAIN p.rows = Kinds
      /\ p.rows[k] = P /\ \A kk \in Kinds \ {k} : p.rows[kk] = m.rows[kk]
  BY <1>1, <1>2 DEF IsFunction
<1>4. \A kk \in Kinds : \A x \in DOMAIN p.rows[kk] : p.rows[kk][x] \subseteq OfKind(AllClaims, kk)
  <2> SUFFICES ASSUME NEW kk \in Kinds, NEW x \in DOMAIN p.rows[kk]
               PROVE  p.rows[kk][x] \subseteq OfKind(AllClaims, kk)
    OBVIOUS
  <2>1. CASE kk = k
    BY <1>3, <2>1
  <2>2. CASE kk # k
    <3>1. p.rows[kk] = m.rows[kk]
      BY <1>3, <2>2
    <3> QED BY <3>1 DEF WriteShape
  <2> QED BY <2>1, <2>2
<1> QED BY <1>2, <1>3, <1>4 DEF WriteShape

LEMMA ClearStep ==
    ASSUME NEW t \in Threads, IInv, Clear(t)
    PROVE  IInv'
<1> DEFINE q == req[t]
           qp == [req[t] EXCEPT !.at = "insert"]
           k == req[t].kind
           m == made[t]
           td == todo[t]
           rows == IF req[t].at = "clearing" THEN todo[t].seen ELSE DOMAIN view[req[t].kind]
           gone == rows \cap DOMAIN view[req[t].kind]
           mp == MadeCleared(m, k, gone)
           l == loaded[t]
           s(kk) == StatusPart(status, kk)
<1>1. /\ q.op # "none" /\ q.at \in {"clear", "clearing"} /\ UNCHANGED <<dbVars, loaded, reviews>>
      /\ req' = [req EXCEPT ![t] = qp] /\ todo' = [todo EXCEPT ![t] = NoWrites]
      /\ made' = [made EXCEPT ![t].cleared[k] = gone]
  BY DEF Clear, At, Active, Step
<1>2. made' = [made EXCEPT ![t] = mp]
  <2> HIDE DEF gone
  <2> QED BY <1>1 DEF IInv, Shape, MadeCleared
<1>2a. Moves(t, qp, l, NoWrites, mp)
  BY <1>1, <1>2 DEF IInv, Shape, Moves
<1>3. /\ RequestOK(q, recording, conflicts) /\ LoadedOK(q, l)
      /\ DecidedOK(q, td, recording, conflicts)
      /\ MadeOK(q, m, recording, status, conflicts)
      /\ ThreadFresh(q, l, td, m, people, status, conflicts, decisions, view, raced)
  BY ThreadIs
<1>4. /\ k \in Kinds /\ (q.op = "finalise" => q.rec \in Recordings)
  BY <1>1, <1>3, RequestIs
<1>5. /\ qp.op = q.op /\ qp.at = "insert" /\ qp.kind = k /\ qp.rec = q.rec /\ qp.conf = q.conf
  BY <1>3, RequestAt
<1>6. RequestOK(qp, recording, conflicts) /\ qp # Nobody
  BY <1>1, <1>3, NextRequest DEF Stages
<1>7. WriteShape(m)
  BY <1>3 DEF MadeOK
<1>8. /\ WriteShape(mp) /\ mp.claims = m.claims /\ mp.conflicts = m.conflicts
      /\ mp.decisions = m.decisions /\ mp.people = m.people /\ mp.rows = m.rows
      /\ mp.cleared[k] = gone /\ \A kk \in Kinds \ {k} : mp.cleared[kk] = m.cleared[kk]
  <2> HIDE DEF gone, k, m
  <2> QED BY <1>4, <1>7, WritesCleared
<1> HIDE DEF q, qp, k, m, l, td, mp, s, gone, rows
<1>9. /\ \A kk : OwnOf(qp, kk) = OwnOf(q, kk)
      /\ \A kk : /\ Decided(qp, kk) <=> (Done(q, kk) \/ kk = k)
                 /\ Written(qp, kk) <=> (Done(q, kk) \/ kk = k)
                 /\ Cleared(qp, kk) <=> (Done(q, kk) \/ kk = k)
                 /\ Inserted(qp, kk) <=> Done(q, kk)
                 /\ Done(qp, kk) <=> Done(q, kk)
                 /\ Decided(q, kk) <=> (Done(q, kk) \/ kk = k)
                 /\ Written(q, kk) <=> (Done(q, kk) \/ kk = k)
                 /\ Cleared(q, kk) <=> Done(q, kk)
                 /\ Inserted(q, kk) <=> Done(q, kk)
      /\ ~ Done(q, k)
  BY <1>1, <1>5 DEF OwnOf, Decided, Written, Cleared, Inserted, Done, k, q
<1>10. LoadedOK(qp, l)
  BY <1>3, <1>9 DEF LoadedOK
<1>11. DecidedOK(qp, NoWrites, recording, conflicts)
  <2>1. ConflictWritesOK(NoWrites, qp, recording, conflicts)
    BY NoWritesIs, NoneIs DEF ConflictWritesOK
  <2> QED BY <1>5, <2>1, NoWritesIs, NoneIs DEF DecidedOK
<1>12. MadeOK(qp, mp, recording, status, conflicts)
  <2>1. ConflictWritesOK(mp, qp, recording, conflicts)
    BY <1>3, <1>5, <1>8 DEF MadeOK, ConflictWritesOK, RowWriteOK
  <2>2. \A kk \in Kinds : /\ ~ Cleared(qp, kk) => mp.cleared[kk] = {}
                          /\ ~ Inserted(qp, kk) => mp.rows[kk] = None
    BY <1>3, <1>8, <1>9 DEF MadeOK
  <2>3. \A c \in DOMAIN mp.claims :
          /\ c \in AllClaims /\ mp.claims[c] \in ClaimStatus
          /\ status[c] # "absent" \/ c \in OwnOf(qp, c.type)
          /\ Written(qp, c.type)
    BY <1>3, <1>8, <1>9 DEF MadeOK
  <2>4. \A i \in DOMAIN mp.conflicts : Written(qp, KindOf(i))
    BY <1>3, <1>8, <1>9 DEF MadeOK
  <2>5. IF qp.op = "finalise" /\ qp.at # "people" THEN DOMAIN mp.people = MappedPeople(qp.rec)
        ELSE mp.people = None
    BY <1>1, <1>3, <1>5, <1>8 DEF MadeOK
  <2> QED BY <1>8, <2>1, <2>2, <2>3, <2>4, <2>5 DEF MadeOK
<1>13. ThreadOK(qp, l, NoWrites, mp, recording, status, conflicts)
  BY <1>6, <1>10, <1>11, <1>12 DEF ThreadOK
<1>14. ASSUME NEW kk \in Kinds \ raced, WorksOn(q, kk)
       PROVE  Undisturbed(kk, qp, l, NoWrites, mp, s(kk), Part(conflicts, kk), Part(decisions, kk), view[kk], people)
  <2>0. Undisturbed(kk, q, l, td, m, s(kk), Part(conflicts, kk), Part(decisions, kk), view[kk], people)
    BY <1>3, <1>14 DEF ThreadFresh, s
  <2>1. CASE kk = k
    <3>0. q.kind = k
      BY DEF q, k
    <3>1. Outcome(k, qp, l, WritesOf(k, qp, NoWrites, mp), s(k), Part(conflicts, k), Part(decisions, k))
      BY <1>1, <1>4, <1>5, <1>8, <1>9, <2>0, <2>1, <3>0, PartsIn, StillTheSame
    <3>2. mp.cleared[k] = DOMAIN view[k]
      <4>1. CASE q.at = "clearing"
        <5>1. td.seen = DOMAIN view[k]
          BY <2>0, <2>1, <3>0, <4>1, Zenon DEF Undisturbed
        <5> QED BY <1>8, <4>1, <5>1 DEF gone, rows, q, td, k
      <4>2. CASE q.at = "clear"
        BY <1>8, <4>2 DEF gone, rows, q, k
      <4> QED BY <1>1, <4>1, <4>2
    <3> QED BY <1>5, <1>9, <2>1, <3>1, <3>2, Zenon DEF Undisturbed
  <2>2. CASE kk # k /\ ~ Done(q, kk)
    BY <1>9, <2>2, Undecided
  <2>3. CASE kk # k /\ Done(q, kk)
    BY <1>4, <1>5, <1>8, <1>9, <2>0, <2>3, PartsIn, SameItself, DoneStays
  <2> QED BY <2>1, <2>2, <2>3
<1>15. ThreadFresh(qp, l, NoWrites, mp, people, status, conflicts, decisions, view, raced)
  <2>1. \A kk : WorksOn(qp, kk) <=> WorksOn(q, kk)
    BY <1>5 DEF WorksOn, k, q
  <2>2. Kinds \subseteq raced \/ PeopleUndisturbed(qp, NoWrites, mp, people)
    BY <1>1, <1>3, <1>5, <1>8 DEF ThreadFresh, PeopleUndisturbed
  <2> QED BY <1>14, <2>1, <2>2 DEF ThreadFresh, s
<1> QED BY <1>2a, <1>5, <1>13, <1>15, Continue DEF q

LEMMA ProjectionIs ==
    ASSUME NEW t, NEW k \in Kinds, NEW q, q = req[t], q.op = "finalise" => q.rec \in Recordings,
           NEW l, l = loaded[t], NEW known, known = DOMAIN people \cup DOMAIN made[t].people
    PROVE  /\ Projection(t, k) = Projected(k, q, l, StatusPart(status, k), known)
           /\ \A x \in DOMAIN Projection(t, k) : Projection(t, k)[x] \subseteq OfKind(AllClaims, k)
<1> DEFINE s == StatusPart(status, k)
           sources == {c \in Query(t, k) : Materializes(t, c)}
           from == {c \in Seen(k, q, s) : Session(l, s, c) \in {"active", "accepted"} /\ ClaimIsGrounded(c)}
<1>1. Query(t, k) = Seen(k, q, s) /\ Query(t, k) \subseteq OfKind(AllClaims, k)
  BY QueryIs DEF Seen
<1>2. \A c \in Query(t, k) : Status(t, c) = Session(l, s, c)
  BY <1>1, StatusPartIs DEF Status, Session
<1>3. sources = from
  BY <1>1, <1>2 DEF Materializes
<1>4. sources \subseteq OfKind(AllClaims, k)
  BY <1>1
<1>5. Projection(t, k) = [x \in (IF k = "relationship" THEN {ProjectionKey(c) : c \in sources} ELSE known) |->
                            {c \in sources : ProjectionKey(c) = x}]
  BY Zenon DEF Projection
<1>6. Projected(k, q, l, s, known)
      = [x \in (IF k = "relationship" THEN {ProjectionKey(c) : c \in from} ELSE known) |->
           {c \in from : ProjectionKey(c) = x}]
  BY Zenon DEF Projected
<1> HIDE DEF sources, from, s
<1>7. Projection(t, k) = Projected(k, q, l, s, known)
  BY <1>3, <1>5, <1>6
<1>8. \A x \in DOMAIN Projection(t, k) : Projection(t, k)[x] \subseteq OfKind(AllClaims, k)
  BY <1>4, <1>5
<1> QED BY <1>7, <1>8 DEF s

\* The request after the projection is rebuilt.
AfterInsert(q) ==
    IF q.op = "finalise" /\ q.kind = "relationship" THEN [q EXCEPT !.kind = "attribute", !.at = "read"]
    ELSE [q EXCEPT !.at = "commit"]

LEMMA InsertedRequest ==
    ASSUME NEW q, NEW rc, NEW cf, RequestOK(q, rc, cf), q.op # "none", q.at = "insert", NEW p,
           p = AfterInsert(q)
    PROVE  /\ RequestOK(p, rc, cf) /\ p # Nobody /\ p.op = q.op /\ p.rec = q.rec
           /\ IF q.op = "finalise" /\ q.kind = "relationship" THEN p.kind = "attribute" /\ p.at = "read"
              ELSE p.kind = q.kind /\ p.at = "commit"
<1>1. q # Nobody /\ IsFunction(q) /\ DOMAIN q = {"op", "at", "kind", "rec", "conf", "pref", "note"}
  BY NotNobody DEF RequestOK
<1>2. /\ p.op = q.op /\ p.rec = q.rec /\ p.conf = q.conf /\ IsFunction(p) /\ DOMAIN p = DOMAIN q
      /\ IF q.op = "finalise" /\ q.kind = "relationship" THEN p.kind = "attribute" /\ p.at = "read"
         ELSE p.kind = q.kind /\ p.at = "commit"
  BY <1>1 DEF IsFunction, AfterInsert
<1>3. p # Nobody
  BY <1>2, NotNobody
<1>4. CASE q.op = "finalise" /\ FinaliseOK(q, rc)
  <2>1. FinaliseOK(p, rc)
    BY <1>2, <1>4 DEF FinaliseOK, Stages, Kinds
  <2> QED BY <1>1, <1>2, <1>3, <1>4, <2>1 DEF RequestOK
<1>5. CASE q.op \in {"resolve", "dismiss", "reopen"} /\ ReviewOK(q, cf)
  <2>1. ReviewOK(p, cf)
    BY <1>2, <1>5 DEF ReviewOK, Stages
  <2> QED BY <1>1, <1>2, <1>3, <1>5, <2>1 DEF RequestOK
<1> QED BY <1>1, <1>2, <1>3, <1>4, <1>5 DEF RequestOK

LEMMA InsertStep ==
    ASSUME NEW t \in Threads, IInv, Insert(t)
    PROVE  IInv'
<1> DEFINE q == req[t]
           k == req[t].kind
           qp == AfterInsert(req[t])
           m == made[t]
           td == todo[t]
           P == Projection(t, k)
           mp == MadeRows(m, k, P)
           l == loaded[t]
           s(kk) == StatusPart(status, kk)
           known == DOMAIN people \cup DOMAIN made[t].people
<1>1. /\ q.op # "none" /\ q.at = "insert" /\ UNCHANGED <<dbVars, loaded, todo, reviews>>
      /\ req' = [req EXCEPT ![t] = qp]
      /\ made' = [made EXCEPT ![t].rows[k] = P]
  BY DEF Insert, At, Active, AfterInsert
<1>2. made' = [made EXCEPT ![t] = mp]
  <2> HIDE DEF P
  <2> QED BY <1>1 DEF IInv, Shape, MadeRows
<1>2a. Moves(t, qp, l, td, mp)
  <2> HIDE DEF qp
  <2> QED BY <1>1, <1>2 DEF IInv, Shape, Moves
<1>3. /\ RequestOK(q, recording, conflicts) /\ LoadedOK(q, l)
      /\ DecidedOK(q, td, recording, conflicts)
      /\ MadeOK(q, m, recording, status, conflicts)
      /\ ThreadFresh(q, l, td, m, people, status, conflicts, decisions, view, raced)
  BY ThreadIs
<1>4. /\ k \in Kinds /\ (q.op = "finalise" => q.rec \in Recordings)
      /\ OwnOf(q, k) \subseteq OfKind(AllClaims, k)
  BY <1>1, <1>3, RequestIs
<1>5. /\ RequestOK(qp, recording, conflicts) /\ qp # Nobody /\ qp.op = q.op /\ qp.rec = q.rec
      /\ IF q.op = "finalise" /\ k = "relationship" THEN qp.kind = "attribute" /\ qp.at = "read"
         ELSE qp.kind = k /\ qp.at = "commit"
  <2>1. /\ RequestOK(qp, recording, conflicts) /\ qp # Nobody /\ qp.op = q.op /\ qp.rec = q.rec
        /\ IF q.op = "finalise" /\ q.kind = "relationship" THEN qp.kind = "attribute" /\ qp.at = "read"
           ELSE qp.kind = q.kind /\ qp.at = "commit"
    BY <1>1, <1>3, InsertedRequest
  <2> QED BY <2>1
<1>6. WriteShape(m)
  BY <1>3 DEF MadeOK
<1>7. /\ P = Projected(k, q, l, s(k), known)
      /\ \A x \in DOMAIN P : P[x] \subseteq OfKind(AllClaims, k)
  BY <1>4, ProjectionIs
<1>8. /\ WriteShape(mp) /\ mp.claims = m.claims /\ mp.conflicts = m.conflicts
      /\ mp.decisions = m.decisions /\ mp.people = m.people /\ mp.cleared = m.cleared
      /\ mp.rows[k] = P /\ \A kk \in Kinds \ {k} : mp.rows[kk] = m.rows[kk]
  <2>1. k \in Kinds /\ \A x \in DOMAIN P : P[x] \subseteq OfKind(AllClaims, k)
    BY <1>4, <1>7
  <2> HIDE DEF P, k, m
  <2> QED BY <1>6, <2>1, WritesRows
<1>9. known = DOMAIN people \cup DOMAIN mp.people
  BY <1>8
<1> HIDE DEF q, qp, k, m, l, td, mp, s, P, known
<1>10. /\ \A kk : OwnOf(qp, kk) = OwnOf(q, kk)
       /\ \A kk : /\ Decided(qp, kk) <=> (Done(q, kk) \/ kk = k)
                  /\ Written(qp, kk) <=> (Done(q, kk) \/ kk = k)
                  /\ Cleared(qp, kk) <=> (Done(q, kk) \/ kk = k)
                  /\ Inserted(qp, kk) <=> (Done(q, kk) \/ kk = k)
                  /\ Decided(q, kk) <=> (Done(q, kk) \/ kk = k)
                  /\ Written(q, kk) <=> (Done(q, kk) \/ kk = k)
                  /\ Cleared(q, kk) <=> (Done(q, kk) \/ kk = k)
                  /\ Inserted(q, kk) <=> Done(q, kk)
       /\ ~ Done(q, k)
  <2>1. q.kind = k
    BY DEF q, k
  <2>2. CASE q.op = "finalise" /\ k = "relationship"
    BY <1>1, <1>5, <2>1, <2>2 DEF OwnOf, Decided, Written, Cleared, Inserted, Done
  <2>3. CASE ~ (q.op = "finalise" /\ k = "relationship")
    BY <1>1, <1>5, <2>1, <2>3 DEF OwnOf, Decided, Written, Cleared, Inserted, Done
  <2> QED BY <2>2, <2>3
<1>11. \A kk : Done(q, kk) => Done(qp, kk)
  BY <1>5 DEF Done, k, q
<1>12. LoadedOK(qp, l)
  BY <1>3, <1>10 DEF LoadedOK
<1>13. td.claims = None /\ td.conflicts = None /\ td.decisions = None /\ qp.at \notin {"write", "people"}
  BY <1>1, <1>3, <1>5 DEF DecidedOK
<1>14. DecidedOK(qp, td, recording, conflicts)
  <2>1. ConflictWritesOK(td, qp, recording, conflicts)
    BY <1>13, NoneIs DEF ConflictWritesOK
  <2>2. WriteShape(td)
    BY <1>3 DEF DecidedOK
  <2> QED BY <1>13, <2>1, <2>2, NoneIs DEF DecidedOK
<1>15. MadeOK(qp, mp, recording, status, conflicts)
  <2>1. ConflictWritesOK(mp, qp, recording, conflicts)
    BY <1>3, <1>5, <1>8 DEF MadeOK, ConflictWritesOK, RowWriteOK
  <2>2. \A kk \in Kinds : /\ ~ Cleared(qp, kk) => mp.cleared[kk] = {}
                          /\ ~ Inserted(qp, kk) => mp.rows[kk] = None
    BY <1>3, <1>8, <1>10 DEF MadeOK
  <2>3. \A c \in DOMAIN mp.claims :
          /\ c \in AllClaims /\ mp.claims[c] \in ClaimStatus
          /\ status[c] # "absent" \/ c \in OwnOf(qp, c.type)
          /\ Written(qp, c.type)
    BY <1>3, <1>8, <1>10 DEF MadeOK
  <2>4. \A i \in DOMAIN mp.conflicts : Written(qp, KindOf(i))
    BY <1>3, <1>8, <1>10 DEF MadeOK
  <2>5. IF qp.op = "finalise" /\ qp.at # "people" THEN DOMAIN mp.people = MappedPeople(qp.rec)
        ELSE mp.people = None
    BY <1>1, <1>3, <1>5, <1>8 DEF MadeOK
  <2> QED BY <1>8, <2>1, <2>2, <2>3, <2>4, <2>5 DEF MadeOK
<1>16. ThreadOK(qp, l, td, mp, recording, status, conflicts)
  BY <1>5, <1>12, <1>14, <1>15 DEF ThreadOK
<1>17. ASSUME NEW kk \in Kinds \ raced, WorksOn(q, kk)
       PROVE  Undisturbed(kk, qp, l, td, mp, s(kk), Part(conflicts, kk), Part(decisions, kk), view[kk], people)
  <2>0. Undisturbed(kk, q, l, td, m, s(kk), Part(conflicts, kk), Part(decisions, kk), view[kk], people)
    BY <1>3, <1>17 DEF ThreadFresh, s
  <2>1. CASE kk = k
    <3>1. Outcome(k, q, l, m, s(k), Part(conflicts, k), Part(decisions, k))
      <4>1. WritesOf(k, q, td, m) = m
        BY <1>1 DEF WritesOf
      <4> QED BY <1>1, <1>10, <2>0, <2>1, <4>1 DEF Undisturbed
    <3>2. /\ SameOfKind(k, m.claims, mp.claims) /\ SamePart(k, m.conflicts, mp.conflicts)
          /\ SamePart(k, m.decisions, mp.decisions)
      BY <1>8, SameItself
    <3>3. Outcome(k, qp, l, mp, s(k), Part(conflicts, k), Part(decisions, k))
      BY <1>4, <1>10, <3>1, <3>2, PartsIn, SameItself, OutcomeSame
    <3>4. WritesOf(k, qp, td, mp) = mp
      BY <1>13 DEF WritesOf
    <3>5. mp.cleared[k] = DOMAIN view[k]
      BY <1>8, <1>10, <2>0, <2>1 DEF Undisturbed
    <3>6. Projected(k, qp, l, s(k), known) = Projected(k, q, l, s(k), known)
      BY <1>4, <1>10, SameItself, ProjectedSame
    <3>7. mp.rows[k] = Projected(k, qp, l, s(k), DOMAIN people \cup DOMAIN mp.people)
      BY <1>7, <1>8, <1>9, <3>6
    <3>8. qp.at # "clearing"
      BY <1>5
    <3> QED BY <2>1, <3>3, <3>4, <3>5, <3>7, <3>8, Zenon DEF Undisturbed
  <2>2. CASE kk # k /\ ~ Done(q, kk)
    BY <1>10, <2>2, Undecided
  <2>3. CASE kk # k /\ Done(q, kk)
    BY <1>4, <1>5, <1>8, <1>10, <1>11, <2>0, <2>3, PartsIn, SameItself, DoneStays
  <2> QED BY <2>1, <2>2, <2>3
<1>18. ThreadFresh(qp, l, td, mp, people, status, conflicts, decisions, view, raced)
  <2>1. ASSUME NEW kk \in Kinds \ raced, WorksOn(qp, kk), ~ WorksOn(q, kk) PROVE FALSE
    BY <1>1, <1>5, <2>1 DEF WorksOn, k, q
  <2>2. Kinds \subseteq raced \/ PeopleUndisturbed(qp, td, mp, people)
    BY <1>1, <1>3, <1>5, <1>8, <1>13 DEF ThreadFresh, PeopleUndisturbed
  <2> QED BY <1>17, <2>1, <2>2 DEF ThreadFresh, s
<1> QED BY <1>2a, <1>5, <1>16, <1>18, Continue DEF q

-----------------------------------------------------------------------------
(* Reviewers' decisions.                                                   *)

ReviewRequest(op, i, pref, note) ==
    [Nobody EXCEPT !.op = op, !.conf = i, !.kind = KindOf(i), !.pref = pref, !.note = note, !.at = "write"]

ReviewOps == {"resolve", "dismiss", "reopen"}

LEMMA ReviewRequestIs ==
    ASSUME NEW op \in ReviewOps, NEW i \in DOMAIN conflicts, NEW pref, NEW note,
           NEW q, q = ReviewRequest(op, i, pref, note)
    PROVE  /\ q.op = op /\ q.at = "write" /\ q.kind = KindOf(i) /\ q.conf = i /\ q # Nobody
           /\ RequestOK(q, recording, conflicts)
           /\ \A k : OwnOf(q, k) = {} /\ (Decided(q, k) <=> k = KindOf(i))
           /\ \A k : ~ Written(q, k) /\ ~ Cleared(q, k) /\ ~ Inserted(q, k) /\ ~ Done(q, k)
           /\ \A k : WorksOn(q, k) <=> k = KindOf(i)
<1>1. /\ q.op = op /\ q.at = "write" /\ q.kind = KindOf(i) /\ q.conf = i
      /\ IsFunction(q) /\ DOMAIN q = {"op", "at", "kind", "rec", "conf", "pref", "note"}
  BY DEF ReviewRequest, Nobody, IsFunction
<1>2. q.op \in {"resolve", "dismiss", "reopen"} /\ q.op # "finalise" /\ q.op # "none"
  BY <1>1 DEF ReviewOps
<1>3. RequestOK(q, recording, conflicts)
  BY <1>1, <1>2 DEF RequestOK, ReviewOK, Stages
<1> QED BY <1>1, <1>2, <1>3, NotNobody DEF OwnOf, Decided, Written, Cleared, Inserted, Done, WorksOn

\* A review begins with what it has decided to write.
LEMMA ReviewBegins ==
    ASSUME NEW t \in Threads, IInv, NEW op \in ReviewOps, NEW i \in DOMAIN conflicts, NEW pref, NEW note,
           NEW q, q = ReviewRequest(op, i, pref, note), NEW l, NEW td,
           Moves(t, q, l, td, made[t]), ~ Active(t),
           IsFunction(l), \A c \in DOMAIN l : c \in conflicts[i].claims /\ l[c] \in ClaimStatus,
           DecidedOK(q, td, recording, conflicts),
           KindOf(i) \notin raced
           => Outcome(KindOf(i), q, l, td, StatusPart(status, KindOf(i)), Part(conflicts, KindOf(i)),
                      Part(decisions, KindOf(i)))
    PROVE  IInv'
<1>1. /\ q.op = op /\ q.at = "write" /\ q.kind = KindOf(i) /\ q.conf = i /\ q # Nobody
      /\ RequestOK(q, recording, conflicts)
      /\ \A k : OwnOf(q, k) = {} /\ (Decided(q, k) <=> k = KindOf(i))
      /\ \A k : ~ Written(q, k) /\ ~ Cleared(q, k) /\ ~ Inserted(q, k) /\ ~ Done(q, k)
      /\ \A k : WorksOn(q, k) <=> k = KindOf(i)
  BY ReviewRequestIs
<1>2. q.op # "finalise"
  BY <1>1 DEF ReviewOps
<1>3. made[t] = NoWrites
  BY ThreadIs, RequestIs DEF Active
<1>4. LoadedOK(q, l)
  <2>1. \A c \in conflicts[i].claims : c \in AllClaims /\ c.type = KindOf(i)
    BY ConflictClaims DEF OfKind
  <2> QED BY <1>1, <2>1 DEF LoadedOK
<1>5. MadeOK(q, NoWrites, recording, status, conflicts)
  <2>1. ConflictWritesOK(NoWrites, q, recording, conflicts)
    BY NoWritesIs, NoneIs DEF ConflictWritesOK
  <2> QED BY <1>2, <2>1, NoWritesIs, NoneIs DEF MadeOK
<1>6. ThreadOK(q, l, td, NoWrites, recording, status, conflicts)
  BY <1>1, <1>4, <1>5 DEF ThreadOK
<1>7. ASSUME NEW k \in Kinds \ raced, WorksOn(q, k)
      PROVE  Undisturbed(k, q, l, td, NoWrites, StatusPart(status, k), Part(conflicts, k),
                         Part(decisions, k), view[k], people)
  <2>1. k = KindOf(i)
    BY <1>1, <1>7
  <2>2. Outcome(k, q, l, td, StatusPart(status, k), Part(conflicts, k), Part(decisions, k))
    BY <1>7, <2>1
  <2>3. WritesOf(k, q, td, NoWrites) = td
    BY <1>1, <2>1 DEF WritesOf
  <2>4. q.at # "clearing"
    BY <1>1
  <2> QED BY <1>1, <2>2, <2>3, <2>4, Zenon DEF Undisturbed
<1>8. ThreadFresh(q, l, td, NoWrites, people, status, conflicts, decisions, view, raced)
  BY <1>2, <1>7 DEF ThreadFresh, PeopleUndisturbed
<1> QED BY <1>2, <1>3, <1>6, <1>8, LocalStep

\* A row that replaces the one of conflict i.
Replaces(i, row) ==
    /\ IsFunction(row) /\ DOMAIN row = RowFields /\ row # conflicts[i]
    /\ row.claims = conflicts[i].claims /\ row.status \in {"open", "resolved", "dismissed"}
    /\ row.preferred \subseteq row.claims /\ \A c, d \in row.preferred : c = d

There(i) == conflicts[i].claims \cap Stored

LEMMA ThereIs ==
    ASSUME IInv, NEW i \in DOMAIN conflicts, NEW k, k = KindOf(i)
    PROVE  /\ There(i) = conflicts[i].claims \cap Present(k, StatusPart(status, k))
           /\ \A c \in There(i) : /\ c \in OfKind(AllClaims, k) /\ status[c] \in ClaimStatus
                                  /\ StatusPart(status, k)[c] = status[c]
<1>1. \A c \in conflicts[i].claims : c \in OfKind(AllClaims, k) /\ c \in AllClaims
  BY ConflictClaims DEF OfKind
<1>2. /\ Present(k, StatusPart(status, k)) = {c \in OfKind(AllClaims, k) : status[c] # "absent"}
      /\ \A c \in OfKind(AllClaims, k) : StatusPart(status, k)[c] = status[c]
  BY StatusPartIs
<1>3. \A c \in AllClaims : status[c] # "absent" => status[c] \in ClaimStatus
  BY StoreIs DEF StatusOK
<1> QED BY <1>1, <1>2, <1>3 DEF There, Stored

LEMMA ClaimStatusOfConflict ==
    ASSUME NEW row, NEW c
    PROVE  ConflictStatus(row, c) \in ClaimStatus
BY ConflictStatusIs DEF ClaimStatus

\* What a decision writes.
DecisionLoaded(i, row) == [c \in There(i) |-> ConflictStatus(row, c)]
DecisionWrites(i, action, row) ==
    NewWrites([c \in {d \in There(i) : DecisionLoaded(i, row)[d] # status[d]} |-> DecisionLoaded(i, row)[c]],
              [j \in {i} |-> Changed(conflicts[j], row)], [j \in {i} |-> Decision(action, row)])

LEMMA DecisionWritesAre ==
    ASSUME NEW i, NEW action, NEW row, NEW td, td = DecisionWrites(i, action, row)
    PROVE  /\ WriteShape(td)
           /\ DOMAIN td.claims = {d \in There(i) : ConflictStatus(row, d) # status[d]}
           /\ \A c \in DOMAIN td.claims : td.claims[c] = ConflictStatus(row, c)
           /\ DOMAIN td.conflicts = {i} /\ td.conflicts[i] = Changed(conflicts[i], row)
           /\ DOMAIN td.decisions = {i}
           /\ td.decisions[i].status = row.status /\ td.decisions[i].preferred = row.preferred
<1> DEFINE A == [c \in {d \in There(i) : DecisionLoaded(i, row)[d] # status[d]} |-> DecisionLoaded(i, row)[c]]
           B == [j \in {i} |-> Changed(conflicts[j], row)]
           C == [j \in {i} |-> Decision(action, row)]
<1>1. DOMAIN A = {d \in There(i) : ConflictStatus(row, d) # status[d]}
      /\ \A c \in DOMAIN A : A[c] = ConflictStatus(row, c)
  BY DEF DecisionLoaded
<1>2. DOMAIN B = {i} /\ B[i] = Changed(conflicts[i], row) /\ DOMAIN C = {i} /\ C[i] = Decision(action, row)
  OBVIOUS
<1>3. td = NewWrites(A, B, C)
  BY DEF DecisionWrites
<1> HIDE DEF A, B, C
<1>4. WriteShape(td) /\ td.claims = A /\ td.conflicts = B /\ td.decisions = C
  BY <1>3, WritesNew
<1>5. C[i].status = row.status /\ C[i].preferred = row.preferred
  BY <1>2 DEF Decision
<1> QED BY <1>1, <1>2, <1>4, <1>5

LEMMA DecisionOutcome ==
    ASSUME IInv, NEW i \in DOMAIN conflicts, NEW k, k = KindOf(i), k \notin raced, NEW row, Replaces(i, row),
           NEW action, NEW td, td = DecisionWrites(i, action, row), NEW l, l = DecisionLoaded(i, row),
           NEW q, OwnOf(q, k) = {}
    PROVE  Outcome(k, q, l, td, StatusPart(status, k), Part(conflicts, k), Part(decisions, k))
<1> DEFINE s == StatusPart(status, k)
           cf == Part(conflicts, k)
           de == Part(decisions, k)
           ns == NextStatus(k, q, l, td, s)
           ncf == NextConflicts(k, td, cf)
           nde == NextDecisions(k, td, de)
<1>1. Settled(k, s, cf, de)
  BY StoreIs, KindOfIs DEF KindOK
<1>2. /\ i \in DOMAIN cf /\ cf[i] = conflicts[i]
      /\ \A j \in DOMAIN cf : KindOf(j) = k
      /\ Fits(i, cf[i].claims) /\ IsFunction(cf[i]) /\ DOMAIN cf[i] = RowFields
  BY ConflictClaims DEF Part, ConflictOK
<1>3. /\ There(i) = cf[i].claims \cap Present(k, s)
      /\ \A c \in There(i) : c \in OfKind(AllClaims, k) /\ s[c] = status[c]
  BY <1>2, ThereIs
<1>4. /\ DOMAIN td.claims = {d \in There(i) : ConflictStatus(row, d) # status[d]}
      /\ \A c \in DOMAIN td.claims : td.claims[c] = ConflictStatus(row, c)
      /\ DOMAIN td.conflicts = {i} /\ td.conflicts[i] = Changed(conflicts[i], row)
      /\ DOMAIN td.decisions = {i}
      /\ td.decisions[i].status = row.status /\ td.decisions[i].preferred = row.preferred
  BY DecisionWritesAre
<1>5. Over(Changed(cf[i], row), cf[i]) = row
  BY <1>2, ChangedIs DEF Replaces
<1>6. \A c \in OfKind(AllClaims, k) :
         ns[c] = IF c \in DOMAIN td.claims THEN td.claims[c]
                 ELSE IF c \in OwnOf(q, k) THEN Session(l, s, c) ELSE s[c]
  BY DEF NextStatus
<1>7. /\ DOMAIN ncf = DOMAIN cf \cup {j \in DOMAIN td.conflicts : KindOf(j) = k}
      /\ \A j \in DOMAIN ncf : ncf[j] = IF j \notin DOMAIN td.conflicts THEN cf[j]
                                        ELSE IF j \in DOMAIN cf THEN Over(td.conflicts[j], cf[j])
                                        ELSE td.conflicts[j]
  BY DEF NextConflicts
<1>8. /\ DOMAIN nde = DOMAIN de \cup {j \in DOMAIN td.decisions : KindOf(j) = k}
      /\ \A j \in DOMAIN nde : nde[j] = IF j \in DOMAIN td.decisions THEN td.decisions[j] ELSE de[j]
  BY DEF NextDecisions
<1>9. \A c \in There(i) : c \in DOMAIN l /\ l[c] = ConflictStatus(row, c)
  BY DEF DecisionLoaded
<1>10. \A c \in DOMAIN l : c \in There(i)
  BY DEF DecisionLoaded
<1> HIDE DEF s, cf, de, ns, ncf, nde
<1>11. \A c \in OfKind(AllClaims, k) :
          ns[c] = IF c \in cf[i].claims \cap Present(k, s) THEN ConflictStatus(row, c) ELSE s[c]
  BY <1>3, <1>4, <1>6
<1>12. DecisionTaken(k, s, cf, de, i, row, ns, ncf, nde)
  <2>1. DOMAIN ncf = DOMAIN cf /\ ncf[i] = row /\ \A j \in DOMAIN cf \ {i} : ncf[j] = cf[j]
    BY <1>2, <1>4, <1>5, <1>7
  <2>2. /\ DOMAIN nde = DOMAIN de \cup {i} /\ nde[i] = td.decisions[i]
        /\ \A j \in DOMAIN de \ {i} : nde[j] = de[j]
    BY <1>2, <1>4, <1>8
  <2> QED BY <1>4, <1>11, <2>1, <2>2 DEF DecisionTaken
<1>13. Settled(k, ns, ncf, nde) /\ BackWithConflict(k, s, ns, cf, ncf)
  BY <1>1, <1>2, <1>12, DecisionSettles DEF Replaces
<1>14. SessionIsNext(k, q, l, s, ns)
  <2>1. \A c \in Seen(k, q, s) : c \in Present(k, s) /\ c \in OfKind(AllClaims, k)
    BY DEF Seen, Present
  <2>2. \A c \in Seen(k, q, s) : Session(l, s, c) = ns[c]
    BY <1>3, <1>9, <1>10, <1>11, <2>1 DEF Session
  <2> QED BY <2>2 DEF SessionIsNext
<1> QED BY <1>13, <1>14, Zenon DEF Outcome, s, cf, de, ns, ncf, nde

LEMMA RepeatOutcome ==
    ASSUME IInv, NEW k \in Kinds, k \notin raced,
           NEW l, \A c \in DOMAIN l : c \in OfKind(AllClaims, k) => l[c] = status[c],
           NEW q, OwnOf(q, k) = {}
    PROVE  Outcome(k, q, l, NoWrites, StatusPart(status, k), Part(conflicts, k), Part(decisions, k))
<1> DEFINE s == StatusPart(status, k)
           cf == Part(conflicts, k)
           de == Part(decisions, k)
           ns == NextStatus(k, q, l, NoWrites, s)
           ncf == NextConflicts(k, NoWrites, cf)
           nde == NextDecisions(k, NoWrites, de)
<1>1. Settled(k, s, cf, de)
  BY StoreIs DEF KindOK
<1>2. DOMAIN NoWrites.claims = {} /\ DOMAIN NoWrites.conflicts = {} /\ DOMAIN NoWrites.decisions = {}
  BY NoWritesIs, NoneIs
<1>3. ns = s
  BY <1>2 DEF NextStatus, StatusPart
<1>4. ncf = cf /\ nde = de
  BY <1>2 DEF NextConflicts, NextDecisions, Part
<1>5. \A c \in Seen(k, q, s) : c \in OfKind(AllClaims, k) /\ s[c] = status[c]
  BY DEF Seen, Present, StatusPart
<1> HIDE DEF s, cf, de, ns, ncf, nde
<1>6. SessionIsNext(k, q, l, s, ns)
  BY <1>3, <1>5 DEF SessionIsNext, Session
<1>7. BackWithConflict(k, s, ns, cf, ncf)
  BY <1>3 DEF BackWithConflict
<1>8. Settled(k, ns, ncf, nde)
  BY <1>1, <1>3, <1>4
<1> QED BY <1>6, <1>7, <1>8, Zenon DEF Outcome, s, cf, de, ns, ncf, nde

LEMMA DecideStep ==
    ASSUME NEW t \in Threads, IInv, NEW op \in ReviewOps, NEW i \in DOMAIN conflicts, NEW pref, NEW note,
           NEW action, NEW row, Replaces(i, row),
           BeginDecision(t, op, i, pref, note), Decide(t, i, action, row), UNCHANGED <<dbVars, made>>
    PROVE  IInv'
<1> DEFINE k == KindOf(i)
           q == ReviewRequest(op, i, pref, note)
           l == DecisionLoaded(i, row)
           td == DecisionWrites(i, action, row)
<1>1. req' = [req EXCEPT ![t] = q] /\ ~ Active(t)
  BY DEF BeginDecision, ReviewRequest
<1>2. loaded' = [loaded EXCEPT ![t] = l] /\ todo' = [todo EXCEPT ![t] = td]
  BY Zenon DEF Decide, DecisionLoaded, DecisionWrites, There, NewWrites
<1> HIDE DEF q, l, td
<1>3. Moves(t, q, l, td, made[t])
  BY <1>1, <1>2 DEF Moves, IInv, Shape
<1>4. /\ q.op = op /\ q.at = "write" /\ q.kind = k /\ q # Nobody
      /\ RequestOK(q, recording, conflicts) /\ OwnOf(q, k) = {}
  BY ReviewRequestIs DEF q
<1>5. \A c \in There(i) : c \in conflicts[i].claims /\ c \in OfKind(AllClaims, k)
  BY ThereIs DEF There
<1>6. IsFunction(l) /\ \A c \in DOMAIN l : c \in conflicts[i].claims /\ l[c] \in ClaimStatus
  BY <1>5, ClaimStatusOfConflict DEF l, DecisionLoaded, IsFunction
<1>7. /\ WriteShape(td)
      /\ DOMAIN td.claims = {d \in There(i) : ConflictStatus(row, d) # status[d]}
      /\ \A c \in DOMAIN td.claims : td.claims[c] = ConflictStatus(row, c)
      /\ DOMAIN td.conflicts = {i} /\ td.conflicts[i] = Changed(conflicts[i], row)
      /\ DOMAIN td.decisions = {i}
  BY DecisionWritesAre DEF td
<1>8. DecidedOK(q, td, recording, conflicts)
  <2>1. \A c \in DOMAIN td.claims : c \in OfKind(AllClaims, q.kind) /\ td.claims[c] \in ClaimStatus
    BY <1>4, <1>5, <1>7, ClaimStatusOfConflict
  <2>2. ConflictOK(i, conflicts[i], recording)
    BY ConflictClaims
  <2>3. /\ IsFunction(Changed(conflicts[i], row)) /\ DOMAIN Changed(conflicts[i], row) \subseteq RowFields
        /\ \A a \in DOMAIN Changed(conflicts[i], row) : Changed(conflicts[i], row)[a] = row[a]
    BY <2>2, ChangedIs DEF ConflictOK, Replaces
  <2>4. "claims" \notin DOMAIN Changed(conflicts[i], row)
    BY DEF Changed, Replaces
  <2>5. row.preferred \subseteq AllClaims
    BY <2>2 DEF ConflictOK, Fits, Replaces
  <2>6. RowWriteOK(i, Changed(conflicts[i], row), q, recording, conflicts)
    BY <2>3, <2>4, <2>5 DEF RowWriteOK, Replaces
  <2>7. ConflictWritesOK(td, q, recording, conflicts)
    BY <1>7, <2>6 DEF ConflictWritesOK
  <2> QED BY <1>4, <1>7, <2>1, <2>7 DEF DecidedOK
<1>9. k \notin raced => Outcome(k, q, l, td, StatusPart(status, k), Part(conflicts, k), Part(decisions, k))
  BY <1>4, DecisionOutcome DEF l, td
<1> QED BY <1>1, <1>3, <1>6, <1>8, <1>9, ReviewBegins DEF q

LEMMA RepeatStep ==
    ASSUME NEW t \in Threads, IInv, NEW op \in ReviewOps, NEW i \in DOMAIN conflicts, NEW pref, NEW note,
           BeginDecision(t, op, i, pref, note), Repeat(t, i), UNCHANGED <<dbVars, made>>
    PROVE  IInv'
<1> DEFINE k == KindOf(i)
           q == ReviewRequest(op, i, pref, note)
           l == [c \in There(i) |-> status[c]]
<1>1. req' = [req EXCEPT ![t] = q] /\ ~ Active(t)
  BY DEF BeginDecision, ReviewRequest
<1>2. loaded' = [loaded EXCEPT ![t] = l] /\ UNCHANGED todo /\ todo[t] = NoWrites
  BY <1>1, ThreadIs, RequestIs DEF Repeat, There, Active
<1> HIDE DEF q, l
<1>3. Moves(t, q, l, NoWrites, made[t])
  BY <1>1, <1>2 DEF Moves, IInv, Shape
<1>4. /\ q.op = op /\ q.at = "write" /\ q.kind = k /\ q # Nobody
      /\ RequestOK(q, recording, conflicts) /\ OwnOf(q, k) = {} /\ k \in Kinds
  BY ReviewRequestIs, KindOfIs DEF q
<1>5. IsFunction(l) /\ \A c \in DOMAIN l : c \in conflicts[i].claims /\ l[c] \in ClaimStatus /\ l[c] = status[c]
  BY ThereIs DEF There, l, IsFunction
<1>6. DecidedOK(q, NoWrites, recording, conflicts)
  <2>1. ConflictWritesOK(NoWrites, q, recording, conflicts)
    BY NoWritesIs, NoneIs DEF ConflictWritesOK
  <2> QED BY <1>4, <2>1, NoWritesIs, NoneIs DEF DecidedOK
<1>7. k \notin raced => Outcome(k, q, l, NoWrites, StatusPart(status, k), Part(conflicts, k), Part(decisions, k))
  BY <1>4, <1>5, RepeatOutcome
<1> QED BY <1>1, <1>3, <1>5, <1>6, <1>7, ReviewBegins DEF q

\* The row a decision gives conflict i.
LEMMA NewRow ==
    ASSUME IInv, NEW i \in DOMAIN conflicts, NEW st \in {"open", "resolved", "dismissed"}, NEW pref, NEW note,
           pref \subseteq conflicts[i].claims, \A c, d \in pref : c = d,
           NEW row, row = [conflicts[i] EXCEPT !.status = st, !.preferred = pref, !.note = note],
           row # conflicts[i]
    PROVE  Replaces(i, row)
<1>1. IsFunction(conflicts[i]) /\ DOMAIN conflicts[i] = RowFields
  BY ConflictClaims DEF ConflictOK
<1>2. /\ IsFunction(row) /\ DOMAIN row = RowFields
      /\ row.claims = conflicts[i].claims /\ row.status = st /\ row.preferred = pref
  BY <1>1 DEF IsFunction, RowFields
<1> QED BY <1>2 DEF Replaces

LEMMA ReviewStep ==
    ASSUME NEW t \in Threads, IInv, NEW i \in DOMAIN conflicts, NEW note,
           \/ \E c \in conflicts[i].claims : Resolve(t, i, c, note)
           \/ Dismiss(t, i, note)
           \/ Reopen(t, i, note)
    PROVE  IInv'
<1>0. IsFunction(conflicts[i]) /\ DOMAIN conflicts[i] = RowFields
  BY ConflictClaims DEF ConflictOK
<1>1. ASSUME NEW c \in conflicts[i].claims, Resolve(t, i, c, note) PROVE IInv'
  <2> DEFINE row == [conflicts[i] EXCEPT !.status = "resolved", !.preferred = {c}, !.note = note]
  <2>1. /\ BeginDecision(t, "resolve", i, {c}, note) /\ UNCHANGED <<dbVars, made>>
        /\ IF row = conflicts[i] THEN Repeat(t, i) ELSE Decide(t, i, "resolve", row)
    BY <1>1 DEF Resolve
  <2>2. CASE row = conflicts[i]
    BY <2>1, <2>2, RepeatStep DEF ReviewOps
  <2>3. CASE row # conflicts[i]
    <3>1. Replaces(i, row)
      BY <2>3, NewRow
    <3> HIDE DEF row
    <3> QED BY <2>1, <2>3, <3>1, DecideStep DEF ReviewOps
  <2> QED BY <2>2, <2>3
<1>2. ASSUME Dismiss(t, i, note) PROVE IInv'
  <2> DEFINE row == [conflicts[i] EXCEPT !.status = "dismissed", !.preferred = {}, !.note = note]
  <2>1. /\ BeginDecision(t, "dismiss", i, {}, note) /\ UNCHANGED <<dbVars, made>>
        /\ IF conflicts[i].status = "dismissed" /\ conflicts[i].note = note THEN Repeat(t, i)
           ELSE Decide(t, i, "dismiss", row)
    BY <1>2 DEF Dismiss
  <2>2. CASE conflicts[i].status = "dismissed" /\ conflicts[i].note = note
    BY <2>1, <2>2, RepeatStep DEF ReviewOps
  <2>3. CASE ~ (conflicts[i].status = "dismissed" /\ conflicts[i].note = note)
    <3>1. row.status = "dismissed" /\ row.note = note
      BY <1>0 DEF RowFields
    <3>2. Replaces(i, row)
      BY <2>3, <3>1, NewRow
    <3> HIDE DEF row
    <3> QED BY <2>1, <2>3, <3>2, DecideStep DEF ReviewOps
  <2> QED BY <2>2, <2>3
<1>3. ASSUME Reopen(t, i, note) PROVE IInv'
  <2> DEFINE row == [conflicts[i] EXCEPT !.status = "open", !.preferred = {}, !.note = note]
  <2>1. /\ BeginDecision(t, "reopen", i, {}, note) /\ UNCHANGED <<dbVars, made>>
        /\ conflicts[i].status # "open" /\ Decide(t, i, "reopen", row)
    BY <1>3 DEF Reopen
  <2>2. row.status = "open"
    BY <1>0 DEF RowFields
  <2>3. Replaces(i, row)
    BY <2>1, <2>2, NewRow
  <2> HIDE DEF row
  <2> QED BY <2>1, <2>3, DecideStep DEF ReviewOps
<1> QED BY <1>1, <1>2, <1>3

-----------------------------------------------------------------------------
(* Steps that change the archive under the other threads.                  *)

LEMMA OtherWrites ==
    ASSUME NEW q, NEW w, NEW rc, NEW rcp, NEW cf, NEW cfp, ConflictWritesOK(w, q, rc, cf),
           \A c \in AllClaims : rc[c.rec] \in {"archived", "deleted"} => rcp[c.rec] \in {"archived", "deleted"},
           DOMAIN cf \subseteq DOMAIN cfp
    PROVE  ConflictWritesOK(w, q, rcp, cfp)
<1>1. ASSUME NEW i \in DOMAIN w.conflicts PROVE RowWriteOK(i, w.conflicts[i], q, rcp, cfp)
  <2>1. RowWriteOK(i, w.conflicts[i], q, rc, cf)
    BY DEF ConflictWritesOK
  <2> QED BY <2>1 DEF RowWriteOK, Fits
<1> QED BY <1>1 DEF ConflictWritesOK

\* What another thread's step leaves a transaction: recordings that were archived or deleted
\* still are, what it works on is there, and no conflict goes.
LEMMA OtherThreadOK ==
    ASSUME NEW q, NEW l, NEW td, NEW m, NEW rc, NEW rcp, NEW st, NEW stp, NEW cf, NEW cfp,
           ThreadOK(q, l, td, m, rc, st, cf),
           \A c \in AllClaims : rc[c.rec] \in {"archived", "deleted"} => rcp[c.rec] \in {"archived", "deleted"},
           q.op = "finalise" => FinaliseOK(q, rcp),
           \A c \in DOMAIN m.claims : st[c] # "absent" => stp[c] # "absent",
           DOMAIN cf \subseteq DOMAIN cfp
    PROVE  ThreadOK(q, l, td, m, rcp, stp, cfp)
<1>1. RequestOK(q, rcp, cfp)
  BY DEF ThreadOK, RequestOK, ReviewOK
<1>2. DecidedOK(q, td, rcp, cfp)
  BY OtherWrites DEF ThreadOK, DecidedOK
<1>3. MadeOK(q, m, rcp, stp, cfp)
  <2>1. ConflictWritesOK(m, q, rcp, cfp)
    BY OtherWrites DEF ThreadOK, MadeOK
  <2> QED BY <2>1 DEF ThreadOK, MadeOK
<1> QED BY <1>1, <1>2, <1>3 DEF ThreadOK

\* A thread that ends does nothing.
LEMMA EndIs ==
    ASSUME NEW t \in Threads, IInv, End(t)
    PROVE  /\ Shape' /\ OneFinalisation'
           /\ req'[t] = Nobody /\ loaded'[t] = None /\ todo'[t] = NoWrites /\ made'[t] = NoWrites
           /\ \A u \in Threads \ {t} : /\ req'[u] = req[u] /\ loaded'[u] = loaded[u]
                                       /\ todo'[u] = todo[u] /\ made'[u] = made[u]
           /\ ThreadInv(t)'
<1>1. Shape /\ OneFinalisation
  BY DEF IInv
<1>2. /\ Shape' /\ req'[t] = Nobody /\ loaded'[t] = None /\ todo'[t] = NoWrites /\ made'[t] = NoWrites
      /\ \A u \in Threads \ {t} : /\ req'[u] = req[u] /\ loaded'[u] = loaded[u]
                                  /\ todo'[u] = todo[u] /\ made'[u] = made[u]
  <2>1. Shape' /\ \A u \in Threads \ {t} : /\ req'[u] = req[u] /\ loaded'[u] = loaded[u]
                                           /\ todo'[u] = todo[u] /\ made'[u] = made[u]
    BY <1>1, ShapeStep DEF End
  <2> QED BY <1>1, <2>1 DEF Shape, End
<1>3. Nobody.op = "none"
  BY DEF Nobody
<1>4. OneFinalisation'
  BY <1>1, <1>2, <1>3 DEF OneFinalisation
<1>5. ThreadInv(t)'
  BY <1>2, NobodyIs DEF ThreadInv
<1> QED BY <1>2, <1>4, <1>5

LEMMA RollbackStep ==
    ASSUME NEW t \in Threads, IInv, Active(t), Rollback(t)
    PROVE  IInv'
<1> DEFINE q == req[t]
<1>1. /\ End(t) /\ UNCHANGED <<people, status, conflicts, decisions, view, raced, behind>>
      /\ recording' = IF q.op = "finalise" /\ recording[q.rec] = "pending"
                      THEN [recording EXCEPT ![q.rec] = "failed"] ELSE recording
  BY DEF Rollback
<1>2. StatusOK(recording, status) /\ PeopleOK(recording, people)
      /\ ConflictsOK(recording, conflicts, decisions) /\ ViewOK(view)
      /\ (Kinds \subseteq raced \/ Sources(recording, people))
  BY StoreIs
<1>3. q.op = "finalise" => q.rec \in Recordings
  BY ThreadIs, RequestIs
<1>4. /\ recording' \in [Recordings -> {"pending", "archived", "failed", "deleted"}]
      /\ \A r \in Recordings : /\ recording'[r] = "archived" <=> recording[r] = "archived"
                               /\ recording'[r] = "deleted" <=> recording[r] = "deleted"
                               /\ recording'[r] # recording[r] => q.op = "finalise" /\ r = q.rec
  BY <1>1, <1>2, <1>3 DEF StatusOK
<1> HIDE DEF q
<1>5. \A c \in AllClaims : c.rec \in Recordings
  BY ClaimIn
<1>6. StatusOK(recording', status')
  BY <1>1, <1>2, <1>4, <1>5 DEF StatusOK
<1>7. PeopleOK(recording', people')
  BY <1>1, <1>2, <1>4 DEF PeopleOK
<1>8. ConflictsOK(recording', conflicts', decisions')
  <2>1. ASSUME NEW i \in DOMAIN conflicts PROVE ConflictOK(i, conflicts[i], recording')
    <3>1. ConflictOK(i, conflicts[i], recording)
      BY <1>2 DEF ConflictsOK
    <3> QED BY <1>4, <1>5, <3>1 DEF ConflictOK, Fits
  <2> QED BY <1>1, <1>2, <2>1 DEF ConflictsOK
<1>9. Kinds \subseteq raced \/ Sources(recording', people')
  BY <1>1, <1>2, <1>4 DEF Sources
<1>10. StoreInv'
  BY <1>1, <1>2, <1>6, <1>7, <1>8, <1>9, StoreIs DEF StoreInv, ArchiveOK, Undisputed
<1>11. ASSUME NEW u \in Threads \ {t} PROVE ThreadInv(u)'
  <2>1. ThreadOK(req[u], loaded[u], todo[u], made[u], recording, status, conflicts)
    BY DEF IInv, ThreadInv
  <2>2. ASSUME req[u].op = "finalise" PROVE FinaliseOK(req[u], recording')
    <3>1. FinaliseOK(req[u], recording)
      BY <2>2, ThreadIs, RequestIs
    <3>2. recording'[req[u].rec] = recording[req[u].rec]
      BY <1>4, <2>2, <3>1 DEF q, IInv, OneFinalisation, FinaliseOK
    <3> QED BY <3>1, <3>2 DEF FinaliseOK
  <2>3. ThreadOK(req[u], loaded[u], todo[u], made[u], recording', status, conflicts)
    BY <1>4, <1>5, <2>1, <2>2, OtherThreadOK
  <2> QED BY <1>1, <2>3, EndIs DEF IInv, ThreadInv
<1> QED BY <1>1, <1>10, <1>11, EndIs DEF IInv

-----------------------------------------------------------------------------
(* The commit of a transaction.                                            *)

CommitChanges(t) ==
    /\ recording' = IF req[t].op = "finalise" THEN [recording EXCEPT ![req[t].rec] = "archived"] ELSE recording
    /\ people' = Over(made[t].people, people)
    /\ status' = [c \in AllClaims |->
                    IF c \in DOMAIN made[t].claims THEN made[t].claims[c]
                    ELSE IF c \in Own(t, "relationship") \cup Own(t, "attribute") THEN Status(t, c)
                    ELSE status[c]]
    /\ conflicts' = [i \in DOMAIN conflicts \cup DOMAIN made[t].conflicts |->
                       IF i \notin DOMAIN made[t].conflicts THEN conflicts[i]
                       ELSE IF i \in DOMAIN conflicts THEN Over(made[t].conflicts[i], conflicts[i])
                       ELSE made[t].conflicts[i]]
    /\ decisions' = Over(made[t].decisions, decisions)
    /\ view' = [k \in Kinds |-> Over(made[t].rows[k], [x \in DOMAIN view[k] \ made[t].cleared[k] |-> view[k][x]])]
    /\ raced' = Races(t, KindsOf(t)) /\ behind' = behind \ KindsOf(t)

LEMMA CommitIs ==
    ASSUME NEW t \in Threads, IInv, Commit(t), NEW q, q = req[t], NEW m, m = made[t]
    PROVE  /\ CommitChanges(t) /\ End(t)
           /\ q.op # "none" /\ q.at = "commit" /\ q.kind \in Kinds
           /\ q.op = "finalise" => /\ q.rec \in Recordings /\ q.kind = "attribute"
                                   /\ recording[q.rec] = "pending"
                                   /\ DOMAIN m.people = MappedPeople(q.rec)
           /\ q.op # "finalise" => m.people = None
           /\ \A k \in Kinds : k \in KindsOf(t) <=> WorksOn(q, k)
           /\ \A k \in Kinds : /\ WorksOn(q, k) => Decided(q, k) /\ Cleared(q, k) /\ Inserted(q, k)
                               /\ ~ WorksOn(q, k) => /\ ~ Written(q, k) /\ ~ Cleared(q, k) /\ ~ Inserted(q, k)
                                                     /\ q.op # "finalise"
<1>1. CommitChanges(t) /\ End(t) /\ q.op # "none" /\ q.at = "commit"
  BY DEF Commit, CommitChanges, At, Active
<1>2. RequestOK(q, recording, conflicts) /\ MadeOK(q, m, recording, status, conflicts)
  BY ThreadIs
<1>3. q.kind \in Kinds
  BY <1>1, <1>2, RequestIs
<1>4. q.op = "finalise" => /\ q.rec \in Recordings /\ q.kind = "attribute" /\ recording[q.rec] = "pending"
                           /\ DOMAIN m.people = MappedPeople(q.rec)
  BY <1>1, <1>2, RequestIs DEF FinaliseOK, MadeOK
<1>5. q.op # "finalise" => m.people = None
  BY <1>2 DEF MadeOK
<1>6. \A k \in Kinds : k \in KindsOf(t) <=> WorksOn(q, k)
  BY <1>1 DEF KindsOf, WorksOn
<1>7. \A k \in Kinds : /\ WorksOn(q, k) => Decided(q, k) /\ Cleared(q, k) /\ Inserted(q, k)
                       /\ ~ WorksOn(q, k) => /\ ~ Written(q, k) /\ ~ Cleared(q, k) /\ ~ Inserted(q, k)
                                             /\ q.op # "finalise"
  BY <1>1, <1>4 DEF WorksOn, Decided, Written, Cleared, Inserted, Done, Kinds
<1> QED BY <1>1, <1>3, <1>4, <1>5, <1>6, <1>7

\* The writes of a transaction, kind by kind.
LEMMA CommitStatus ==
    ASSUME NEW t \in Threads, IInv, Commit(t), NEW k \in Kinds
    PROVE  StatusPart(status', k) = NextStatus(k, req[t], loaded[t], made[t], StatusPart(status, k))
<1>1. \A c \in OfKind(AllClaims, k) : c \in Own(t, "relationship") \cup Own(t, "attribute") <=> c \in OwnOf(req[t], k)
  BY KindsOfClaims DEF Own, OwnOf, OfKind, Kinds
<1>2. \A c \in OfKind(AllClaims, k) : c \in AllClaims
  BY DEF OfKind
<1>3. \A c \in AllClaims : status'[c] = IF c \in DOMAIN made[t].claims THEN made[t].claims[c]
                                        ELSE IF c \in Own(t, "relationship") \cup Own(t, "attribute")
                                             THEN Status(t, c) ELSE status[c]
  BY CommitIs DEF CommitChanges
<1>4. \A c \in OfKind(AllClaims, k) :
         /\ StatusPart(status, k)[c] = status[c] /\ StatusPart(status', k)[c] = status'[c]
         /\ Session(loaded[t], StatusPart(status, k), c) = Status(t, c)
  BY StatusPartIs DEF Session, Status
<1>5. \A c \in OfKind(AllClaims, k) :
         status'[c] = IF c \in DOMAIN made[t].claims THEN made[t].claims[c]
                      ELSE IF c \in OwnOf(req[t], k) THEN Session(loaded[t], StatusPart(status, k), c)
                      ELSE StatusPart(status, k)[c]
  BY <1>1, <1>2, <1>3, <1>4
<1> QED BY <1>5 DEF NextStatus, StatusPart

LEMMA CommitConflicts ==
    ASSUME NEW t \in Threads, IInv, Commit(t), NEW k \in Kinds
    PROVE  /\ Part(conflicts', k) = NextConflicts(k, made[t], Part(conflicts, k))
           /\ Part(decisions', k) = NextDecisions(k, made[t], Part(decisions, k))
<1> DEFINE w == made[t]
<1>1. /\ conflicts' = [i \in DOMAIN conflicts \cup DOMAIN w.conflicts |->
                       IF i \notin DOMAIN w.conflicts THEN conflicts[i]
                       ELSE IF i \in DOMAIN conflicts THEN Over(w.conflicts[i], conflicts[i])
                       ELSE w.conflicts[i]]
      /\ decisions' = [i \in DOMAIN w.decisions \cup DOMAIN decisions |->
                         IF i \in DOMAIN w.decisions THEN w.decisions[i] ELSE decisions[i]]
  BY CommitIs DEF CommitChanges, Over
<1> HIDE DEF w
<1>2. /\ DOMAIN Part(conflicts, k) = {i \in DOMAIN conflicts : KindOf(i) = k}
      /\ \A i \in DOMAIN Part(conflicts, k) : Part(conflicts, k)[i] = conflicts[i]
      /\ DOMAIN Part(decisions, k) = {i \in DOMAIN decisions : KindOf(i) = k}
      /\ \A i \in DOMAIN Part(decisions, k) : Part(decisions, k)[i] = decisions[i]
  BY PartIs
<1>3. Part(conflicts', k) = NextConflicts(k, w, Part(conflicts, k))
  <2> DEFINE D == DOMAIN Part(conflicts, k) \cup {j \in DOMAIN w.conflicts : KindOf(j) = k}
  <2>1. {i \in DOMAIN conflicts' : KindOf(i) = k} = D
    BY <1>1, <1>2
  <2>2. \A i \in D : conflicts'[i] = IF i \notin DOMAIN w.conflicts THEN Part(conflicts, k)[i]
                                     ELSE IF i \in DOMAIN Part(conflicts, k)
                                          THEN Over(w.conflicts[i], Part(conflicts, k)[i]) ELSE w.conflicts[i]
    BY <1>1, <1>2
  <2>3. Part(conflicts', k) = [i \in D |-> conflicts'[i]]
    BY <2>1 DEF Part
  <2>4. NextConflicts(k, w, Part(conflicts, k))
        = [i \in D |-> IF i \notin DOMAIN w.conflicts THEN Part(conflicts, k)[i]
                       ELSE IF i \in DOMAIN Part(conflicts, k)
                            THEN Over(w.conflicts[i], Part(conflicts, k)[i]) ELSE w.conflicts[i]]
    BY DEF NextConflicts
  <2> HIDE DEF D
  <2> QED BY <2>2, <2>3, <2>4
<1>4. Part(decisions', k) = NextDecisions(k, w, Part(decisions, k))
  <2> DEFINE D == DOMAIN Part(decisions, k) \cup {j \in DOMAIN w.decisions : KindOf(j) = k}
  <2>1. {i \in DOMAIN decisions' : KindOf(i) = k} = D
    BY <1>1, <1>2
  <2>2. \A i \in D : decisions'[i] = IF i \in DOMAIN w.decisions THEN w.decisions[i] ELSE Part(decisions, k)[i]
    BY <1>1, <1>2
  <2>3. Part(decisions', k) = [i \in D |-> decisions'[i]]
    BY <2>1 DEF Part
  <2>4. NextDecisions(k, w, Part(decisions, k))
        = [i \in D |-> IF i \in DOMAIN w.decisions THEN w.decisions[i] ELSE Part(decisions, k)[i]]
    BY DEF NextDecisions
  <2> HIDE DEF D
  <2> QED BY <2>2, <2>3, <2>4
<1> QED BY <1>3, <1>4 DEF w

\* What a function has if nothing is written over it, or everything.
LEMMA OverIs ==
    /\ \A f : IsFunction(f) => Over(None, f) = f
    /\ \A w, f : IsFunction(w) /\ DOMAIN f = {} => Over(w, f) = w
    /\ \A w, f : IsFunction(Over(w, f)) /\ DOMAIN Over(w, f) = DOMAIN w \cup DOMAIN f
BY NoneIs DEF Over, IsFunction

\* A commit leaves a kind alone that its transaction does not work on.
LEMMA CommitElsewhere ==
    ASSUME NEW t \in Threads, IInv, Commit(t), NEW k \in Kinds, k \notin KindsOf(t)
    PROVE  /\ StatusPart(status', k) = StatusPart(status, k)
           /\ Part(conflicts', k) = Part(conflicts, k) /\ Part(decisions', k) = Part(decisions, k)
           /\ view'[k] = view[k] /\ people' = people
<1> DEFINE q == req[t]
           w == made[t]
<1>1. /\ ~ Written(q, k) /\ ~ Cleared(q, k) /\ ~ Inserted(q, k) /\ q.op # "finalise" /\ w.people = None
      /\ MadeOK(q, w, recording, status, conflicts)
  BY CommitIs, ThreadIs
<1>2. OwnOf(q, k) = {}
  BY <1>1 DEF OwnOf
<1>3. /\ StatusPart(status', k) = NextStatus(k, q, loaded[t], w, StatusPart(status, k))
      /\ Part(conflicts', k) = NextConflicts(k, w, Part(conflicts, k))
      /\ Part(decisions', k) = NextDecisions(k, w, Part(decisions, k))
  BY CommitStatus, CommitConflicts
<1>4. people' = Over(w.people, people) /\ view'[k] = Over(w.rows[k], [x \in DOMAIN view[k] \ w.cleared[k] |-> view[k][x]])
  BY CommitIs DEF CommitChanges
<1>5. IsFunction(people) /\ IsFunction(view[k])
  BY StoreIs DEF PeopleOK, ViewOK
<1> HIDE DEF q, w
<1>6. \A c \in OfKind(AllClaims, k) : c \notin DOMAIN w.claims
  BY <1>1, KindsOfClaims DEF MadeOK
<1>7. /\ {j \in DOMAIN w.conflicts : KindOf(j) = k} = {}
      /\ {j \in DOMAIN w.decisions : KindOf(j) = k} = {}
  BY <1>1 DEF MadeOK, ConflictWritesOK
<1>8. NextStatus(k, q, loaded[t], w, StatusPart(status, k)) = StatusPart(status, k)
  BY <1>2, <1>6 DEF NextStatus, StatusPart
<1>9. NextConflicts(k, w, Part(conflicts, k)) = Part(conflicts, k)
  BY <1>7 DEF NextConflicts, Part
<1>10. NextDecisions(k, w, Part(decisions, k)) = Part(decisions, k)
  BY <1>7 DEF NextDecisions, Part
<1>11. w.rows[k] = None /\ w.cleared[k] = {}
  BY <1>1 DEF MadeOK
<1>12. [x \in DOMAIN view[k] \ w.cleared[k] |-> view[k][x]] = view[k]
  BY <1>5, <1>11 DEF IsFunction
<1> QED BY <1>1, <1>3, <1>4, <1>5, <1>8, <1>9, <1>10, <1>11, <1>12, OverIs

\* What is stored after a commit is what the transaction has seen.
LEMMA CommitPresent ==
    ASSUME NEW t \in Threads, IInv, Commit(t), NEW k \in Kinds, WorksOn(req[t], k)
    PROVE  Present(k, StatusPart(status', k)) = Seen(k, req[t], StatusPart(status, k))
<1> DEFINE q == req[t]
           w == made[t]
           l == loaded[t]
           s == StatusPart(status, k)
           ns == NextStatus(k, q, l, w, s)
<1>1. StatusPart(status', k) = ns
  BY CommitStatus
<1>2. /\ Decided(q, k) /\ LoadedOK(q, l) /\ MadeOK(q, w, recording, status, conflicts)
      /\ OwnOf(q, k) \subseteq OfKind(AllClaims, k)
  BY CommitIs, ThreadIs, RequestIs
<1>3. /\ \A c \in OfKind(AllClaims, k) : s[c] = status[c] /\ c \in AllClaims /\ c.type = k
      /\ Present(k, s) = {c \in OfKind(AllClaims, k) : status[c] # "absent"}
  BY StatusPartIs, KindsOfClaims
<1> HIDE DEF q, w, l, s
<1>4. \A c \in OfKind(AllClaims, k) : ns[c] = IF c \in DOMAIN w.claims THEN w.claims[c]
                                              ELSE IF c \in OwnOf(q, k) THEN Session(l, s, c) ELSE s[c]
  BY DEF NextStatus
<1>5. \A c \in OwnOf(q, k) : Session(l, s, c) \in ClaimStatus
  BY <1>2 DEF LoadedOK, Session
<1>6. \A c \in DOMAIN w.claims : w.claims[c] \in ClaimStatus /\ (status[c] # "absent" \/ c \in OwnOf(q, c.type))
  BY <1>2 DEF MadeOK
<1>7. "absent" \notin ClaimStatus
  BY DEF ClaimStatus
<1>8. \A c \in OfKind(AllClaims, k) : ns[c] # "absent" <=> (status[c] # "absent" \/ c \in OwnOf(q, k))
  BY <1>3, <1>4, <1>5, <1>6, <1>7
<1>9. Present(k, ns) = Present(k, s) \cup OwnOf(q, k)
  <2> HIDE DEF ns
  <2> QED BY <1>2, <1>3, <1>8 DEF Present
<1> QED BY <1>1, <1>9 DEF Seen, q, s

\* A rebuilt projection shows the claims that stand.
LEMMA ProjectedShows ==
    ASSUME NEW k \in Kinds, NEW q, NEW l, NEW s, NEW ns, NEW known,
           Present(k, ns) = Seen(k, q, s), SessionIsNext(k, q, l, s, ns),
           \A c \in Seen(k, q, s) : ClaimIsGrounded(c) => (k = "attribute" => ProjectionKey(c) \in known)
    PROVE  /\ Shows(k, ns, Projected(k, q, l, s, known), known)
           /\ NoneDisputed(k, ns, Projected(k, q, l, s, known))
<1> DEFINE sources == {c \in Seen(k, q, s) : Session(l, s, c) \in {"active", "accepted"} /\ ClaimIsGrounded(c)}
           keys == IF k = "relationship" THEN {ProjectionKey(c) : c \in sources} ELSE known
           v == Projected(k, q, l, s, known)
<1>1. v = [x \in keys |-> {c \in sources : ProjectionKey(c) = x}]
  BY Zenon DEF Projected
<1>2. sources = {c \in Present(k, ns) : Stands(ns, c)}
  BY DEF SessionIsNext, Stands
<1>3. \A c \in sources : ProjectionKey(c) \in keys
  <2>1. \A c \in sources : ClaimIsGrounded(c) /\ c \in Seen(k, q, s)
    OBVIOUS
  <2>2. \A c \in sources : k = "relationship" => ProjectionKey(c) \in {ProjectionKey(d) : d \in sources}
    <3> HIDE DEF sources
    <3> QED OBVIOUS
  <2> HIDE DEF sources
  <2> QED BY <2>1, <2>2 DEF Kinds
<1>4. \A c \in sources : ns[c] \in {"active", "accepted"}
  BY <1>2 DEF Stands
<1>5. k = "attribute" => keys = known
  OBVIOUS
<1> HIDE DEF sources, keys
<1>6. DOMAIN v = keys /\ \A x \in keys : v[x] = {c \in sources : ProjectionKey(c) = x}
  BY <1>1
<1> HIDE DEF v
<1>7. UNION {v[x] : x \in DOMAIN v} = sources
  <2>1. \A c \in sources : \E x \in DOMAIN v : c \in v[x]
    BY <1>3, <1>6
  <2>2. \A x \in DOMAIN v : v[x] \subseteq sources
    BY <1>6
  <2> QED BY <2>1, <2>2
<1>8. Shows(k, ns, v, known)
  BY <1>2, <1>5, <1>6, <1>7 DEF Shows
<1>9. NoneDisputed(k, ns, v)
  BY <1>4, <1>6 DEF NoneDisputed
<1> QED BY <1>8, <1>9 DEF v

\* The person a grounded attribute is about is known when its recording is archived.
LEMMA SubjectKnown ==
    ASSUME NEW c \in AllClaims, c.type = "attribute", ClaimIsGrounded(c)
    PROVE  ProjectionKey(c) \in MappedPeople(c.rec) /\ c.rec \in Recordings
<1>1. c.rec \in Recordings /\ c \in ClaimsOf(c.rec)
  BY ClaimIn
<1>2. c.subject \in MappedPeople(c.rec)
  BY <1>1, ClaimShape DEF ClaimIsGrounded
<1> QED BY <1>1, <1>2 DEF ProjectionKey

\* What a commit leaves of a kind its transaction works on, unless another does.
LEMMA CommitKind ==
    ASSUME NEW t \in Threads, IInv, Commit(t), NEW k \in Kinds \ raced, WorksOn(req[t], k)
    PROVE  /\ KindOK(k, StatusPart(status', k), Part(conflicts', k), Part(decisions', k), view'[k],
                     DOMAIN people', behind')
           /\ BackWithConflict(k, StatusPart(status, k), StatusPart(status', k), Part(conflicts, k), Part(conflicts', k))
<1> DEFINE q == req[t]
           w == made[t]
           l == loaded[t]
           s == StatusPart(status, k)
           ns == StatusPart(status', k)
           known == DOMAIN people \cup DOMAIN w.people
<1>1. /\ Decided(q, k) /\ Cleared(q, k) /\ Inserted(q, k) /\ q.at = "commit"
      /\ CommitChanges(t)
  BY CommitIs
<1>2. Undisturbed(k, q, l, todo[t], w, s, Part(conflicts, k), Part(decisions, k), view[k], people)
  BY ThreadIs DEF ThreadFresh
<1>3. Outcome(k, q, l, w, s, Part(conflicts, k), Part(decisions, k))
  <2>1. WritesOf(k, q, todo[t], w) = w
    BY <1>1 DEF WritesOf
  <2> HIDE DEF q, w, l, s
  <2> QED BY <1>1, <1>2, <2>1, Zenon DEF Undisturbed
<1>4. w.cleared[k] = DOMAIN view[k] /\ w.rows[k] = Projected(k, q, l, s, known)
  <2> HIDE DEF q, w, l, s
  <2> QED BY <1>1, <1>2, Zenon DEF Undisturbed
<1>5. /\ ns = NextStatus(k, q, l, w, s)
      /\ Part(conflicts', k) = NextConflicts(k, w, Part(conflicts, k))
      /\ Part(decisions', k) = NextDecisions(k, w, Part(decisions, k))
  BY CommitStatus, CommitConflicts
<1>6. DOMAIN people' = known
  <2>1. people' = Over(w.people, people)
    BY <1>1 DEF CommitChanges
  <2> QED BY <2>1 DEF Over
<1>7. view'[k] = Projected(k, q, l, s, known)
  <2>1. IsFunction(Projected(k, q, l, s, known))
    BY Zenon DEF IsFunction, Projected
  <2>2. DOMAIN [x \in DOMAIN view[k] \ w.cleared[k] |-> view[k][x]] = {}
    BY <1>4
  <2>3. view'[k] = Over(w.rows[k], [x \in DOMAIN view[k] \ w.cleared[k] |-> view[k][x]])
    BY <1>1 DEF CommitChanges
  <2> QED BY <1>4, <2>1, <2>2, <2>3, OverIs
<1>8. Present(k, ns) = Seen(k, q, s)
  BY CommitPresent
<1>9. /\ Settled(k, ns, Part(conflicts', k), Part(decisions', k)) /\ SessionIsNext(k, q, l, s, ns)
      /\ BackWithConflict(k, s, ns, Part(conflicts, k), Part(conflicts', k))
  BY <1>3, <1>5 DEF Outcome
<1>10. ASSUME NEW c \in Seen(k, q, s), ClaimIsGrounded(c), k = "attribute" PROVE ProjectionKey(c) \in known
  <2>1. c \in OfKind(AllClaims, k)
    BY <1>8 DEF Present
  <2>2. c \in AllClaims /\ c.type = "attribute"
    BY <1>10, <2>1, KindsOfClaims
  <2>3. c.rec \in Recordings /\ ProjectionKey(c) \in MappedPeople(c.rec)
    BY <1>10, <2>2, SubjectKnown
  <2>4. CASE c \in OwnOf(q, k)
    <3>1. q.op = "finalise" /\ c.rec = q.rec
      BY <2>4, ThreadIs, RequestIs
    <3> QED BY <2>3, <3>1, CommitIs
  <2>5. CASE c \in Present(k, s)
    <3>1. status[c] # "absent"
      BY <2>1, <2>5, StatusPartIs
    <3>2. recording[c.rec] = "archived"
      BY <2>2, <3>1, StoreIs DEF StatusOK
    <3> QED BY <2>3, <3>2, StoreIs DEF PeopleOK
  <2> QED BY <2>4, <2>5 DEF Seen
<1> HIDE DEF q, l, s, ns, known
<1>11. Shows(k, ns, view'[k], known) /\ NoneDisputed(k, ns, view'[k])
  BY <1>7, <1>8, <1>9, <1>10, ProjectedShows
<1> QED BY <1>6, <1>9, <1>11 DEF KindOK, s, ns

\* The archive's shape after a commit.
LEMMA CommitRecording ==
    ASSUME NEW t \in Threads, IInv, Commit(t)
    PROVE  /\ recording' \in [Recordings -> {"pending", "archived", "failed", "deleted"}]
           /\ \A r \in Recordings :
                 recording'[r] = IF req[t].op = "finalise" /\ r = req[t].rec THEN "archived" ELSE recording[r]
           /\ \A c \in AllClaims :
                 /\ c.rec \in Recordings
                 /\ recording[c.rec] \in {"archived", "deleted"} => recording'[c.rec] \in {"archived", "deleted"}
<1>1. /\ req[t].op = "finalise" => req[t].rec \in Recordings /\ recording[req[t].rec] = "pending"
      /\ CommitChanges(t)
  BY CommitIs
<1>2. recording \in [Recordings -> {"pending", "archived", "failed", "deleted"}]
  BY StoreIs DEF StatusOK
<1>3. \A r \in Recordings :
         recording'[r] = IF req[t].op = "finalise" /\ r = req[t].rec THEN "archived" ELSE recording[r]
  BY <1>1, <1>2 DEF CommitChanges
<1>4. recording' \in [Recordings -> {"pending", "archived", "failed", "deleted"}]
  BY <1>1, <1>2 DEF CommitChanges
<1> QED BY <1>3, <1>4, ClaimIn

LEMMA CommitStatusOK ==
    ASSUME NEW t \in Threads, IInv, Commit(t)
    PROVE  /\ StatusOK(recording', status')
           /\ \A c \in AllClaims : status[c] # "absent" => status'[c] # "absent"
<1> DEFINE q == req[t]
           w == made[t]
           l == loaded[t]
           inserted == Own(t, "relationship") \cup Own(t, "attribute")
<1>1. /\ CommitChanges(t)
      /\ q.op = "finalise" => /\ q.rec \in Recordings
                              /\ \A k \in Kinds : Decided(q, k)
  BY CommitIs
<1>2. \A c \in AllClaims : status'[c] = IF c \in DOMAIN w.claims THEN w.claims[c]
                                        ELSE IF c \in inserted THEN Status(t, c) ELSE status[c]
  BY <1>1 DEF CommitChanges
<1>3. \A c \in AllClaims : c \in inserted <=> q.op = "finalise" /\ c.rec = q.rec
  <2>1. \A c \in AllClaims : c.type \in Kinds
    BY ClaimIn
  <2> QED BY <1>1, <2>1, ClaimsIn DEF Own, OfKind, Kinds
<1>4. /\ LoadedOK(q, l) /\ MadeOK(q, w, recording, status, conflicts)
      /\ recording \in [Recordings -> {"pending", "archived", "failed", "deleted"}]
      /\ status \in [AllClaims -> ClaimStatus \cup {"absent"}]
      /\ \A c \in AllClaims : status[c] # "absent" <=> recording[c.rec] = "archived"
  BY ThreadIs, StoreIs DEF StatusOK
<1> HIDE DEF q, w, inserted
<1>5. \A c \in AllClaims : c \in inserted => Status(t, c) \in ClaimStatus
  <2> SUFFICES ASSUME NEW c \in AllClaims, c \in inserted PROVE Status(t, c) \in ClaimStatus
    OBVIOUS
  <2>1. c.type \in Kinds /\ c \in OwnOf(q, c.type)
    BY <1>1, <1>3, ClaimIn DEF OwnOf, OfKind
  <2>2. c \in DOMAIN l
    BY <1>1, <1>3, <1>4, <2>1 DEF LoadedOK
  <2> QED BY <1>4, <2>2 DEF LoadedOK, Status
<1>6. \A c \in DOMAIN w.claims : /\ c \in AllClaims /\ w.claims[c] \in ClaimStatus
                                 /\ status[c] # "absent" \/ c \in inserted
  <2>1. \A k : \A c \in OwnOf(q, k) : q.op = "finalise" /\ c.rec = q.rec
    BY ThreadIs, RequestIs DEF q
  <2> QED BY <1>3, <1>4, <2>1 DEF MadeOK
<1>7. "absent" \notin ClaimStatus
  BY DEF ClaimStatus
<1>8. \A c \in AllClaims : status'[c] \in ClaimStatus \cup {"absent"}
                           /\ (status'[c] # "absent" <=> (status[c] # "absent" \/ c \in inserted))
  BY <1>2, <1>4, <1>5, <1>6, <1>7
<1>9. \A c \in AllClaims : recording'[c.rec] = "archived" <=> (recording[c.rec] = "archived" \/ c \in inserted)
  BY <1>3, CommitRecording DEF q
<1>10. status' \in [AllClaims -> ClaimStatus \cup {"absent"}]
  <2>1. status' = [c \in AllClaims |-> status'[c]]
    BY <1>1 DEF CommitChanges
  <2> QED BY <1>8, <2>1
<1> QED BY <1>4, <1>8, <1>9, <1>10, CommitRecording DEF StatusOK

LEMMA CommitPeople ==
    ASSUME NEW t \in Threads, IInv, Commit(t)
    PROVE  /\ PeopleOK(recording', people')
           /\ Kinds \subseteq raced \/ Sources(recording', people')
<1> DEFINE q == req[t]
           w == made[t]
<1>1. /\ people' = Over(w.people, people) /\ q.at = "commit" /\ q.op # "none"
      /\ q.op = "finalise" => q.rec \in Recordings /\ DOMAIN w.people = MappedPeople(q.rec)
      /\ q.op # "finalise" => w.people = None
  <2>1. /\ CommitChanges(t) /\ q.at = "commit" /\ q.op # "none"
        /\ q.op = "finalise" => q.rec \in Recordings /\ DOMAIN w.people = MappedPeople(q.rec)
        /\ q.op # "finalise" => w.people = None
    BY CommitIs
  <2> QED BY <2>1 DEF CommitChanges
<1>2. PeopleOK(recording, people) /\ (Kinds \subseteq raced \/ Sources(recording, people))
  BY StoreIs
<1>3. Kinds \subseteq raced \/ PeopleUndisturbed(q, todo[t], w, people)
  BY ThreadIs DEF ThreadFresh
<1>4. \A r \in Recordings :
         recording'[r] = IF q.op = "finalise" /\ r = q.rec THEN "archived" ELSE recording[r]
  BY CommitRecording
<1> HIDE DEF q, w
<1>5. /\ IsFunction(people') /\ DOMAIN people' = DOMAIN w.people \cup DOMAIN people
      /\ \A p \in DOMAIN people' : people'[p] = IF p \in DOMAIN w.people THEN w.people[p] ELSE people[p]
  BY <1>1 DEF Over, IsFunction
<1>6. DOMAIN w.people \subseteq AllPeople
  BY <1>1, NoneIs DEF AllPeople
<1>7. PeopleOK(recording', people')
  BY <1>1, <1>2, <1>4, <1>5, <1>6 DEF PeopleOK
<1>8. ASSUME ~ (Kinds \subseteq raced), NEW r \in Recordings, recording'[r] = "archived", NEW p \in MappedPeople(r)
      PROVE  p \in DOMAIN people' /\ r \in people'[p]
  <2>1. CASE q.op # "finalise"
    BY <1>1, <1>2, <1>4, <1>5, <1>8, <2>1, NoneIs DEF Sources
  <2>2. CASE q.op = "finalise"
    <3>1. /\ DOMAIN w.people = MappedPeople(q.rec)
          /\ \A x \in MappedPeople(q.rec) :
                w.people[x] = (IF x \in DOMAIN people THEN people[x] ELSE {}) \cup {q.rec}
      BY <1>1, <1>3, <1>8, <2>2 DEF PeopleUndisturbed, Upserted
    <3>2. CASE r = q.rec
      BY <1>5, <3>1, <3>2
    <3>3. CASE r # q.rec
      <4>1. p \in DOMAIN people /\ r \in people[p]
        BY <1>2, <1>4, <1>8, <3>3 DEF Sources
      <4> QED BY <1>5, <3>1, <4>1
    <3> QED BY <3>2, <3>3
  <2> QED BY <2>1, <2>2
<1> QED BY <1>7, <1>8 DEF Sources

LEMMA CommitConflictsOK ==
    ASSUME NEW t \in Threads, IInv, Commit(t)
    PROVE  ConflictsOK(recording', conflicts', decisions')
<1> DEFINE q == req[t]
           w == made[t]
<1>1. /\ IsFunction(conflicts') /\ DOMAIN conflicts' = DOMAIN conflicts \cup DOMAIN w.conflicts
      /\ \A i \in DOMAIN conflicts' :
            conflicts'[i] = IF i \notin DOMAIN w.conflicts THEN conflicts[i]
                            ELSE IF i \in DOMAIN conflicts THEN Over(w.conflicts[i], conflicts[i])
                            ELSE w.conflicts[i]
      /\ IsFunction(decisions') /\ DOMAIN decisions' = DOMAIN w.decisions \cup DOMAIN decisions
  <2>1. /\ conflicts' = [i \in DOMAIN conflicts \cup DOMAIN w.conflicts |->
                           IF i \notin DOMAIN w.conflicts THEN conflicts[i]
                           ELSE IF i \in DOMAIN conflicts THEN Over(w.conflicts[i], conflicts[i])
                           ELSE w.conflicts[i]]
        /\ decisions' = Over(w.decisions, decisions)
    BY CommitIs DEF CommitChanges
  <2> HIDE DEF q, w
  <2>2. DOMAIN conflicts' = DOMAIN conflicts \cup DOMAIN w.conflicts
    BY <2>1
  <2>3. IsFunction(conflicts')
    BY <2>1 DEF IsFunction
  <2>4. ASSUME NEW i \in DOMAIN conflicts'
        PROVE  conflicts'[i] = IF i \notin DOMAIN w.conflicts THEN conflicts[i]
                               ELSE IF i \in DOMAIN conflicts THEN Over(w.conflicts[i], conflicts[i])
                               ELSE w.conflicts[i]
    BY <2>1, <2>2
  <2>5. IsFunction(decisions') /\ DOMAIN decisions' = DOMAIN w.decisions \cup DOMAIN decisions
    BY <2>1, OverIs
  <2> QED BY <2>2, <2>3, <2>4, <2>5
<1>2. ConflictsOK(recording, conflicts, decisions) /\ ConflictWritesOK(w, q, recording, conflicts)
  BY StoreIs, ThreadIs DEF MadeOK
<1>3. \A c \in AllClaims : (q.op = "finalise" /\ c.rec = q.rec) \/ recording[c.rec] \in {"archived", "deleted"}
                           => recording'[c.rec] \in {"archived", "deleted"}
  BY CommitRecording
<1> HIDE DEF q, w
<1>4. DOMAIN decisions' \subseteq DOMAIN conflicts'
  BY <1>1, <1>2 DEF ConflictsOK, ConflictWritesOK
<1>5. ASSUME NEW i \in DOMAIN conflicts' PROVE ConflictOK(i, conflicts'[i], recording')
  <2>1. CASE i \notin DOMAIN w.conflicts
    <3>1. ConflictOK(i, conflicts[i], recording) /\ conflicts'[i] = conflicts[i]
      BY <1>1, <1>2, <2>1 DEF ConflictsOK
    <3> QED BY <1>3, <3>1 DEF ConflictOK, Fits
  <2>2. CASE i \in DOMAIN w.conflicts /\ i \notin DOMAIN conflicts
    <3>1. RowWriteOK(i, w.conflicts[i], q, recording, conflicts) /\ conflicts'[i] = w.conflicts[i]
      BY <1>1, <1>2, <2>2 DEF ConflictWritesOK
    <3> QED BY <1>3, <2>2, <3>1 DEF ConflictOK, RowWriteOK, RowFields, Fits
  <2>3. CASE i \in DOMAIN w.conflicts /\ i \in DOMAIN conflicts
    <3> DEFINE x == w.conflicts[i]
               y == conflicts[i]
               z == conflicts'[i]
    <3>1. RowWriteOK(i, x, q, recording, conflicts) /\ ConflictOK(i, y, recording)
      BY <1>2, <2>3 DEF ConflictsOK, ConflictWritesOK
    <3>2. z = Over(x, y)
      BY <1>1, <2>3
    <3> HIDE DEF x, y, z
    <3>3. IsFunction(z) /\ DOMAIN z = RowFields
      <4>1. DOMAIN x \subseteq RowFields /\ DOMAIN y = RowFields
        BY <3>1 DEF RowWriteOK, ConflictOK
      <4> QED BY <3>2, <4>1 DEF Over, IsFunction
    <3>4. \A a \in RowFields : z[a] = IF a \in DOMAIN x THEN x[a] ELSE y[a]
      BY <3>1, <3>2 DEF Over, ConflictOK, RowWriteOK
    <3>5. /\ z.status = IF "status" \in DOMAIN x THEN x.status ELSE y.status
          /\ z.claims = IF "claims" \in DOMAIN x THEN x.claims ELSE y.claims
          /\ z.preferred = IF "preferred" \in DOMAIN x THEN x.preferred ELSE y.preferred
      BY <3>4 DEF RowFields
    <3>6. z.status \in {"open", "resolved", "dismissed"} /\ z.preferred \subseteq AllClaims
      BY <3>1, <3>5 DEF ConflictOK, RowWriteOK
    <3>7. Fits(i, z.claims) /\ \A c \in z.claims : recording'[c.rec] \in {"archived", "deleted"}
      <4>1. CASE "claims" \in DOMAIN x
        <5>1. /\ Fits(i, x.claims)
              /\ \A c \in x.claims : (q.op = "finalise" /\ c.rec = q.rec) \/ recording[c.rec] \in {"archived", "deleted"}
          BY <3>1, <4>1 DEF RowWriteOK
        <5>2. z.claims = x.claims
          BY <3>5, <4>1
        <5> QED BY <1>3, <5>1, <5>2 DEF Fits
      <4>2. CASE "claims" \notin DOMAIN x
        <5>1. Fits(i, y.claims) /\ \A c \in y.claims : recording[c.rec] \in {"archived", "deleted"}
          BY <3>1 DEF ConflictOK
        <5>2. z.claims = y.claims
          BY <3>5, <4>2
        <5> QED BY <1>3, <5>1, <5>2 DEF Fits
      <4> QED BY <4>1, <4>2
    <3>8. ConflictOK(i, z, recording')
      BY <3>3, <3>6, <3>7 DEF ConflictOK
    <3> QED BY <3>8 DEF z
  <2> QED BY <2>1, <2>2, <2>3
<1> QED BY <1>1, <1>4, <1>5 DEF ConflictsOK

LEMMA CommitView ==
    ASSUME NEW t \in Threads, IInv, Commit(t)
    PROVE  ViewOK(view')
<1> DEFINE w == made[t]
           left(k) == [x \in DOMAIN view[k] \ w.cleared[k] |-> view[k][x]]
<1>1. view' = [k \in Kinds |-> Over(w.rows[k], left(k))]
  BY CommitIs DEF CommitChanges
<1>2. ViewOK(view) /\ \A k \in Kinds : \A x \in DOMAIN w.rows[k] : w.rows[k][x] \subseteq OfKind(AllClaims, k)
  BY StoreIs, ThreadIs DEF MadeOK, WriteShape
<1>3. \A k \in Kinds : /\ DOMAIN left(k) \subseteq DOMAIN view[k]
                       /\ \A x \in DOMAIN left(k) : left(k)[x] = view[k][x]
  OBVIOUS
<1> HIDE DEF left, w
<1>4. IsFunction(view') /\ DOMAIN view' = Kinds
  BY <1>1 DEF IsFunction
<1>5. \A k \in Kinds : view'[k] = Over(w.rows[k], left(k))
  BY <1>1
<1>6. ASSUME NEW k \in Kinds, NEW x \in DOMAIN view'[k] PROVE view'[k][x] \subseteq OfKind(AllClaims, k)
  <2>1. /\ x \in DOMAIN w.rows[k] \cup DOMAIN left(k)
        /\ view'[k][x] = IF x \in DOMAIN w.rows[k] THEN w.rows[k][x] ELSE left(k)[x]
    BY <1>5, <1>6 DEF Over
  <2> QED BY <1>2, <1>3, <2>1 DEF ViewOK
<1> QED BY <1>4, <1>5, <1>6, OverIs DEF ViewOK

LEMMA CommitStep ==
    ASSUME NEW t \in Threads, IInv, Commit(t)
    PROVE  IInv'
<1>1. /\ CommitChanges(t) /\ End(t) /\ raced \subseteq raced' /\ behind' = behind \ KindsOf(t)
      /\ \A k \in KindsOf(t) : k \notin raced' => \A u \in Threads \ {t} : Active(u) => k \notin KindsOf(u)
      /\ \A k \in Kinds : k \in KindsOf(t) <=> WorksOn(req[t], k)
  BY CommitIs DEF CommitChanges, Races, Others
<1>2. ArchiveOK(recording', people', status', conflicts', decisions', view')
  BY CommitStatusOK, CommitPeople, CommitConflictsOK, CommitView DEF ArchiveOK
<1>3. ASSUME NEW k \in Kinds \ raced'
      PROVE  KindOK(k, StatusPart(status', k), Part(conflicts', k), Part(decisions', k), view'[k], DOMAIN people', behind')
  <2>1. CASE k \in KindsOf(t)
    BY <1>1, <2>1, CommitKind
  <2>2. CASE k \notin KindsOf(t)
    <3>1. KindOK(k, StatusPart(status, k), Part(conflicts, k), Part(decisions, k), view[k], DOMAIN people, behind)
      BY <1>1, StoreIs
    <3>2. KindOK(k, StatusPart(status', k), Part(conflicts', k), Part(decisions', k), view'[k], DOMAIN people', behind)
      BY <2>2, <3>1, CommitElsewhere
    <3> QED BY <1>1, <2>2, <3>2 DEF KindOK
  <2> QED BY <2>1, <2>2
<1>4. Kinds \subseteq raced' \/ Sources(recording', people')
  BY <1>1, CommitPeople
<1>5. StoreInv'
  BY <1>2, <1>3, <1>4 DEF StoreInv, Undisputed
<1>6. ASSUME NEW u \in Threads \ {t} PROVE ThreadInv(u)'
  <2> DEFINE q == req[u]
  <2>1. /\ ThreadOK(q, loaded[u], todo[u], made[u], recording, status, conflicts)
        /\ ThreadFresh(q, loaded[u], todo[u], made[u], people, status, conflicts, decisions, view, raced)
    BY DEF IInv, ThreadInv
  <2>2. ASSUME q.op = "finalise" PROVE FinaliseOK(q, recording')
    <3>1. FinaliseOK(q, recording) /\ q.rec \in Recordings
      BY <2>2, ThreadIs, RequestIs
    <3>2. recording'[q.rec] = recording[q.rec]
      BY <2>2, <3>1, CommitRecording DEF IInv, OneFinalisation
    <3> QED BY <3>1, <3>2 DEF FinaliseOK
  <2>3. DOMAIN conflicts \subseteq DOMAIN conflicts'
    BY <1>1 DEF CommitChanges
  <2>4. \A c \in DOMAIN made[u].claims : c \in AllClaims
    BY ThreadIs DEF MadeOK
  <2>5. ThreadOK(q, loaded[u], todo[u], made[u], recording', status', conflicts')
    BY <2>1, <2>2, <2>3, <2>4, CommitRecording, CommitStatusOK, OtherThreadOK
  <2>6. \A k \in Kinds : WorksOn(q, k) => Active(u) /\ k \in KindsOf(u)
    BY DEF WorksOn, Active, KindsOf
  <2>7. ASSUME NEW k \in Kinds \ raced', WorksOn(q, k)
        PROVE  Undisturbed(k, q, loaded[u], todo[u], made[u], StatusPart(status', k), Part(conflicts', k),
                           Part(decisions', k), view'[k], people')
    <3>1. k \notin KindsOf(t)
      BY <1>1, <2>6, <2>7
    <3>2. Undisturbed(k, q, loaded[u], todo[u], made[u], StatusPart(status, k), Part(conflicts, k),
                      Part(decisions, k), view[k], people)
      BY <1>1, <2>1, <2>7 DEF ThreadFresh
    <3> HIDE DEF q
    <3> QED BY <3>1, <3>2, CommitElsewhere
  <2>8. Kinds \subseteq raced' \/ PeopleUndisturbed(q, todo[u], made[u], people')
    <3>1. CASE q.op # "finalise"
      BY <3>1 DEF PeopleUndisturbed
    <3>2. CASE q.op = "finalise" /\ \E k \in Kinds : k \notin KindsOf(t)
      <4>1. people' = people
        BY <3>2, CommitElsewhere
      <4> QED BY <1>1, <2>1, <4>1 DEF ThreadFresh
    <3>3. CASE q.op = "finalise" /\ \A k \in Kinds : k \in KindsOf(t)
      <4>1. \A k \in Kinds : WorksOn(q, k)
        BY <3>3 DEF WorksOn
      <4> QED BY <1>1, <2>6, <3>3, <4>1
    <3> QED BY <3>1, <3>2, <3>3
  <2>9. ThreadFresh(q, loaded[u], todo[u], made[u], people', status', conflicts', decisions', view', raced')
    BY <2>7, <2>8 DEF ThreadFresh
  <2> QED BY <1>1, <2>5, <2>9, EndIs DEF ThreadInv
<1> QED BY <1>1, <1>5, <1>6, EndIs DEF IInv

-----------------------------------------------------------------------------
(* The deletion of a recording.                                            *)

\* What is settled stays so when claims go.
LEMMA SettledWithout ==
    ASSUME NEW k, NEW s, NEW ns, NEW cf, NEW de, Settled(k, s, cf, de),
           \A c \in OfKind(AllClaims, k) : ns[c] = s[c] \/ ns[c] = "absent"
    PROVE  Settled(k, ns, cf, de)
<1>1. /\ Present(k, ns) \subseteq Present(k, s)
      /\ \A c \in Present(k, ns) : ns[c] = s[c]
  BY DEF Present
<1>2. OneLive(k, ns, cf)
  BY <1>1 DEF Settled, OneLive
<1>3. Contested(k, ns, cf)
  <2> SUFFICES ASSUME NEW c \in Present(k, ns), NEW d \in Present(k, ns),
                      ClaimIsGrounded(c), ClaimIsGrounded(d), Disagree(c, d)
               PROVE  \E i \in DOMAIN cf : /\ c \in cf[i].claims /\ d \in cf[i].claims
                                           /\ ns[c] = ConflictStatus(cf[i], c)
    BY DEF Contested
  <2>1. c \in Present(k, s) /\ d \in Present(k, s) /\ ns[c] = s[c]
    BY <1>1
  <2> QED BY <2>1 DEF Settled, Contested
<1>4. RejectedIn(k, ns, cf)
  <2> SUFFICES ASSUME NEW c \in Present(k, ns), ns[c] = "rejected"
               PROVE  \E i \in DOMAIN cf : c \in cf[i].claims /\ ConflictStatus(cf[i], c) = "rejected"
    BY DEF RejectedIn
  <2> QED BY <1>1 DEF Settled, RejectedIn
<1>5. NotGrounded(k, ns)
  BY <1>1 DEF Settled, NotGrounded
<1> QED BY <1>2, <1>3, <1>4, <1>5 DEF Settled

LEMMA DeleteStep ==
    ASSUME NEW r \in Recordings, IInv, DeleteRecording(r)
    PROVE  IInv'
<1> DEFINE K == {c.type : c \in {d \in Stored : d.rec = r}}
<1>1. /\ UNCHANGED <<people, conflicts, decisions, view, req, loaded, todo, made, reviews>>
      /\ recording' = [recording EXCEPT ![r] = "deleted"]
      /\ status' = [c \in AllClaims |-> IF c.rec = r THEN "absent" ELSE status[c]]
      /\ raced' = raced \cup {k \in K : \E u \in Threads : Active(u) /\ k \in KindsOf(u)}
      /\ behind' = behind \cup K
      /\ \A u \in Threads : /\ req[u].rec = r => At(u, "people")
                            /\ DOMAIN made[u].claims \cap ClaimsOf(r) = {}
  BY DEF DeleteRecording
<1>2. StatusOK(recording, status) /\ PeopleOK(recording, people)
      /\ ConflictsOK(recording, conflicts, decisions) /\ ViewOK(view)
      /\ (Kinds \subseteq raced \/ Sources(recording, people))
  BY StoreIs
<1>3. /\ recording' \in [Recordings -> {"pending", "archived", "failed", "deleted"}]
      /\ \A x \in Recordings : recording'[x] = IF x = r THEN "deleted" ELSE recording[x]
      /\ \A c \in AllClaims : c.rec \in Recordings
  BY <1>1, <1>2, ClaimIn DEF StatusOK
<1>4. /\ \A c \in AllClaims : status'[c] = IF c.rec = r THEN "absent" ELSE status[c]
      /\ status' \in [AllClaims -> ClaimStatus \cup {"absent"}]
  BY <1>1, <1>2 DEF StatusOK
<1>5. \A k : k \notin K => \A c \in OfKind(AllClaims, k) : status'[c] = status[c]
  <2> SUFFICES ASSUME NEW k, k \notin K, NEW c \in OfKind(AllClaims, k), c.rec = r
               PROVE  status[c] = "absent"
    BY <1>4, KindsOfClaims
  <2>1. c \in AllClaims /\ c.type = k
    BY KindsOfClaims
  <2> QED BY <2>1 DEF Stored
<1>6. \A k : k \notin K => StatusPart(status', k) = StatusPart(status, k)
  BY <1>5 DEF StatusPart
<1> HIDE DEF K
<1>7. StatusOK(recording', status')
  BY <1>2, <1>3, <1>4 DEF StatusOK
<1>8. PeopleOK(recording', people')
  BY <1>1, <1>2, <1>3 DEF PeopleOK
<1>9. ConflictsOK(recording', conflicts', decisions')
  <2>1. ASSUME NEW i \in DOMAIN conflicts PROVE ConflictOK(i, conflicts[i], recording')
    <3>1. ConflictOK(i, conflicts[i], recording)
      BY <1>2 DEF ConflictsOK
    <3> QED BY <1>3, <3>1 DEF ConflictOK, Fits
  <2> QED BY <1>1, <1>2, <2>1 DEF ConflictsOK
<1>10. Kinds \subseteq raced' \/ Sources(recording', people')
  BY <1>1, <1>2, <1>3 DEF Sources
<1>11. ASSUME NEW k \in Kinds \ raced'
       PROVE  KindOK(k, StatusPart(status', k), Part(conflicts, k), Part(decisions, k), view[k], DOMAIN people, behind')
  <2>1. KindOK(k, StatusPart(status, k), Part(conflicts, k), Part(decisions, k), view[k], DOMAIN people, behind)
    BY <1>1, <1>11, StoreIs
  <2>2. CASE k \notin K
    <3>1. KindOK(k, StatusPart(status', k), Part(conflicts, k), Part(decisions, k), view[k], DOMAIN people, behind)
      BY <1>6, <2>1, <2>2
    <3> QED BY <1>1, <2>2, <3>1 DEF KindOK
  <2>3. CASE k \in K
    <3>1. \A c \in OfKind(AllClaims, k) : \/ StatusPart(status', k)[c] = StatusPart(status, k)[c]
                                          \/ StatusPart(status', k)[c] = "absent"
      BY <1>4, KindsOfClaims, StatusPartIs
    <3>2. Settled(k, StatusPart(status', k), Part(conflicts, k), Part(decisions, k))
      BY <2>1, <3>1, SettledWithout DEF KindOK
    <3>3. \A x \in DOMAIN view[k] : view[k][x] \subseteq OfKind(AllClaims, k)
      BY <1>2 DEF ViewOK
    <3>4. NoneDisputed(k, StatusPart(status', k), view[k])
      BY <2>1, <3>1, <3>3 DEF KindOK, NoneDisputed
    <3> QED BY <1>1, <2>3, <3>2, <3>4 DEF KindOK
  <2> QED BY <2>2, <2>3
<1>12. StoreInv'
  BY <1>1, <1>2, <1>7, <1>8, <1>9, <1>10, <1>11 DEF StoreInv, ArchiveOK, Undisputed
<1>13. ASSUME NEW u \in Threads PROVE ThreadInv(u)'
  <2> DEFINE q == req[u]
  <2>1. /\ ThreadOK(q, loaded[u], todo[u], made[u], recording, status, conflicts)
        /\ ThreadFresh(q, loaded[u], todo[u], made[u], people, status, conflicts, decisions, view, raced)
    BY DEF IInv, ThreadInv
  <2>2. ASSUME q.op = "finalise" PROVE FinaliseOK(q, recording')
    <3>1. FinaliseOK(q, recording) /\ q.rec \in Recordings
      BY <2>2, ThreadIs, RequestIs
    <3>2. CASE q.rec # r
      <4>1. recording'[q.rec] = recording[q.rec]
        BY <1>3, <3>1, <3>2
      <4> QED BY <3>1, <4>1 DEF FinaliseOK
    <3>3. CASE q.rec = r
      <4>1. q.at = "people" /\ recording'[q.rec] = "deleted"
        BY <1>1, <1>3, <3>3 DEF At
      <4> QED BY <3>1, <4>1 DEF FinaliseOK
    <3> QED BY <3>2, <3>3
  <2>3. \A c \in DOMAIN made[u].claims : status'[c] = status[c]
    <3>1. \A c \in DOMAIN made[u].claims : c \in AllClaims
      BY ThreadIs DEF MadeOK
    <3> QED BY <1>1, <1>4, <3>1, ClaimsIn
  <2>4. ThreadOK(q, loaded[u], todo[u], made[u], recording', status', conflicts)
    BY <1>3, <2>1, <2>2, <2>3, OtherThreadOK
  <2>5. ASSUME NEW k \in Kinds \ raced', WorksOn(q, k)
        PROVE  Undisturbed(k, q, loaded[u], todo[u], made[u], StatusPart(status', k), Part(conflicts, k),
                           Part(decisions, k), view[k], people)
    <3>1. Active(u) /\ k \in KindsOf(u)
      BY <2>5 DEF WorksOn, Active, KindsOf
    <3>2. k \notin K
      BY <1>1, <2>5, <3>1
    <3>3. Undisturbed(k, q, loaded[u], todo[u], made[u], StatusPart(status, k), Part(conflicts, k),
                      Part(decisions, k), view[k], people)
      BY <1>1, <2>1, <2>5 DEF ThreadFresh
    <3> QED BY <1>6, <3>2, <3>3
  <2>6. ThreadFresh(q, loaded[u], todo[u], made[u], people, status', conflicts, decisions, view, raced')
    BY <1>1, <2>1, <2>5 DEF ThreadFresh
  <2> QED BY <1>1, <2>4, <2>6 DEF ThreadInv
<1> QED BY <1>1, <1>12, <1>13 DEF IInv, Shape, OneFinalisation

-----------------------------------------------------------------------------
(* The invariant.                                                          *)

LEMMA InitIInv == Init => IInv
<1> SUFFICES ASSUME Init PROVE IInv
  OBVIOUS
<1>1. /\ recording = [r \in Recordings |-> "pending"] /\ people = [p \in KnownPeople |-> {}]
      /\ status = [c \in AllClaims |-> "absent"] /\ conflicts = None /\ decisions = None
      /\ view = [k \in Kinds |-> IF k = "attribute" THEN [p \in KnownPeople |-> {}] ELSE None]
      /\ req = [t \in Threads |-> Nobody] /\ loaded = [t \in Threads |-> None]
      /\ todo = [t \in Threads |-> NoWrites] /\ made = [t \in Threads |-> NoWrites]
  BY DEF Init
<1>2. Shape /\ \A t \in Threads : ThreadInv(t)
  BY <1>1, NobodyIs DEF Shape, ThreadInv
<1>3. OneFinalisation
  BY <1>1 DEF OneFinalisation, Nobody
<1>4. StatusOK(recording, status)
  BY <1>1, ClaimIn DEF StatusOK
<1>5. PeopleOK(recording, people) /\ Sources(recording, people)
  BY <1>1 DEF PeopleOK, Sources, IsFunction, AllPeople
<1>6. ConflictsOK(recording, conflicts, decisions)
  BY <1>1, NoneIs DEF ConflictsOK
<1>7. \A k \in Kinds : /\ IsFunction(view[k]) /\ \A x \in DOMAIN view[k] : view[k][x] = {}
                       /\ k = "attribute" => DOMAIN view[k] = DOMAIN people
  BY <1>1, NoneIs DEF IsFunction
<1>8. ViewOK(view)
  <2>1. IsFunction(view) /\ DOMAIN view = Kinds
    BY <1>1 DEF IsFunction
  <2> QED BY <1>7, <2>1 DEF ViewOK
<1>9. ASSUME NEW k \in Kinds
      PROVE  KindOK(k, StatusPart(status, k), Part(conflicts, k), Part(decisions, k), view[k], DOMAIN people, behind)
  <2>1. Present(k, StatusPart(status, k)) = {}
    BY <1>1, KindsOfClaims, StatusPartIs
  <2>2. DOMAIN Part(conflicts, k) = {}
    BY <1>1, NoneIs, PartIs
  <2>3. Settled(k, StatusPart(status, k), Part(conflicts, k), Part(decisions, k))
    BY <2>1, <2>2 DEF Settled, AsDecided, OnePreferred, OneLive, Contested, RejectedIn, NotGrounded
  <2>4. Shows(k, StatusPart(status, k), view[k], DOMAIN people)
    BY <1>7, <2>1 DEF Shows
  <2> QED BY <1>7, <2>3, <2>4 DEF KindOK, NoneDisputed
<1>10. StoreInv
  BY <1>4, <1>5, <1>6, <1>8, <1>9 DEF StoreInv, ArchiveOK, Undisputed
<1> QED BY <1>2, <1>3, <1>10 DEF IInv

LEMMA NextIInv == IInv /\ [Next]_vars => IInv'
<1> SUFFICES ASSUME IInv, [Next]_vars PROVE IInv'
  OBVIOUS
<1>1. CASE UNCHANGED vars
  BY <1>1 DEF vars, IInv, Shape, OneFinalisation, StoreInv, ThreadInv
<1>2. ASSUME NEW t \in Threads, NEW r \in Recordings, BeginFinalise(t, r) PROVE IInv'
  BY <1>2, BeginFinaliseStep
<1>3. ASSUME NEW t \in Threads, NEW i \in DOMAIN conflicts, NEW note \in Notes,
             (\E c \in conflicts[i].claims : Resolve(t, i, c, note)) \/ Dismiss(t, i, note) \/ Reopen(t, i, note)
      PROVE  IInv'
  BY <1>3, ReviewStep
<1>4. ASSUME NEW t \in Threads, RecordingGone(t) \/ WriteError(t) \/ InsertError(t) \/ AbortTransaction(t)
      PROVE  IInv'
  BY <1>4, RollbackStep DEF RecordingGone, WriteError, InsertError, AbortTransaction, At
<1>5. ASSUME NEW t \in Threads, UpdatePeople(t) PROVE IInv'
  BY <1>5, UpdatePeopleStep
<1>6. ASSUME NEW t \in Threads, ReadAndReconcile(t) PROVE IInv'
  BY <1>6, ReadStep
<1>7. ASSUME NEW t \in Threads, WriteClaims(t) PROVE IInv'
  BY <1>7, WriteStep
<1>8. ASSUME NEW t \in Threads, ClearWaits(t) PROVE IInv'
  BY <1>8, WaitsStep
<1>9. ASSUME NEW t \in Threads, Clear(t) PROVE IInv'
  BY <1>9, ClearStep
<1>10. ASSUME NEW t \in Threads, Insert(t) PROVE IInv'
  BY <1>10, InsertStep
<1>11. ASSUME NEW t \in Threads, Commit(t) PROVE IInv'
  BY <1>11, CommitStep
<1>12. ASSUME NEW r \in Recordings, DeleteRecording(r) PROVE IInv'
  BY <1>12, DeleteStep
<1> QED BY <1>1, <1>2, <1>3, <1>4, <1>5, <1>6, <1>7, <1>8, <1>9, <1>10, <1>11, <1>12, SMT DEF Next

-----------------------------------------------------------------------------
(* What the invariant says of the archive.                                 *)

LEMMA TypeIs == IInv => TypeOK
<1> SUFFICES ASSUME IInv PROVE TypeOK
  OBVIOUS
<1>1. /\ StatusOK(recording, status) /\ PeopleOK(recording, people)
      /\ ConflictsOK(recording, conflicts, decisions) /\ ViewOK(view)
  BY StoreIs
<1>2. \A i \in DOMAIN conflicts : ConflictOK(i, conflicts[i], recording)
  BY <1>1 DEF ConflictsOK
<1>3. \A i \in DOMAIN conflicts : /\ conflicts[i].status \in {"open", "resolved", "dismissed"}
                                  /\ conflicts[i].claims \subseteq AllClaims
                                  /\ conflicts[i].preferred \subseteq AllClaims
  BY <1>2 DEF ConflictOK, Fits
<1> QED BY <1>1, <1>3 DEF TypeOK, StatusOK, PeopleOK, ConflictsOK, ViewOK

LEMMA ClaimsFollow == IInv => ClaimsFollowRecordings
<1> SUFFICES ASSUME IInv PROVE Stored = UNION {ClaimsOf(r) : r \in Archived}
  BY DEF ClaimsFollowRecordings
<1>1. \A c \in AllClaims : status[c] # "absent" <=> recording[c.rec] = "archived"
  BY StoreIs DEF StatusOK
<1>2. \A c : c \in Stored <=> c \in AllClaims /\ recording[c.rec] = "archived"
  BY <1>1 DEF Stored
<1>3. \A c : c \in UNION {ClaimsOf(r) : r \in Archived} <=> \E r \in Recordings : recording[r] = "archived" /\ c \in ClaimsOf(r)
  BY DEF Archived
<1>4. \A c : (\E r \in Recordings : recording[r] = "archived" /\ c \in ClaimsOf(r))
             <=> c \in AllClaims /\ recording[c.rec] = "archived"
  BY ClaimsIn, ClaimIn
<1> QED BY <1>2, <1>3, <1>4

\* A kind without overlaps, in the terms of the archive's variables.
LEMMA KindIs ==
    ASSUME IInv, NEW k \in Kinds \ raced
    PROVE  /\ \A i \in DOMAIN conflicts : KindOf(i) = k =>
                 /\ IF i \in DOMAIN decisions THEN /\ conflicts[i].status = decisions[i].status
                                                   /\ conflicts[i].preferred = decisions[i].preferred
                    ELSE conflicts[i].status = "open"
                 /\ conflicts[i].preferred \subseteq conflicts[i].claims
                 /\ \A c, d \in conflicts[i].preferred : c = d
           /\ \A i, j \in DOMAIN conflicts : KindOf(i) = k /\ KindOf(j) = k =>
                 \A c \in conflicts[i].claims \cap OfKind(Stored, k), d \in conflicts[j].claims \cap OfKind(Stored, k) :
                    Topic(c) = Topic(d) => i = j
           /\ \A c, d \in OfKind(Stored, k) : (ClaimIsGrounded(c) /\ ClaimIsGrounded(d) /\ Disagree(c, d))
                 => \E i \in DOMAIN conflicts : /\ KindOf(i) = k /\ c \in conflicts[i].claims /\ d \in conflicts[i].claims
                                                /\ status[c] = ConflictStatus(conflicts[i], c)
           /\ \A c \in OfKind(Stored, k) : ~ ClaimIsGrounded(c) => status[c] = BaseStatus(c)
           /\ \A x \in DOMAIN view[k] : \A c \in view[k][x] : status[c] # "disputed"
           /\ k \notin behind => /\ UNION {view[k][x] : x \in DOMAIN view[k]} = Standing(k)
                                 /\ \A x \in DOMAIN view[k] : \A c \in view[k][x] : ProjectionKey(c) = x
                                 /\ k = "attribute" => DOMAIN view[k] = DOMAIN people
<1> DEFINE s == StatusPart(status, k)
           cf == Part(conflicts, k)
           de == Part(decisions, k)
<1>1. /\ Settled(k, s, cf, de) /\ NoneDisputed(k, s, view[k])
      /\ k \notin behind => Shows(k, s, view[k], DOMAIN people)
  BY StoreIs DEF KindOK
<1>2. /\ DOMAIN cf = {i \in DOMAIN conflicts : KindOf(i) = k} /\ \A i \in DOMAIN cf : cf[i] = conflicts[i]
      /\ DOMAIN de = {i \in DOMAIN decisions : KindOf(i) = k} /\ \A i \in DOMAIN de : de[i] = decisions[i]
  BY PartIs
<1>3. Present(k, s) = OfKind(Stored, k) /\ \A c \in OfKind(AllClaims, k) : s[c] = status[c]
  BY StatusPartIs DEF OfKind, Stored
<1>4. \A c \in OfKind(Stored, k) : s[c] = status[c]
  BY <1>3 DEF OfKind, Stored
<1> HIDE DEF s, cf, de
<1>5. \A i \in DOMAIN conflicts : KindOf(i) = k =>
         /\ IF i \in DOMAIN decisions THEN /\ conflicts[i].status = decisions[i].status
                                           /\ conflicts[i].preferred = decisions[i].preferred
            ELSE conflicts[i].status = "open"
         /\ conflicts[i].preferred \subseteq conflicts[i].claims
         /\ \A c, d \in conflicts[i].preferred : c = d
  <2> TAKE i \in DOMAIN conflicts
  <2> HAVE KindOf(i) = k
  <2>1. i \in DOMAIN cf /\ cf[i] = conflicts[i] /\ (i \in DOMAIN decisions <=> i \in DOMAIN de)
        /\ (i \in DOMAIN de => de[i] = decisions[i])
    BY <1>2
  <2> QED BY <1>1, <2>1 DEF Settled, AsDecided, OnePreferred
<1>6. \A i, j \in DOMAIN conflicts : KindOf(i) = k /\ KindOf(j) = k =>
         \A c \in conflicts[i].claims \cap OfKind(Stored, k), d \in conflicts[j].claims \cap OfKind(Stored, k) :
            Topic(c) = Topic(d) => i = j
  BY <1>1, <1>2, <1>3 DEF Settled, OneLive
<1>7. ASSUME NEW c \in OfKind(Stored, k), NEW d \in OfKind(Stored, k),
             ClaimIsGrounded(c), ClaimIsGrounded(d), Disagree(c, d)
      PROVE  \E i \in DOMAIN conflicts : /\ KindOf(i) = k /\ c \in conflicts[i].claims /\ d \in conflicts[i].claims
                                         /\ status[c] = ConflictStatus(conflicts[i], c)
  <2>1. PICK i \in DOMAIN cf : c \in cf[i].claims /\ d \in cf[i].claims /\ s[c] = ConflictStatus(cf[i], c)
    BY <1>1, <1>3, <1>7 DEF Settled, Contested
  <2>2. i \in DOMAIN conflicts /\ KindOf(i) = k /\ cf[i] = conflicts[i] /\ s[c] = status[c]
    BY <1>2, <1>4, <2>1
  <2> QED BY <2>1, <2>2
<1>8. \A c \in OfKind(Stored, k) : ~ ClaimIsGrounded(c) => status[c] = BaseStatus(c)
  BY <1>1, <1>3, <1>4 DEF Settled, NotGrounded
<1>9. ASSUME NEW x \in DOMAIN view[k], NEW c \in view[k][x] PROVE status[c] # "disputed"
  <2>1. c \in OfKind(AllClaims, k)
    BY <1>9, StoreIs DEF ViewOK
  <2> QED BY <1>1, <1>3, <2>1 DEF NoneDisputed
<1>10. {c \in Present(k, s) : Stands(s, c)} = Standing(k)
  BY <1>3, <1>4 DEF Standing, Stands
<1>11. k \notin behind => /\ UNION {view[k][x] : x \in DOMAIN view[k]} = Standing(k)
                          /\ \A x \in DOMAIN view[k] : \A c \in view[k][x] : ProjectionKey(c) = x
                          /\ k = "attribute" => DOMAIN view[k] = DOMAIN people
  BY <1>1, <1>10 DEF Shows
<1> QED BY <1>5, <1>6, <1>7, <1>8, <1>9, <1>11

LEMMA Decisions == IInv => DecisionStands /\ PreferredIsClaim
BY KindIs, KindOfIs DEF DecisionStands, PreferredIsClaim

LEMMA Reviewed == IInv => ContradictionsAreReviewed
<1> SUFFICES ASSUME IInv, NEW c \in Stored, NEW d \in Stored, c.type \notin raced,
                    ClaimIsGrounded(c), ClaimIsGrounded(d), Disagree(c, d)
             PROVE  \E i \in DOMAIN conflicts : /\ {c, d} \subseteq conflicts[i].claims
                                                /\ i \in ReviewItems \/ i \in DOMAIN decisions
  BY DEF ContradictionsAreReviewed
<1> DEFINE k == c.type
<1>1. k \in Kinds \ raced /\ c \in OfKind(Stored, k) /\ d \in OfKind(Stored, k)
  BY ClaimIn, DisagreeIs DEF Stored, OfKind
<1>2. PICK i \in DOMAIN conflicts : KindOf(i) = k /\ c \in conflicts[i].claims /\ d \in conflicts[i].claims
  BY <1>1, KindIs
<1>3. i \in DOMAIN decisions \/ conflicts[i].status = "open"
  BY <1>1, <1>2, KindIs
<1> QED BY <1>2, <1>3 DEF ReviewItems

LEMMA Projections == IInv => ProjectionsAreCurrent
BY KindIs DEF ProjectionsAreCurrent

LEMMA SourcesKept == IInv => PeopleKeepSources
BY StoreIs DEF PeopleKeepSources, Sources, Archived

LEMMA NoSelfContradiction ==
    ASSUME NEW c \in AllClaims
    PROVE  ~ Disagree(c, c)
<1>1. CASE c.type = "relationship"
  <2>1. c.predicate \notin {"birth_date", "death_date", "alias"}
    BY <1>1, PredicateIs
  <2> QED BY <1>1, <2>1 DEF Disagree
<1>2. CASE c.type # "relationship"
  BY <1>2 DEF Disagree
<1> QED BY <1>1, <1>2

LEMMA DisagreeBack ==
    ASSUME NEW c \in AllClaims, NEW d \in AllClaims, Disagree(c, d)
    PROVE  Disagree(d, c)
<1>1. Topic(c) = Topic(d) /\ c.type = d.type
  BY DisagreeIs
<1>2. CASE c.type = "relationship"
  <2>1. /\ c.predicate \notin {"birth_date", "death_date", "alias"}
        /\ d.predicate \notin {"birth_date", "death_date", "alias"}
    BY <1>1, <1>2, PredicateIs
  <2>2. RelationshipSignature(c) # RelationshipSignature(d)
    BY <1>2, <2>1 DEF Disagree
  <2> QED BY <1>1, <1>2, <2>1, <2>2 DEF Disagree
<1>3. CASE c.type # "relationship" /\ c.predicate = "alias"
  <2>1. Topic(c) = <<"identity", "alias", c.value>> /\ c.subject # d.subject
    BY <1>3 DEF Topic, Disagree
  <2>2. d.predicate = "alias"
    BY <1>1, <1>3, <2>1 DEF Topic
  <2> QED BY <1>1, <1>3, <2>1, <2>2 DEF Disagree
<1>4. CASE c.type # "relationship" /\ c.predicate \in {"birth_date", "death_date"}
  <2>1. Topic(c) = <<"temporal", c.subject, c.predicate>> /\ c.value # d.value
    BY <1>4 DEF Topic, Disagree
  <2>2. d.predicate \in {"birth_date", "death_date"}
    <3>1. CASE d.predicate = "alias"
      BY <1>1, <1>4, <2>1, <3>1 DEF Topic
    <3>2. CASE d.predicate \notin {"alias", "birth_date", "death_date"}
      BY <1>1, <1>4, <2>1, <3>2 DEF Topic
    <3> QED BY <3>1, <3>2
  <2> QED BY <1>1, <1>4, <2>1, <2>2 DEF Disagree
<1>5. CASE c.type # "relationship" /\ c.predicate \notin {"alias", "birth_date", "death_date"}
  BY <1>5 DEF Disagree
<1> QED BY <1>2, <1>3, <1>4, <1>5

\* What the bundle of a book contains of a kind without overlaps: grounded claims, disputed
\* ones only of a conflict that is within the selection.
LEMMA BundleIs ==
    ASSUME IInv, NEW S, NEW c \in BundleClaims(S), c.type \notin raced
    PROVE  /\ c \in AllClaims /\ c \in OfKind(Stored, c.type) /\ c.type \in Kinds \ raced
           /\ ClaimIsGrounded(c) /\ status[c] \in {"active", "accepted", "disputed"}
           /\ status[c] = "disputed" => \E i \in DOMAIN conflicts : WithinSelection(S, i) /\ c \in conflicts[i].claims
<1> DEFINE whole == UNION {conflicts[i].claims : i \in {j \in DOMAIN conflicts : WithinSelection(S, j)}}
<1>1. c \in Stored /\ BookTruthEligible(c, status[c], S, c \in whole)
  BY DEF BundleClaims
<1>2. c \in AllClaims /\ c \in OfKind(Stored, c.type) /\ c.type \in Kinds \ raced
  BY <1>1, ClaimIn DEF Stored, OfKind
<1>3. c \in whole => \E i \in DOMAIN conflicts : WithinSelection(S, i) /\ c \in conflicts[i].claims
  OBVIOUS
<1> HIDE DEF whole
<1>4. ~ ClaimIsGrounded(c) => status[c] = BaseStatus(c)
  BY <1>2, KindIs
<1>5. ClaimIsGrounded(c)
  <2>1. BookTruthEligible(c, status[c], S, TRUE)
    BY <1>1 DEF BookTruthEligible
  <2> QED BY <1>2, <1>4, <2>1, EligibleIsGrounded
<1>6. status[c] \in {"active", "accepted"} \/ (c \in whole /\ status[c] = "disputed")
  BY <1>1 DEF BookTruthEligible
<1> QED BY <1>2, <1>3, <1>5, <1>6

LEMMA BundleHas ==
    ASSUME NEW S, NEW i \in DOMAIN conflicts, WithinSelection(S, i), NEW e \in conflicts[i].claims,
           e \in AllClaims, ClaimIsGrounded(e)
    PROVE  e \in BundleClaims(S)
<1> DEFINE whole == UNION {conflicts[j].claims : j \in {h \in DOMAIN conflicts : WithinSelection(S, h)}}
<1>1. e.rec \in S /\ status[e] \in {"active", "accepted", "disputed"}
  BY DEF WithinSelection
<1>2. e \in whole
  OBVIOUS
<1>3. BookTruthEligible(e, status[e], S, TRUE)
  BY <1>1, GroundedIsEligible
<1>4. BookTruthEligible(e, status[e], S, e \in whole)
  <2> HIDE DEF whole
  <2> QED BY <1>2, <1>3 DEF BookTruthEligible
<1>5. e \in Stored
  BY <1>1 DEF Stored
<1> QED BY <1>4, <1>5 DEF BundleClaims

LEMMA BookSees == IInv => BookSeesConflicts
<1> SUFFICES ASSUME IInv, NEW S \in SUBSET Archived
             PROVE  /\ \A c, d \in BundleClaims(S) :
                          (c.type \notin raced /\ ClaimIsGrounded(c) /\ Disagree(c, d))
                          => \E i \in BundleConflicts(S) : {c, d} \subseteq conflicts[i].claims
                    /\ "relationship" \in raced \/ \A x \in BundleRelationships(S) :
                          \A c \in view["relationship"][x] : status[c] # "disputed"
  BY DEF BookSeesConflicts
<1>1. ASSUME NEW c \in BundleClaims(S), NEW d \in BundleClaims(S), c.type \notin raced, Disagree(c, d)
      PROVE  \E i \in BundleConflicts(S) : {c, d} \subseteq conflicts[i].claims
  <2> DEFINE k == c.type
  <2>1. /\ c \in AllClaims /\ c \in OfKind(Stored, k) /\ k \in Kinds \ raced /\ ClaimIsGrounded(c)
        /\ status[c] \in {"active", "accepted", "disputed"}
        /\ status[c] = "disputed" => \E i \in DOMAIN conflicts : WithinSelection(S, i) /\ c \in conflicts[i].claims
    BY <1>1, BundleIs
  <2>2. d \in AllClaims
    BY DEF BundleClaims, Stored
  <2>3. d.type = k /\ Topic(c) = Topic(d)
    BY <1>1, <2>1, <2>2, DisagreeIs
  <2>4. d \in OfKind(Stored, k) /\ ClaimIsGrounded(d) /\ status[d] \in {"active", "accepted", "disputed"}
    BY <1>1, <2>3, BundleIs
  <2> HIDE DEF k
  <2>5. PICK i \in DOMAIN conflicts : /\ KindOf(i) = k /\ c \in conflicts[i].claims /\ d \in conflicts[i].claims
                                      /\ status[c] = ConflictStatus(conflicts[i], c)
    BY <1>1, <2>1, <2>4, KindIs
  <2>6. Disagree(d, c)
    BY <1>1, <2>1, <2>2, DisagreeBack
  <2>7. PICK j \in DOMAIN conflicts : /\ KindOf(j) = k /\ d \in conflicts[j].claims /\ c \in conflicts[j].claims
                                      /\ status[d] = ConflictStatus(conflicts[j], d)
    BY <2>1, <2>4, <2>6, KindIs
  <2>8. j = i
    BY <2>1, <2>4, <2>5, <2>7, KindIs
  <2>9. conflicts[i].status \in {"open", "resolved", "dismissed"}
        /\ \A e \in conflicts[i].claims : e \in AllClaims /\ ClaimIsGrounded(e)
    BY ConflictClaims DEF ConflictOK, Fits
  <2>10. CASE conflicts[i].status = "resolved"
    <3>1. c \in conflicts[i].preferred /\ d \in conflicts[i].preferred
      BY <2>1, <2>4, <2>5, <2>7, <2>8, <2>10 DEF ConflictStatus
    <3>2. c = d
      BY <2>1, <2>5, <3>1, KindIs
    <3> QED BY <1>1, <2>1, <3>2, NoSelfContradiction
  <2>11. CASE conflicts[i].status = "dismissed"
    BY <2>1, <2>5, <2>11 DEF ConflictStatus
  <2>12. CASE conflicts[i].status = "open"
    <3>1. status[c] = "disputed"
      BY <2>5, <2>12 DEF ConflictStatus
    <3>2. PICK h \in DOMAIN conflicts : WithinSelection(S, h) /\ c \in conflicts[h].claims
      BY <2>1, <3>1
    <3>3. KindOf(h) = k
      BY <3>2, ConflictClaims, KindsOfClaims DEF k
    <3>4. h = i
      BY <2>1, <2>5, <3>2, <3>3, KindIs
    <3>5. \A e \in conflicts[i].claims : e \in BundleClaims(S)
      BY <2>9, <3>2, <3>4, BundleHas
    <3> QED BY <2>5, <3>5 DEF BundleConflicts
  <2> QED BY <2>9, <2>10, <2>11, <2>12
<1>2. ASSUME "relationship" \notin raced, NEW x \in BundleRelationships(S), NEW c \in view["relationship"][x]
      PROVE  status[c] # "disputed"
  <2>1. x \in DOMAIN view["relationship"] /\ "relationship" \in Kinds
    BY DEF BundleRelationships, Kinds
  <2> QED BY <1>2, <2>1, KindIs
<1> QED BY <1>1, <1>2

\* In every state of the archive, for any recordings, extractions, threads, people and notes:
\* its rows have their types, exactly the claims of archived recordings are stored, and, as
\* far as no two transactions overlapped, decisions stand with their log, a conflict prefers
\* at most one claim and one of its own, contradictions are under review or decided, graph,
\* profiles and people are what the stored claims say and a book's bundle names the conflicts
\* it contains (finalize_recording_job, the conflict services, delete_recording).
THEOREM ArchiveCorrect == Spec => []ArchiveInv
<1>1. IInv => ArchiveInv
  BY TypeIs, ClaimsFollow, Decisions, Reviewed, Projections, SourcesKept, BookSees DEF ArchiveInv
<1> QED BY <1>1, InitIInv, NextIInv, PTL DEF Spec

-----------------------------------------------------------------------------
(* A rejected claim stays out.                                             *)

\* What RejectedStaysOut says of a step.
BackOnlyWithConflict ==
    \A c \in AllClaims :
       (status[c] = "rejected" /\ status'[c] \in {"active", "accepted", "disputed"} /\ c.type \notin raced')
       => \E i \in DOMAIN conflicts :
             /\ c \in conflicts[i].claims
             /\ conflicts'[i] # conflicts[i] \/ ~ (conflicts[i].claims \subseteq Stored)

LEMMA CommitBack ==
    ASSUME NEW t \in Threads, IInv, Commit(t)
    PROVE  BackOnlyWithConflict
<1> SUFFICES ASSUME NEW c \in AllClaims, status[c] = "rejected", status'[c] \in {"active", "accepted", "disputed"},
                    c.type \notin raced'
             PROVE  \E i \in DOMAIN conflicts :
                       /\ c \in conflicts[i].claims
                       /\ conflicts'[i] # conflicts[i] \/ ~ (conflicts[i].claims \subseteq Stored)
  BY DEF BackOnlyWithConflict
<1> DEFINE k == c.type
<1>1. k \in Kinds /\ c \in OfKind(AllClaims, k)
  BY ClaimIn, KindsOfClaims
<1>2. raced \subseteq raced' /\ (k \in KindsOf(t) <=> WorksOn(req[t], k))
  BY <1>1, CommitIs DEF CommitChanges, Races
<1>3. StatusPart(status, k)[c] = status[c] /\ StatusPart(status', k)[c] = status'[c]
  BY <1>1, StatusPartIs
<1> HIDE DEF k
<1>4. WorksOn(req[t], k)
  BY <1>1, <1>2, <1>3, CommitElsewhere
<1>5. k \in Kinds \ raced
  BY <1>1, <1>2 DEF k
<1>6. BackWithConflict(k, StatusPart(status, k), StatusPart(status', k), Part(conflicts, k), Part(conflicts', k))
  BY <1>4, <1>5, CommitKind
<1>7. PICK i \in DOMAIN Part(conflicts, k) :
         /\ c \in Part(conflicts, k)[i].claims
         /\ \/ Part(conflicts', k)[i] # Part(conflicts, k)[i]
            \/ ~ (Part(conflicts, k)[i].claims \subseteq Present(k, StatusPart(status, k)))
  BY <1>1, <1>3, <1>6 DEF BackWithConflict
<1>8. i \in DOMAIN conflicts /\ KindOf(i) = k /\ Part(conflicts, k)[i] = conflicts[i]
  <2>1. i \in DOMAIN Part(conflicts, k)
    BY <1>7
  <2>2. i \in {j \in DOMAIN conflicts : KindOf(j) = k}
    BY <2>1 DEF Part
  <2>3. i \in DOMAIN conflicts /\ KindOf(i) = k
    BY <2>2
  <2> QED BY <2>3, PartIs
<1>9. i \in DOMAIN conflicts'
  <2> DEFINE w == made[t]
  <2>1. conflicts' = [j \in DOMAIN conflicts \cup DOMAIN w.conflicts |->
                        IF j \notin DOMAIN w.conflicts THEN conflicts[j]
                        ELSE IF j \in DOMAIN conflicts THEN Over(w.conflicts[j], conflicts[j])
                        ELSE w.conflicts[j]]
    BY CommitIs DEF CommitChanges
  <2> HIDE DEF w
  <2>2. DOMAIN conflicts' = DOMAIN conflicts \cup DOMAIN w.conflicts
    BY <2>1
  <2> QED BY <1>8, <2>2
<1>10. Part(conflicts', k)[i] = conflicts'[i]
  <2>1. KindOf(i) = k
    BY <1>8
  <2>2. Part(conflicts', k) = [j \in {x \in DOMAIN conflicts' : KindOf(x) = k} |-> conflicts'[j]]
    BY DEF Part
  <2> QED BY <1>9, <2>1, <2>2
<1>11. \A d \in conflicts[i].claims : d \in OfKind(AllClaims, k)
  BY <1>8, ConflictClaims
<1>12. Present(k, StatusPart(status, k)) = {d \in OfKind(AllClaims, k) : status[d] # "absent"}
  BY StatusPartIs
<1> QED BY <1>7, <1>8, <1>10, <1>11, <1>12 DEF Stored, OfKind

LEMMA StepBack == IInv /\ [Next]_vars => [BackOnlyWithConflict]_vars
<1> SUFFICES ASSUME IInv, Next PROVE BackOnlyWithConflict
  OBVIOUS
<1>1. ASSUME status' = status PROVE BackOnlyWithConflict
  BY <1>1 DEF BackOnlyWithConflict
<1>2. ASSUME NEW t \in Threads, NEW r \in Recordings, BeginFinalise(t, r) PROVE status' = status
  BY <1>2 DEF BeginFinalise, dbVars
<1>3. ASSUME NEW t \in Threads, NEW i \in DOMAIN conflicts, NEW note \in Notes,
             (\E c \in conflicts[i].claims : Resolve(t, i, c, note)) \/ Dismiss(t, i, note) \/ Reopen(t, i, note)
      PROVE  status' = status
  BY <1>3 DEF Resolve, Dismiss, Reopen, dbVars
<1>4. ASSUME NEW t \in Threads, RecordingGone(t) \/ WriteError(t) \/ InsertError(t) \/ AbortTransaction(t)
      PROVE  status' = status
  BY <1>4 DEF RecordingGone, WriteError, InsertError, AbortTransaction, Rollback
<1>5. ASSUME NEW t \in Threads, UpdatePeople(t) \/ WriteClaims(t) \/ ClearWaits(t) \/ Clear(t)
      PROVE  status' = status
  BY <1>5 DEF UpdatePeople, WriteClaims, ClearWaits, Clear, dbVars
<1>6. ASSUME NEW t \in Threads, ReadAndReconcile(t) \/ Insert(t)
      PROVE  status' = status
  BY <1>6 DEF ReadAndReconcile, Insert, dbVars
<1>7. ASSUME NEW r \in Recordings, DeleteRecording(r) PROVE BackOnlyWithConflict
  <2>1. \A c \in AllClaims : status'[c] = status[c] \/ status'[c] = "absent"
    BY <1>7 DEF DeleteRecording
  <2> QED BY <2>1 DEF BackOnlyWithConflict
<1> QED BY <1>1, <1>2, <1>3, <1>4, <1>5, <1>6, <1>7, CommitBack, SMT DEF Next

\* A claim that a reviewer's decision rejected comes back only when that conflict changes or
\* loses a claim, unless transactions overlapped, for any recordings, extractions, threads,
\* people and notes (_apply_conflict_state, finalize_recording_job).
THEOREM RejectedCorrect == Spec => RejectedStaysOut
<1>1. IInv /\ [Next]_vars => [BackOnlyWithConflict]_vars
  BY StepBack
<1> QED BY <1>1, InitIInv, NextIInv, PTL DEF Spec, RejectedStaysOut, BackOnlyWithConflict

=============================================================================
