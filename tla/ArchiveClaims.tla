--------------------------- MODULE ArchiveClaims ----------------------------
(***************************************************************************)
(* What the extraction of a recording becomes in the family archive: its   *)
(* claims, what grounds them, which of them speak about the same thing and *)
(* which disagree.                                                         *)
(*                                                                         *)
(* A claim's id is a hash of its content, so a claim is the record of its  *)
(* content.  People are named by the mention that created them,            *)
(* <<recording, mention>>.  evidence is the claim's evidence class, or     *)
(* "none" when it cites no evidence; state is the relationship's state, or *)
(* "uncertain" when the claim is marked uncertain.  Texts are compared     *)
(* through Normalized (NFKC, case folding, punctuation dropped).           *)
(***************************************************************************)
EXTENDS Naturals, FiniteSets

CONSTANTS
    Recordings,
    Extraction,   \* recording -> [mentions, relationships, events, descriptions]
    Normalized    \* surface text -> normalized text, "" for one without letters

NoPerson == <<>>

\* _mapped_people: only resolved and new mentions have a person.
MappedPerson(r, m) ==
    LET mention == {x \in Extraction[r].mentions : x.id = m}
        resolved == {x \in mention : x.resolution = "resolved"}
    IN  IF \E x \in mention : x.resolution = "new_person" THEN <<r, m>>
        ELSE IF resolved = {} THEN NoPerson
        ELSE (CHOOSE x \in resolved : TRUE).person

MappedPeople(r) == {MappedPerson(r, x.id) : x \in Extraction[r].mentions} \ {NoPerson}

\* RelationshipClaim validates the roles of its two ends: the pairs it allows for each type.
ASSUME RelationshipRoles ==
    \A r \in Recordings : \A x \in Extraction[r].relationships :
       <<x.type, x.roles>> \in {<<"parent_child", <<"parent", "child">>>>, <<"spouse", <<"spouse", "spouse">>>>,
                               <<"sibling", <<"older_sibling", "younger_sibling">>>>,
                               <<"sibling", <<"sibling", "sibling">>>>}

-----------------------------------------------------------------------------
(* Claims.                                                                 *)

RelationshipClaims(r) ==
    {[rec |-> r, type |-> "relationship", source |-> x.id, predicate |-> x.type,
      subject |-> MappedPerson(r, x.subject), object |-> MappedPerson(r, x.object),
      roles |-> x.roles, value |-> "", state |-> x.state, evidence |-> x.evidence,
      reported |-> x.reported] : x \in Extraction[r].relationships}

\* _insert_attribute_claim; a value that normalizes to nothing is not stored.
AttributeClaim(r, source, person, predicate, value, evidence) ==
    {[rec |-> r, type |-> "attribute", source |-> source, predicate |-> predicate,
      subject |-> person, object |-> NoPerson, roles |-> <<>>, value |-> v,
      state |-> "current", evidence |-> evidence, reported |-> FALSE] :
        v \in {Normalized[value]} \ {""}}

ProfileAliasVariants ==
    {"explicit_alias", "nickname", "diminutive", "transliteration", "script_variant"}

ProjectAliases(r) ==
    UNION {UNION {AttributeClaim(r, <<x.id, v.id>>, MappedPerson(r, x.id), "alias", v.surface,
                                 IF v.evidence # "none" THEN v.evidence ELSE x.evidence) :
                    v \in {w \in x.variants : w.type \in ProfileAliasVariants}} :
             x \in Extraction[r].mentions}

ProjectDescriptions(r) ==
    UNION {AttributeClaim(r, <<x.id>>, MappedPerson(r, x.mention), "description", x.text, x.evidence) :
             x \in Extraction[r].descriptions}

\* _event_facets: what an event says of each participant.
EventFacets(e) ==
    {<<"event", e.title>>}
    \cup (IF e.location # "" THEN {<<"location", e.location>>} ELSE {})
    \cup (IF e.date # "" /\ e.type \in {"birth", "death"}
          THEN {<<IF e.type = "birth" THEN "birth_date" ELSE "death_date", e.date>>} ELSE {})
    \cup (IF e.type \in {"profession", "education"} THEN {<<e.type, e.title>>} ELSE {})

EventClaims(r, e) ==
    UNION {AttributeClaim(r, <<e.id, m, f[1]>>, MappedPerson(r, m), f[1], f[2], e.evidence) :
             m \in e.participants, f \in EventFacets(e)}

ProjectEvents(r) == UNION {EventClaims(r, e) : e \in Extraction[r].events}

ClaimTable == [r \in Recordings |->
    RelationshipClaims(r) \cup ProjectAliases(r) \cup ProjectDescriptions(r) \cup ProjectEvents(r)]

ClaimsOf(r) == ClaimTable[r]

AllClaims == UNION {ClaimsOf(r) : r \in Recordings}

Kinds == {"relationship", "attribute"}

OfKind(C, k) == {c \in C : c.type = k}

-----------------------------------------------------------------------------
(* Grounding and status.                                                   *)

MaterializableClasses == {"A_explicit", "B_morphologically_explicit", "C_speaker_anchored"}

\* _relationship_state_status
RelationshipStateStatus(c) ==
    IF NoPerson \in {c.subject, c.object} THEN "unresolved"
    ELSE CASE c.state = "current" -> "active"
           [] c.state = "former" -> "historical"
           [] c.state \in {"ended", "negated", "figurative"} -> c.state
           [] OTHER -> "unresolved"

BaseStatus(c) ==
    IF c.type = "relationship" THEN RelationshipStateStatus(c)
    ELSE IF c.subject = NoPerson THEN "unresolved" ELSE "active"

\* The status a claim is inserted with: a relationship that the extraction itself reports as
\* part of an open conflict set is marked (persist_claims of the conflict guard).
InsertedStatus(c) == IF c.reported /\ BaseStatus(c) # "unresolved" THEN "disputed" ELSE BaseStatus(c)

ClaimIsGrounded(c) ==
    /\ c.evidence \in MaterializableClasses
    /\ c.subject # NoPerson
    /\ c.type = "relationship" =>
          RelationshipStateStatus(c) = "active" /\ c.object # NoPerson /\ c.subject # c.object

-----------------------------------------------------------------------------
(* Agreement.                                                              *)

Symmetric(c) == c.predicate \in {"spouse", "sibling"}

\* _relationship_signature and _edge_values: the two ends in a fixed order when the
\* relationship is symmetric.
RelationshipSignature(c) ==
    <<c.predicate, {<<c.subject, c.roles[1], IF Symmetric(c) THEN "either" ELSE "subject">>,
                    <<c.object, c.roles[2], IF Symmetric(c) THEN "either" ELSE "object">>}>>

\* What a claim is about: _relationship_pair, and the keys of _conflict_groups.
Topic(c) ==
    CASE c.type = "relationship" -> <<"relationship", {c.subject, c.object}>>
      [] c.predicate \in {"birth_date", "death_date"} -> <<"temporal", c.subject, c.predicate>>
      [] c.predicate = "alias" -> <<"identity", "alias", c.value>>
      [] OTHER -> <<"none">>

Disagree(c, d) ==
    /\ Topic(c) = Topic(d)
    /\ CASE c.type = "relationship" -> RelationshipSignature(c) # RelationshipSignature(d)
         [] c.predicate = "alias" -> c.subject # d.subject
         [] c.predicate \in {"birth_date", "death_date"} -> c.value # d.value
         [] OTHER -> FALSE

\* The claims of C that compete, group by group.
ConflictGroups(C) ==
    LET grounded == {c \in C : ClaimIsGrounded(c)}
        about(t) == {c \in grounded : Topic(c) = t}
    IN  {about(Topic(c)) : c \in {d \in grounded : \E e \in grounded : Disagree(d, e)}}

-----------------------------------------------------------------------------
(* What a book may take as true (book/truth_eligibility.py and             *)
(* book/relationship_semantics.py).                                        *)

\* canonical_relationship: parent and child are recognised by their roles; <<>> for roles
\* that do not fit the type.
CanonicalRelationship(c) ==
    LET any == c.predicate \in {"parent_child", "spouse", "sibling"}
        ends == {<<c.subject, c.roles[1], IF any THEN "either" ELSE "subject">>,
                 <<c.object, c.roles[2], IF any THEN "either" ELSE "object">>}
        roles == {c.roles[1], c.roles[2]}
        fits == CASE c.predicate = "parent_child" -> roles = {"parent", "child"}
                  [] c.predicate = "spouse" -> roles = {"spouse"}
                  [] c.predicate = "sibling" ->
                        roles = {"sibling"} \/ roles = {"older_sibling", "younger_sibling"}
                  [] OTHER -> TRUE
    IN  IF fits /\ NoPerson \notin {c.subject, c.object} /\ c.subject # c.object
        THEN <<c.predicate, ends>> ELSE <<>>

\* is_book_truth_eligible, for a claim with the given status
BookTruthEligible(c, s, selected, allowDisputed) ==
    /\ c.rec \in selected
    /\ s \in {"active", "accepted"} \/ (allowDisputed /\ s = "disputed")
    /\ c.evidence \in MaterializableClasses
    /\ c.type = "relationship" => c.state = "current" /\ CanonicalRelationship(c) # <<>>

=============================================================================
