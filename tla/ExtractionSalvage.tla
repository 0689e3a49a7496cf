------------------------- MODULE ExtractionSalvage --------------------------
(***************************************************************************)
(* What is kept of a model's extraction (src/mura/extraction_sanitizer.py, *)
(* src/mura/claim_model.py, src/mura/validation.py).  Objects are checked  *)
(* one at a time against candidates that hold only what they need, get     *)
(* their evidence attached, are checked again, and the whole result has to *)
(* pass the contract at the end: if it does not, all of it is lost.        *)
(*                                                                         *)
(* Two people, p (whom the draft may name badly) and q (the speaker, who   *)
(* cites nothing), a relationship between them, one fact (an event or a    *)
(* description), a story told about the fact and a conflict between the    *)
(* fact and the relationship.  Span 0 is one that was quarantined before.  *)
(***************************************************************************)
EXTENDS Integers

VARIABLES
    draft,     \* the parsed candidate, NoDraft before it
    phase,     \* "parse", "filter", "materialize", "recheck", "accepted", "lost"
    kept       \* what is left so far: [people, spans, links, kin, rel, fact, story, conflict]

salvageVars == <<draft, phase, kept>>

Spans == {1, 2}
NoDraft == [named |-> "nothing"]
NothingKept == [people |-> {}, spans |-> {}, links |-> FALSE, kin |-> FALSE, rel |-> FALSE,
                fact |-> FALSE, story |-> FALSE, conflict |-> FALSE]

\* named: how the segments p cites show p; from: what a span is derived from; names: whether
\* its text holds p's name; about: whether it lists p.  rel: what supports the relationship's
\* endpoints, its own text or only the coreference link, which cites span 2.  rests: the span
\* that carries the fact's statement, said: the people the statement names.
Draft ==
    {d \in [named : {"name", "alias", "speaker", "no"},
            from : [Spans -> {{}, {0}, {1}, {2}}], names : [Spans -> BOOLEAN], about : {{}, {1}},
            cites : {{}, {1}, {2}, {0, 1}}, rel : {"text", "link", "none"},
            fact : [kind : {"event", "description"}, cites : {{1}, {1, 2}}, rests : Spans,
                    parts : {{"p"}, {"p", "q"}}, said : {{}, {"p"}}]] :
       /\ d.from[1] # {1} /\ d.from[2] # {2}
       /\ d.fact.rests \in d.fact.cites
       /\ d.fact.kind = "description" => d.fact.parts = {"p"}}

SalvageInit == draft = NoDraft /\ phase = "parse" /\ kept = NothingKept

\* _parse_items: the objects of the answer that have the right form, each identifier once.
ParseCandidate(d) ==
    /\ phase = "parse"
    /\ draft' = d /\ phase' = "filter" /\ kept' = kept

\* validate_extraction_result on a candidate with one person.
PersonSound == draft.named # "no"

\* _explicit_people_in_segments: the people the cited segments name.
Heard(people) == people \cap ({"q"} \cup (IF draft.named \in {"name", "alias"} THEN {"p"} ELSE {}))

\* validate_extraction_result, relationships: both endpoints are known and supported, if not
\* by the text then through a resolved link between known people.
RelationshipSound(people, links) ==
    /\ {"p", "q"} \subseteq people
    /\ draft.rel = "text" \/ (draft.rel = "link" /\ links)

\* _claim_support_text: the cited spans that exist.
ClaimSupport(cites, spans) == cites \cap spans

\* _ensure_claim_text_supported
Supported(spans) == draft.fact.rests \in ClaimSupport(draft.fact.cites, spans)

\* _explicit_people_in_text
SaidOf(people) == draft.fact.said \cap people

\* validate_extraction_result, events: known participants, supported text, and the people of
\* the statement are exactly the participants, who are heard in its segments.
EventSound(people, spans) ==
    LET e == draft.fact
        statement == SaidOf(people)
    IN  /\ e.parts \subseteq people
        /\ Supported(spans)
        /\ statement # {} => e.parts = statement
        /\ e.parts \subseteq Heard(people)

\* validate_extraction_result, descriptions.
DescriptionSound(people, spans) ==
    LET e == draft.fact
        statement == SaidOf(people)
    IN  /\ e.parts \subseteq Heard(people)
        /\ Supported(spans)
        /\ statement # {} => e.parts \subseteq statement

FactSound(people, spans) ==
    IF draft.fact.kind = "event" THEN EventSound(people, spans) ELSE DescriptionSound(people, spans)

\* validate_extraction_result, stories: it is about p and tells the fact, if that is an event,
\* and cites span 1.
StorySound(people, spans, events) ==
    /\ "p" \in Heard(people)
    /\ draft.fact.kind = "event" => events
    /\ 1 \in spans

\* _semantic_filter over people, then relationships, events, descriptions, then stories with
\* the events that are left.
FilterCandidate ==
    /\ phase = "filter"
    /\ LET people == {"q"} \cup (IF PersonSound THEN {"p"} ELSE {})
           fact == FactSound(people, Spans)
       IN  kept' = [people |-> people, spans |-> Spans, links |-> TRUE, kin |-> "p" \in people,
                    rel |-> RelationshipSound(people, "p" \in people), fact |-> fact,
                    story |-> StorySound(people, Spans, fact), conflict |-> TRUE]
    /\ phase' = "materialize" /\ UNCHANGED draft

\* _filter_evidence_derivations: a span with an unknown parent goes, and so do the spans of a
\* cycle.  A span whose parent goes here stays.
FilterDerivations(spans) ==
    {s \in spans : draft.from[s] \subseteq spans /\ ~(\E r \in draft.from[s] : s \in draft.from[r])}

\* materialize_extraction_contract_v2: spans that list an unknown person go, then the broken
\* derivations.
ValidSpans(people) ==
    FilterDerivations({s \in Spans : s \in draft.about => "p" \in people})

\* _filter_coreference_links: the link's span and its antecedent, p, exist.
LinkHolds(people, spans) == 2 \in spans /\ "p" \in people

\* _harden_person_fields: what p is to the speaker stays only beside a relationship with the
\* speaker that is left, or as "self".
KinSupported(rel) == rel \/ draft.named = "speaker"

\* _materialize_item: an object keeps the spans it cites that exist.  A person or relationship
\* without any is given its whole segments, a fact or a story without any is dropped.
CitesSomething(cites, spans) == cites \cap spans # {}

\* _filter_conflicts: both claims are there; evidence is taken from them when none is left.
ConflictHolds(k) == k.rel /\ k.fact

MaterializeClaims ==
    /\ phase = "materialize"
    /\ LET spans == ValidSpans(kept.people)
           k == [kept EXCEPT !.spans = spans, !.links = LinkHolds(kept.people, spans),
                             !.kin = "p" \in kept.people /\ KinSupported(kept.rel),
                             !.fact = @ /\ CitesSomething(draft.fact.cites, spans),
                             !.story = @ /\ CitesSomething({1}, spans)]
       IN  kept' = [k EXCEPT !.conflict = @ /\ ConflictHolds(k)]
    /\ phase' = "recheck" /\ UNCHANGED draft

\* post_candidate with one event or description and nothing else.
FactAgain(k) == k.fact /\ FactSound(k.people, k.spans)

StoryAgain_OldEvents(k, fact) == k.story /\ StorySound(k.people, k.spans, k.fact)

\* post_candidate with a story and those of its events that passed again.
StoryAgain(k, fact) == k.story /\ StorySound(k.people, k.spans, fact)

\* _materialize_name_variants: p has a primary name if the text p cites holds it, or if p has
\* the speaker's name.  Without a cited span that exists the text is that of the segments.
PrimaryName(k) ==
    LET cited == draft.cites \cap k.spans
    IN  \/ draft.named = "speaker"
        \/ IF cited = {} THEN draft.named = "name" ELSE \E s \in cited : draft.names[s]

\* The end of validate_extraction_contract_v2: every person has a primary name.
NamesHold(k) == "p" \in k.people => PrimaryName(k)

\* validate_extraction_result and validate_extraction_contract_v2 on the whole result.
FinalContract(k) ==
    /\ k.rel => RelationshipSound(k.people, k.links)
    /\ k.fact => FactSound(k.people, k.spans)
    /\ k.story => StorySound(k.people, k.spans, k.fact)
    /\ k.conflict => ConflictHolds(k)
    /\ \A s \in k.spans : draft.from[s] \subseteq k.spans
    /\ NamesHold(k)

\* The end of process_extraction_candidate: facts and stories are filtered again,
\* relationships are not, the conflicts are closed and the contract is checked.
FinishCandidate ==
    /\ phase = "recheck"
    /\ LET fact == FactAgain(kept)
           k == [kept EXCEPT !.fact = fact, !.story = StoryAgain(kept, fact)]
           closed == [k EXCEPT !.conflict = @ /\ ConflictHolds(k)]
       IN  /\ kept' = closed
           /\ phase' = IF FinalContract(closed) THEN "accepted" ELSE "lost"
    /\ UNCHANGED draft

SalvageNext ==
    \/ phase = "parse" /\ \E d \in Draft : ParseCandidate(d)
    \/ FilterCandidate \/ MaterializeClaims \/ FinishCandidate

-----------------------------------------------------------------------------
(* Properties.                                                             *)

\* What an accepted extraction refers to is in it: people, the event a story tells, the claims
\* of a conflict, the relationship behind "my father" and the parents of every span, so that
\* nothing stored points nowhere.
ResultIsClosed ==
    phase = "accepted" =>
       /\ kept.rel => {"p", "q"} \subseteq kept.people
       /\ kept.fact => draft.fact.parts \subseteq kept.people /\ draft.fact.rests \in kept.spans
       /\ kept.story /\ draft.fact.kind = "event" => kept.fact
       /\ kept.conflict => kept.rel /\ kept.fact
       /\ kept.kin => kept.rel \/ draft.named = "speaker"
       /\ \A s \in kept.spans : draft.from[s] \subseteq kept.spans
       /\ \A s \in kept.spans : s \in draft.about => "p" \in kept.people

\* An object that is sound with the evidence and the people that survive is not taken down by
\* another that is not ("an invalid later collection ... can make an independent valid event
\* fail validation and collapse partial salvage", extraction_sanitizer.py:624).
SalvagesTheRest ==
    phase \in {"accepted", "lost"} =>
       /\ PersonSound => "p" \in kept.people
       /\ FactSound(kept.people, kept.spans) => kept.fact
       /\ RelationshipSound(kept.people, TRUE) => kept.rel

\* The whole extraction is lost only for what the filters do not look at again: a span derived
\* from one that went with its own parent, a person whose cited text does not hold the name,
\* and a relationship that stood on a link whose span went.
LostOnlyForWhatIsNotRefiltered ==
    phase = "lost" =>
       \/ \E s, r \in Spans : /\ s # r /\ s \in kept.spans
                              /\ r \in draft.from[s] /\ r \notin kept.spans
       \/ "p" \in kept.people /\ draft.named \in {"name", "alias"}
          /\ (draft.named = "name" => \E s \in draft.cites \cap kept.spans : ~draft.names[s])
       \/ draft.rel = "link" /\ kept.rel /\ 2 \notin kept.spans

\* What is salvaged refers to nothing that was dropped, and no more is lost than must be
\* (process_extraction_candidate).
SalvageInv == ResultIsClosed /\ SalvagesTheRest /\ LostOnlyForWhatIsNotRefiltered

=============================================================================
