---------------------------- MODULE Coreference -----------------------------
(***************************************************************************)
(* Whom a pronoun stands for (src/mura/coreference*.py), and the evidence  *)
(* a relationship gets from it (src/mura/evidence.py).  A link is made     *)
(* only from the unit of the pronoun and the one before it; it is resolved *)
(* if nobody else can be meant.                                            *)
(*                                                                         *)
(* One pronoun with the kinship word after it ("his son c") in segment 2,  *)
(* the unit before it in the same segment or in segment 1, and one claim   *)
(* between the possessor `from` and c, which the model may have supported  *)
(* by a link of its own.  Where quotations end is a second, separate part. *)
(***************************************************************************)
EXTENDS Integers, Sequences, FiniteSets

CONSTANT MaxQuoteChars   \* bound: characters of a text with quotation marks

ASSUME QuoteAssumption == MaxQuoteChars \in Nat

VARIABLES
    utterance,   \* what was said, NoUtterance before it
    grounding,   \* [links, claimLinks, segs]: the links, those of the claim, its segments
    passes       \* how often complete_relationship_evidence ran

corefVars == <<utterance, grounding, passes>>

Folk == {"a", "b", "c"}
Spots == {"previous", "before", "after"}
NoUtterance == [kind |-> "none"]
NoGrounding == [links |-> <<>>, claimLinks |-> {}, segs |-> {}]

-----------------------------------------------------------------------------
(* Quotations.                                                             *)

\* The marks that open a quotation, and the one that ends it.
Opening == {"guillemet", "high", "low"}
Closer(char) ==
    CASE char = "guillemet" -> "guillemetEnd" [] char = "high" -> "highEnd" [] char = "low" -> "high"
Closing == {Closer(c) : c \in Opening}
QuoteChars == Opening \cup Closing \cup {"straight", "letter"}

\* quote_scope_at, one character: a mark that closes nothing opens a scope that never ends.
PushQuote(stack, char) ==
    IF char \in Opening THEN Append(stack, Closer(char))
    ELSE IF stack # <<>> /\ char \in Closing \cup {"straight"} /\ stack[Len(stack)] = char
    THEN SubSeq(stack, 1, Len(stack) - 1)
    ELSE IF char = "straight" THEN Append(stack, char)
    ELSE IF char \in Closing THEN Append(stack, "malformed")
    ELSE stack

\* quote_scope_at: outside when no scope is open before the position.
Outside(text, position) ==
    LET open[n \in 0..position] == IF n = 0 THEN <<>> ELSE PushQuote(open[n - 1], text[n])
    IN  open[position] = <<>>

-----------------------------------------------------------------------------
(* The pronoun and the people near it.                                     *)

\* person_occurrences: the people named at a spot, outside quotations.
Named(u, spot) == {p \in Folk : u.names[p][spot] = "plain"}

\* target_ids: whom the kinship word is followed by.
TargetIds(u) == Named(u, "after")

\* context_units: the unit before the pronoun's, unless the two are too long together.
HasPrevious(u) == u.previous # "far"

CandidateIds_AnyScope(u) ==
    LET At(spot) == {p \in Folk : u.names[p][spot] # "no"} \ TargetIds(u)
    IN  IF At("before") # {} THEN At("before")
        ELSE IF HasPrevious(u) THEN At("previous") ELSE {}

\* candidate_ids: the people named before the pronoun in its unit, or else in the unit before.
CandidateIds(u) ==
    LET At(spot) == Named(u, spot) \ TargetIds(u)
    IN  IF At("before") # {} THEN At("before")
        ELSE IF HasPrevious(u) THEN At("previous") ELSE {}

\* candidate_context_unit: the later of the units that names them all, in a quotation or not.
ContextSpots(u) ==
    IF \A p \in CandidateIds(u) : \E s \in {"before", "after"} : u.names[p][s] # "no"
    THEN {"before", "after"} ELSE {"previous"}

SegmentOf(u, spot) == IF spot = "previous" /\ u.previous = "other" THEN 1 ELSE 2

\* bounded_coreference_contexts: is there a pronoun outside quotations, with its kinship word
\* in the same unit, and somebody it can stand for?
HasContext(u) == u.pronoun \in {"singular", "plural", "pair"} /\ CandidateIds(u) # {}

\* bounded_coreference_contexts, _is_explicit_pair: one candidate for "his", two who are named
\* as a pair for "their".
ResolvedContext(u) ==
    IF u.pronoun = "singular" THEN Cardinality(CandidateIds(u)) = 1
    ELSE Cardinality(CandidateIds(u)) = 2 /\ u.pronoun = "pair"

\* status_for
StatusFor(u) ==
    IF ResolvedContext(u) THEN "resolved"
    ELSE IF Cardinality(CandidateIds(u)) >= 2 THEN "ambiguous" ELSE "unresolved"

-----------------------------------------------------------------------------
(* Links and the claim.                                                    *)

\* _build_link, build_evidence: the link cites the units it was read from.
BuildLink(u) ==
    [id |-> "pronoun", status |-> StatusFor(u), method |-> "discourse",
     antecedents |-> IF StatusFor(u) = "resolved" THEN CandidateIds(u) ELSE {},
     segs |-> {2} \cup {SegmentOf(u, s) : s \in ContextSpots(u)}]

\* _expected_edge, _relationship_matches_edge: the roles have to be the right way round,
\* except between spouses.
EdgeMatches(claim) == claim.kin = "spouse" \/ claim.direction = "right"

\* matching_relationships: the claim is about a candidate and a target and cites the segment.
Matches(u, g) ==
    /\ 2 \in g.segs /\ EdgeMatches(u.claim)
    /\ u.claim.from \in CandidateIds(u) /\ "c" \in TargetIds(u)

\* trusted_existing_link_ids: all but the resolved links that only the model resolved.
TrustedLinks(links) ==
    {links[i].id : i \in {i \in DOMAIN links :
        ~(links[i].status = "resolved" /\ links[i].method \notin {"discourse", "human"})}}

\* clean_relationship_links
CleanLinks(g) == [g EXCEPT !.claimLinks = @ \cap TrustedLinks(g.links)]

\* update_relationships: the claim cites the link and the segments of the link.
UpdateRelationship(g, link) ==
    [links |-> g.links, claimLinks |-> g.claimLinks \cup {link.id}, segs |-> g.segs \cup link.segs]

\* A link with this identifier is there already.
AlreadyLinked(g, link) == \E i \in DOMAIN g.links : g.links[i].id = link.id

\* augment_bounded_coreference
AugmentCoreference(u, before) ==
    LET g == CleanLinks(before)
        link == BuildLink(u)
        linked == [g EXCEPT !.links = Append(@, link)]
    IN  IF ~HasContext(u) \/ (StatusFor(u) # "resolved" /\ ~Matches(u, g)) \/ AlreadyLinked(g, link)
        THEN g
        ELSE IF Matches(u, g) THEN UpdateRelationship(linked, link) ELSE linked

\* The segments a person cites; a's own name stands in segment 1.
PersonSegments(u, p) ==
    (IF p = "a" THEN {1} ELSE {}) \cup {SegmentOf(u, s) : s \in {s \in Spots : u.names[p][s] # "no"}}

\* contains_surface on the text of the claim's segments.
NamedIn(u, p, segs) == \E s \in Spots : u.names[p][s] # "no" /\ SegmentOf(u, s) \in segs

\* _complete_relationship: "I" is enough where the speaker cites the segment.
SpeakerStands(u, p, segs) == u.firstPerson /\ segs \cap PersonSegments(u, p) # {}

\* _complete_relationship, _best_identity_segment: only for the speaker the segment with the
\* name is added.
CompleteRelationship(u, g) ==
    LET p == u.claim.from
        adds == p = u.speaker /\ ~NamedIn(u, p, g.segs) /\ ~SpeakerStands(u, p, g.segs)
    IN  [g EXCEPT !.segs = @ \cup (IF adds THEN {1} ELSE {})]

\* _resolved_coreference_antecedents: whom the claim's links may stand for in validation.
ResolvedAntecedents(g) ==
    UNION {g.links[i].antecedents : i \in {i \in DOMAIN g.links :
              /\ g.links[i].id \in g.claimLinks /\ g.links[i].status = "resolved"
              /\ g.links[i].segs \subseteq g.segs}}

-----------------------------------------------------------------------------
(* Inputs and steps.                                                       *)

NamesNear ==
    {n \in [Folk -> [Spots -> {"no", "plain", "quoted"}]] :
        /\ n["a"]["after"] = "no"
        /\ n["b"]["previous"] # "quoted" /\ n["b"]["before"] # "quoted" /\ n["b"]["after"] = "no"
        /\ n["c"]["before"] = "no" /\ n["c"]["previous"] # "quoted" /\ n["c"]["after"] # "quoted"
        /\ n["c"]["previous"] = "plain" => n["c"]["after"] = "plain"}

ClaimOf(from, kin, direction, cites) ==
    [from |-> from, kin |-> kin, direction |-> direction, cites |-> cites]

ParentClaim == {ClaimOf(f, "parent", d, {2}) : f \in {"a", "b"}, d \in {"right", "reversed"}}
OddClaim == {ClaimOf("a", "spouse", "reversed", {2}), ClaimOf("a", "parent", "right", {1})}
AnyClaim == ParentClaim \cup OddClaim
OneClaim == {ClaimOf("a", "parent", "right", {2})}

Utterance ==
    [kind : {"pronoun"}, names : NamesNear, previous : {"same", "other", "far"},
     pronoun : {"singular", "plural", "pair", "quoted", "noKin"},
     claim : AnyClaim, link : {"none"}, speaker : {"none"}, firstPerson : {FALSE}]
    \cup [kind : {"pronoun"}, names : NamesNear, previous : {"other"}, pronoun : {"singular"},
          claim : OneClaim, link : {"none", "model", "labelled"},
          speaker : {"none", "a"}, firstPerson : BOOLEAN]

\* A link the model made and resolved; "labelled" has the rules as its stated method.
ModelLink(u) ==
    [id |-> "model", status |-> "resolved",
     method |-> IF u.link = "labelled" THEN "discourse" ELSE "model",
     antecedents |-> {u.claim.from}, segs |-> {2}]

CorefInit == utterance = NoUtterance /\ grounding = NoGrounding /\ passes = 0

Utter(u) ==
    /\ utterance = NoUtterance /\ utterance' = u
    /\ grounding' = [links |-> IF u.link = "none" THEN <<>> ELSE <<ModelLink(u)>>,
                     claimLinks |-> IF u.link = "none" THEN {} ELSE {"model"},
                     segs |-> u.claim.cites]
    /\ UNCHANGED passes

Quote(text) ==
    /\ utterance = NoUtterance /\ utterance' = [kind |-> "quotes", text |-> text]
    /\ UNCHANGED <<grounding, passes>>

\* complete_relationship_evidence; every focused pass runs it again over what the passes
\* before it left.
CompleteEvidence ==
    /\ utterance.kind = "pronoun" /\ passes < 2
    /\ grounding' = CompleteRelationship(utterance, AugmentCoreference(utterance, grounding))
    /\ passes' = passes + 1
    /\ UNCHANGED utterance

CorefNext ==
    \/ utterance = NoUtterance /\ \E u \in Utterance : Utter(u)
    \/ utterance = NoUtterance /\ \E text \in [1..MaxQuoteChars -> QuoteChars] : Quote(text)
    \/ CompleteEvidence

-----------------------------------------------------------------------------
(* Properties.                                                             *)

\* Links and segments are those of the utterance.
CorefTypeOK ==
    /\ passes \in 0..2
    /\ grounding.segs \subseteq {1, 2} /\ grounding.claimLinks \subseteq {"pronoun", "model"}
    /\ Len(grounding.links) <= 2

\* A claim stands on a pronoun only if nobody but its possessor can be meant: he is the only
\* person, or one of the only named pair, that is named outside quotations between the start
\* of the pronoun's unit and the pronoun or, when nobody is, in the unit before it.  A link
\* the model resolved by itself is no substitute (candidate_ids, _is_explicit_pair,
\* clean_relationship_links).
NobodyElseWasMeant ==
    (utterance.kind = "pronoun" /\ passes > 0 /\ utterance.link # "labelled") =>
        \A p \in ResolvedAntecedents(grounding) :
            LET near == Named(utterance, "before") \ TargetIds(utterance)
                far == Named(utterance, "previous") \ TargetIds(utterance)
                meant == IF near # {} THEN near ELSE far
            IN  /\ p \in meant
                /\ Cardinality(meant) = IF utterance.pronoun = "pair" THEN 2 ELSE 1

\* A pronoun that is resolved and fits the claim does support it in validation: the claim got
\* all the segments its link cites, whichever unit the names stand in (update_relationships,
\* _resolved_coreference_antecedents).
ResolvedPronounSupports ==
    (utterance.kind = "pronoun" /\ passes > 0 /\ "pronoun" \in grounding.claimLinks) =>
        \A i \in DOMAIN grounding.links :
            (grounding.links[i].id = "pronoun" /\ grounding.links[i].status = "resolved")
                => utterance.claim.from \in ResolvedAntecedents(grounding)

\* A link supports "a is c's parent" only where the words say so, never "c is a's parent"
\* (_expected_edge).
DirectionIsOfTheWords ==
    (utterance.kind = "pronoun" /\ "pronoun" \in grounding.claimLinks) =>
        utterance.claim.kin = "spouse" \/ utterance.claim.direction = "right"

\* A second pass over the same result, as after each focused extraction, changes nothing: no
\* link twice, no segment more (augment_bounded_coreference, complete_relationship_evidence).
SecondPassChangesNothing ==
    (utterance.kind = "pronoun" /\ passes > 0) =>
        CompleteRelationship(utterance, AugmentCoreference(utterance, grounding)) = grounding

\* After the completion the speaker's own claims cite a segment of the speaker's, which is what
\* validation asks of an endpoint (_complete_relationship, _ensure_person_evidence_overlap).
SpeakerIsInTheSources ==
    (utterance.kind = "pronoun" /\ passes > 0 /\ utterance.speaker = utterance.claim.from) =>
        grounding.segs \cap PersonSegments(utterance, utterance.claim.from) # {}

\* A position counts as outside quotations only if every mark before it is paired with one of
\* its own kind, in whatever way marks are left open, closed twice or crossed; the low mark
\* never is, its closing mark being read as an opening one (quote_scope_at).
QuotesFailClosed ==
    utterance.kind = "quotes" =>
        LET text == utterance.text
            Count(char, n) == Cardinality({i \in 1..n : text[i] = char})
        IN  \A n \in 0..Len(text) : Outside(text, n) =>
                /\ Count("guillemet", n) = Count("guillemetEnd", n)
                /\ Count("high", n) = Count("highEnd", n)
                /\ Count("straight", n) % 2 = 0 /\ Count("low", n) = 0

\* Pronouns ground claims safely: on the one person that can be meant, in the direction of the
\* words, outside quotations, the same however often the completion runs
\* (augment_bounded_coreference, complete_relationship_evidence).
CorefInv ==
    /\ CorefTypeOK
    /\ NobodyElseWasMeant /\ ResolvedPronounSupports /\ DirectionIsOfTheWords
    /\ SecondPassChangesNothing /\ SpeakerIsInTheSources /\ QuotesFailClosed

=============================================================================
