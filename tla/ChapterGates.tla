---------------------------- MODULE ChapterGates ----------------------------
(***************************************************************************)
(* Whether a written chapter may stand: what is read out of the prose      *)
(* (src/mura/book/prose_grounding.py), the gates over it                   *)
(* (src/mura/book/chapter_gates.py) and the verdict                        *)
(* (src/mura/book/reviewer.py).                                            *)
(*                                                                         *)
(* A draft is the features the code reads in it: a name and where it       *)
(* stands, an expression of a year, a statement of kinship, a factual      *)
(* sentence with the source it resembles, direct speech, and the writer's  *)
(* own report of what was used.  It starts clean and up to two features    *)
(* are changed.                                                            *)
(***************************************************************************)
EXTENDS Integers, FiniteSets

VARIABLES
    frozen,    \* the snapshot: [years, rejected, shared, edge]
    chapter,   \* the features of the chapter
    edits,     \* how many were changed
    verdict    \* [passed, status], NoReview before the review

gateVars == <<frozen, chapter, edits, verdict>>

NoReview == [passed |-> FALSE, status |-> "none"]
Unfrozen == [years |-> {}, rejected |-> 0, shared |-> FALSE, edge |-> "unknown"]

CleanDraft ==
    [name     |-> <<"a", "inside">>,      \* surface, and "inside", "plain" at a start, or "after_in"
     year     |-> <<"none", 0>>,
     tie      |-> <<"none", "none", "none">>,
     clause   |-> [negated |-> FALSE, order |-> "none", srcNegated |-> FALSE, srcOrder |-> "none",
                   likeness |-> "contained"],
     speech   |-> "none",
     conflict |-> "none",                 \* of the planned claims: "none", "open", "open_hedged"
     used     |-> 2,                      \* how many of the two planned quotations the prose has
     told     |-> <<"none", "none", "none">>,   \* the writer's report: kinship,
     usage    |-> 2,                            \* planned quotations,
     unknown  |-> FALSE,                        \* and a person id of no one
     words    |-> "fits",
     script   |-> "expected"]             \* "expected", "foreign", "few"

GateInit == frozen = Unfrozen /\ chapter = CleanDraft /\ edits = 0 /\ verdict = NoReview

\* A snapshot of two people, a of p1 and b of p2; "c" is a name of p1, and of p2 too if they
\* share it.  A year that was corrected is among the allowed ones: the compiler takes both values.
Freeze(s) == /\ frozen = Unfrozen /\ frozen' = s
             /\ UNCHANGED <<chapter, edits, verdict>>

Change(field, value) ==
    /\ frozen # Unfrozen /\ verdict = NoReview /\ chapter[field] # value
    /\ edits + (IF field = "clause" THEN 2 ELSE 1) <= 2
    /\ edits' = edits + (IF field = "clause" THEN 2 ELSE 1)
    /\ chapter' = [chapter EXCEPT ![field] = value]
    /\ UNCHANGED <<frozen, verdict>>

-----------------------------------------------------------------------------
(* What is read out of the prose.                                          *)

PersonMatches(surface) ==
    CASE surface = "a" -> {"p1"} [] surface = "b" -> {"p2"}
      [] surface = "c" -> (IF frozen.shared THEN {"p1", "p2"} ELSE {"p1"}) [] OTHER -> {}

\* resolve_person_surface: two people with a form of the name are nobody.
ResolvePersonSurface(surface) ==
    IF Cardinality(PersonMatches(surface)) = 1 THEN CHOOSE p \in PersonMatches(surface) : TRUE ELSE "none"

\* extract_unknown_people: a name that opens a sentence counts with a predicate after it; known
\* places and words that name no one are skipped.
UnknownPeople(d) ==
    /\ d.name[1] \notin {"place", "word"} /\ ResolvePersonSurface(d.name[1]) = "none"
    /\ d.name[2] # "plain"

\* extract_locations: a capitalised word after a preposition of place.
UnknownPlace(d) == d.name[2] = "after_in" /\ d.name[1] # "place"

Readings(short) == {y \in frozen.years : y % 100 = short}

\* extract_years: a short year is the only allowed one it fits; one that fits none is written
\* out in the wrong century, so that the gate refuses it.
YearsRead(d) ==
    CASE d.year[1] = "four" -> {d.year[2]}
      [] d.year[1] \in {"short", "words"} /\ Cardinality(Readings(d.year[2])) = 1 -> Readings(d.year[2])
      [] d.year[1] \in {"short", "words"} /\ Readings(d.year[2]) = {} ->
            {IF d.year[1] = "short" /\ d.year[2] >= 30 THEN 1900 + d.year[2] ELSE 2000 + d.year[2]}
      [] OTHER -> {}

\* Two readings of a short year, or of a decade; the words of a year in the twenties, or of a
\* number from twenty on, are read as a decade too.
AmbiguousYear(d) ==
    \/ d.year[1] \in {"short", "words"} /\ Cardinality(Readings(d.year[2])) > 1
    \/ d.year[1] \in {"words", "decade"}
       /\ Cardinality({y \div 10 : y \in {z \in frozen.years : (z % 100) \div 10 = d.year[2] \div 10}}) # 1

\* rejected_year_patterns: the four digits, the short form, and the words for 21 to 29.
RejectedYear(d) ==
    /\ frozen.rejected # 0
    /\ \/ d.year = <<"four", frozen.rejected>>
       \/ d.year = <<"short", frozen.rejected % 100>>
       \/ d.year = <<"words", frozen.rejected % 100>> /\ frozen.rejected % 100 \in 21..29

SemanticallyCompatible_Order(c) ==
    c.order # "both" /\ c.srcOrder # "both" /\ (c.order # "none" => c.order = c.srcOrder)

\* Whether an assertion may rest on a source: the same polarity, and no order of before and
\* after, older and younger, parent and child that the source does not have.
SemanticallyCompatible(c) ==
    /\ c.negated = c.srcNegated
    /\ c.order # "both" /\ c.srcOrder # "both"
    /\ c.order # "none" => c.order = c.srcOrder

\* _clause_supported_by_selected_sources: one text in the other, the same profession, or two
\* substantive stems in common.
ClauseSupported(c) == SemanticallyCompatible(c) /\ c.likeness \in {"contained", "profession", "two_stems"}

-----------------------------------------------------------------------------
(* The gates.                                                              *)

\* The graph, from both ends: p1 is the subject of the edge.
GroundedTriples ==
    CASE frozen.edge = "parent_child" -> {<<"p1", "parent", "p2">>, <<"p2", "child", "p1">>,
                                          <<"p1", "parent_child", "p2">>, <<"p2", "parent_child", "p1">>}
      [] frozen.edge = "spouse" -> {<<"p1", "spouse", "p2">>, <<"p2", "spouse", "p1">>}
      [] OTHER -> {}

\* Kinship in the prose is checked by its ends; a pronoun or an unknown name has none, and an
\* aunt or uncle is no relation of the graph.
TieBlocked(d) ==
    /\ d.tie[2] # "none"
    /\ <<ResolvePersonSurface(d.tie[1]), d.tie[2], ResolvePersonSurface(d.tie[3])>> \notin GroundedTriples

\* What the writer reports can only add blockers.
ReportBlocked(d) ==
    \/ d.unknown
    \/ d.told[2] # "none" /\ d.told \notin GroundedTriples

\* evidence_refs_used_by_prose
CoverageOf(d) == d.used

\* Gates 1 to 4: people, years, places, kinship.
NameBlockers(d) ==
    {b \in {"person", "year", "location", "relationship"} :
       \/ b = "person" /\ UnknownPeople(d) /\ ~UnknownPlace(d)
       \/ b = "year" /\ (~(YearsRead(d) \subseteq frozen.years) \/ AmbiguousYear(d))
       \/ b = "location" /\ UnknownPlace(d)
       \/ b = "relationship" /\ (ReportBlocked(d) \/ TieBlocked(d))}

\* Gates 5 to 8: corrections, direct speech, facts, open conflicts told as certain.
SourceBlockers(d) ==
    {b \in {"correction", "quote", "fact", "conflict"} :
       \/ b = "correction" /\ RejectedYear(d)
       \/ b = "quote" /\ d.speech = "invented"
       \/ b = "fact" /\ ~ClauseSupported(d.clause)
       \/ b = "conflict" /\ d.conflict = "open"}

\* Gates 9 to 11: no planned quotation used, length, script; half of them used is only a warning.
FormBlockers(d) ==
    {b \in {"coverage", "words", "language"} :
       \/ b = "coverage" /\ CoverageOf(d) = 0
       \/ b = "words" /\ d.words # "fits"
       \/ b = "language" /\ d.script = "foreign"}

\* run_chapter_gates
Blockers(d) == NameBlockers(d) \cup SourceBlockers(d) \cup FormBlockers(d)

\* The model's review adds to the gates and never overrides them.
ReviewStatus(passed, llm) ==
    IF ~passed THEN "repair_required" ELSE IF llm = "fails" THEN "approved" ELSE llm

\* review_chapter
ReviewChapter(llm) ==
    /\ frozen # Unfrozen /\ verdict = NoReview
    /\ LET passed == Blockers(chapter) = {}
       IN  verdict' = [passed |-> passed, status |-> ReviewStatus(passed, llm)]
    /\ UNCHANGED <<frozen, chapter, edits>>

-----------------------------------------------------------------------------
Orders == {"none", "first", "second", "both"}
Clauses == [negated : BOOLEAN, order : Orders, srcNegated : BOOLEAN, srcOrder : Orders,
            likeness : {"contained", "profession", "two_stems", "one_stem"}]

Snapshots == {[years |-> y, rejected |-> r, shared |-> s, edge |-> e] :
                y \in {{}, {1924}, {1924, 2024}, {1950}}, r \in {0, 1924}, s \in BOOLEAN,
                e \in {"none", "parent_child", "spouse"}}

Changes ==
    {<<"name", <<n, w>>>> : n \in {"b", "c", "x", "place"}, w \in {"inside", "plain", "after_in"}}
    \cup {<<"year", y>> : y \in {<<"four", 1924>>, <<"four", 1930>>, <<"short", 24>>, <<"short", 50>>,
                                 <<"words", 24>>, <<"decade", 20>>, <<"decade", 50>>}}
    \cup {<<"tie", t>> : t \in {<<"a", "parent", "b">>, <<"b", "parent", "a">>, <<"b", "child", "a">>,
                                <<"a", "spouse", "b">>, <<"c", "parent", "b">>, <<"a", "parent", "he">>,
                                <<"a", "aunt_uncle", "b">>}}
    \cup {<<"told", t>> : t \in {<<"p1", "parent", "p2">>, <<"p2", "parent", "p1">>}}
    \cup {<<"speech", s>> : s \in {"verbatim", "invented"}} \cup {<<"conflict", c>> : c \in {"open", "open_hedged"}}
    \cup {<<"used", n>> : n \in 0..1} \cup {<<"usage", 0>>, <<"unknown", TRUE>>, <<"words", "long">>,
                                             <<"script", "foreign">>, <<"script", "few">>}

GateNext ==
    \/ frozen = Unfrozen /\ \E s \in Snapshots : (s.rejected # 0 => s.rejected \in s.years) /\ Freeze(s)
    \/ edits < 2 /\ \E c \in Changes : Change(c[1], c[2])
    \/ edits = 0 /\ frozen # Unfrozen /\ ~frozen.shared /\ frozen.edge = "none" /\ frozen.years = {}
          /\ \E c \in Clauses : Change("clause", c)
    \/ \E llm \in {"approved", "repair_required", "fails"} : ReviewChapter(llm)

-----------------------------------------------------------------------------
(* Properties.                                                             *)

GateTypeOK == /\ edits \in 0..2
              /\ verdict.status \in {"none", "approved", "repair_required"}

Approved == verdict.status = "approved"

\* Every year an approved chapter gives, in digits, short or in words, is one year of the
\* sources, and never one that a correction rejected, however it is written ("rejected years
\* also block obvious short/textual paraphrases").
YearsAreOfTheSources ==
    Approved /\ chapter.year[1] \in {"four", "short", "words"} =>
       \E y \in frozen.years :
          /\ y # frozen.rejected
          /\ \A z \in frozen.years : (IF chapter.year[1] = "four" THEN z ELSE z % 100) = chapter.year[2] <=> z = y

\* Kinship stated in an approved chapter is an edge of the graph in that direction, between the
\* only two people the names can mean.
KinshipIsOfTheGraph ==
    Approved /\ chapter.tie[2] # "none" =>
       \E x, y \in {"p1", "p2"} :
          /\ PersonMatches(chapter.tie[1]) = {x} /\ PersonMatches(chapter.tie[3]) = {y}
          /\ \/ frozen.edge = "spouse" /\ chapter.tie[2] = "spouse"
             \/ frozen.edge = "parent_child" /\ <<x, chapter.tie[2]>> \in {<<"p1", "parent">>, <<"p2", "child">>}

\* A fact of an approved chapter keeps the polarity of the source it rests on and adds no order
\* of events or of kin to it.
FactsAreNotInverted ==
    Approved =>
       /\ chapter.clause.negated = chapter.clause.srcNegated
       /\ chapter.clause.order \in {"none", chapter.clause.srcOrder} /\ chapter.clause.order # "both"

\* A name in an approved chapter, other than a place, means exactly one person of the book.
NamesAreOfOnePerson ==
    Approved /\ chapter.name[1] # "place" /\ chapter.name[2] # "plain" =>
       Cardinality(PersonMatches(chapter.name[1])) = 1

\* What the writer reports of itself never helps: the chapter would also pass with an honest
\* report of nothing ("Writer self-reported metadata is never authoritative").
ReportNeverHelps ==
    Approved => Blockers([chapter EXCEPT !.told = CleanDraft.told, !.usage = 0, !.unknown = FALSE]) = {}

\* No review by the model approves what a gate refused, whether it answers or fails.
GatesDecide == Approved => Blockers(chapter) = {}

\* The gates of a chapter: they overrule the reviewer, and years, kinship, facts and names that
\* pass are those of the sources whatever the writer reported (run_chapter_gates).
GateInv ==
    /\ GateTypeOK
    /\ GatesDecide /\ YearsAreOfTheSources /\ KinshipIsOfTheGraph /\ FactsAreNotInverted
    /\ NamesAreOfOnePerson /\ ReportNeverHelps

=============================================================================
