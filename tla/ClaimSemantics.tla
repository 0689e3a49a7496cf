--------------------------- MODULE ClaimSemantics ---------------------------
(***************************************************************************)
(* What the words around a claim do to it (src/mura/claim_semantics.py):   *)
(* doubt, states of a relationship that are not "current", the date an     *)
(* event's words really give, the narrator's corrections of himself and    *)
(* the conflict between two births of one person.                          *)
(*                                                                         *)
(* A clause is reduced to how many of the two people it names and to the   *)
(* one cue or marker it holds; the words of a date to the patterns found   *)
(* in them.  Event 1 is a birth of p whose words vary, event 2 another     *)
(* event beside it.                                                        *)
(***************************************************************************)
EXTENDS Integers, Sequences, FiniteSets, TLC

VARIABLES
    told,        \* the extraction and what was said, NoTale before it
    hardened,    \* "no", "hardened", "filtered" or "compared"
    bond,        \* the relationship: [state, doubt]
    dates,       \* the date of each event, NoDate without one
    eventsKept,  \* the events that are left
    dateIssues,  \* the codes reported for event 1
    temporal     \* the temporal conflicts, each a set of events

claimVars == <<told, hardened, bond, dates, eventsKept, dateIssues, temporal>>

Births == {1, 2}
NoTale == [kind |-> "none"]
NoDate == [kind |-> "none"]
NoYear == 0

-----------------------------------------------------------------------------
(* The words of a date.                                                    *)

WordsOf(core, mods, real, year) == [has |-> core \cup mods, real |-> real, year |-> year]

\* The patterns one expression matches: a day with its year also matches month and year, and
\* whatever holds a year matches that.
Cores == {{}, {"slashed", "year"}, {"iso", "year"}, {"day"}, {"day", "dayYear", "month", "year"},
          {"month", "year"}, {"range", "year"}, {"decade"}, {"age"}, {"year"}}
Mods == {"before", "after", "approx"}

\* real: the day exists and the range is not reversed.
Expressions(mods) ==
    {WordsOf(c, m, r, 1) : c \in Cores, m \in SUBSET mods, r \in BOOLEAN}

Dated(w, kind, precision, value, lower, upper, approx) ==
    [kind |-> kind, precision |-> precision, value |-> value, lower |-> lower, upper |-> upper,
     approx |-> approx, words |-> w]
Vague(w, kind, precision) == Dated(w, kind, precision, NoYear, NoYear, NoYear, FALSE)

\* _decade_bounds: an estimate; the beginning, middle and end of a decade lie inside it.
DecadeBounds(w) == Dated(w, "decade", "decade", NoYear, w.year, w.year + 9, TRUE)

Parsed(d) == [date |-> d, issues |-> {}]
Noted(d, code) == [date |-> d, issues |-> {code}]

\* parse_temporal_expression: a day in a year is a date if the calendar has it, whichever of
\* the two patterns found it.
DayOf(w) ==
    IF w.real THEN Parsed(Dated(w, "exact", "day", w.year, NoYear, NoYear, FALSE))
    ELSE Noted(NoDate, "value_invalid")

\* parse_temporal_expression: month and year, as an estimate when the words say so.
MonthOf(w) ==
    IF "approx" \in w.has
    THEN Parsed(Dated(w, "approximate", "month", w.year, w.year, w.year, TRUE))
    ELSE Parsed(Dated(w, "month_year", "month", w.year, NoYear, NoYear, FALSE))

\* parse_temporal_expression: from year to year.
RangeOf(w) ==
    IF w.real THEN Parsed(Dated(w, "range", "range", NoYear, w.year, w.year + 1, FALSE))
    ELSE Noted(NoDate, "range_invalid")

\* parse_temporal_expression: a year, before or after one, or about one.
YearOf(w) ==
    CASE "before" \in w.has ->
           Noted(Dated(w, "relative", "year", NoYear, NoYear, w.year - 1, FALSE), "anchor_missing")
      [] "before" \notin w.has /\ "after" \in w.has ->
           Noted(Dated(w, "relative", "year", NoYear, w.year + 1, NoYear, FALSE), "anchor_missing")
      [] w.has \cap {"before", "after"} = {} /\ "approx" \in w.has ->
           Parsed(Dated(w, "approximate", "year", w.year, w.year - 1, w.year + 1, TRUE))
      [] OTHER -> Parsed(Dated(w, "year", "year", w.year, NoYear, NoYear, FALSE))

\* parse_temporal_expression: nothing of the calendar in the words.
Undated(w) ==
    IF w.has \cap {"before", "after"} # {}
    THEN Noted(Vague(w, "relative", "unknown"), "anchor_missing")
    ELSE Noted(Vague(w, "unknown", "unknown"), "unresolved")

\* parse_temporal_expression: the first pattern that is found decides.
ParseTemporal(w) ==
    IF "slashed" \in w.has THEN Noted(Vague(w, "unknown", "unknown"), "format_ambiguous")
    ELSE IF "iso" \in w.has \/ "dayYear" \in w.has THEN DayOf(w)
    ELSE IF "day" \in w.has THEN Noted(Vague(w, "relative", "day"), "anchor_missing")
    ELSE IF "month" \in w.has THEN MonthOf(w)
    ELSE IF "range" \in w.has THEN RangeOf(w)
    ELSE IF "decade" \in w.has THEN Parsed(DecadeBounds(w))
    ELSE IF "age" \in w.has THEN Noted(Vague(w, "relative", "unknown"), "anchor_missing")
    ELSE IF "year" \in w.has THEN YearOf(w)
    ELSE Undated(w)

\* normalize_event_date: the words have to stand in the source, and only their own parse
\* counts, whatever the model proposed.
NormalizeEventDate(t) ==
    LET parsed == ParseTemporal(t.words)
        overstated == /\ parsed.date # NoDate /\ t.proposesDay
                      /\ parsed.date.approx \/ parsed.date.kind = "relative"
    IN  IF ~t.spoken THEN Noted(NoDate, "evidence_unsupported")
        ELSE [parsed EXCEPT !.issues = @ \cup (IF overstated THEN {"overstated"} ELSE {})]

\* harden_claim_semantics, events: the self-corrections whose new value is in the source and
\* whose old one is in the words of the date.
MatchingCorrections(t, date) ==
    {c \in t.corrections : date # NoDate /\ c.spoken /\ c.ofDate}

\* harden_claim_semantics, events: one correction replaces the date, unless its own words give
\* none; of two nobody knows which.
CorrectDate(t, normal) ==
    LET matching == MatchingCorrections(t, normal.date)
        parsed == ParseTemporal((CHOOSE c \in matching : TRUE).words)
    IN  IF Cardinality(matching) = 1 /\ parsed.date # NoDate
        THEN [date |-> parsed.date, issues |-> normal.issues \cup {"correction_applied"}]
        ELSE IF Cardinality(matching) > 1
        THEN [date |-> NoDate, issues |-> normal.issues \cup {"correction_ambiguous"}]
        ELSE normal

\* date_is_silently_exactified
SilentlyExactified(d) ==
    "approx" \in d.words.has /\ (d.kind = "exact" \/ d.precision = "day" \/ ~d.approx)

\* date_is_invalid_calendar_value
InvalidCalendarValue(d) == d.precision = "day" /\ d.value # NoYear /\ ~d.words.real

-----------------------------------------------------------------------------
(* The words of a relationship.                                            *)

\* The cues that keep a relationship from being a current one; "revised" only announces a
\* correction ("no", "rather").
StateCues == {"double", "figurative", "negated", "ended", "former"}
Markers == {"uncertain", "imprecise", "unresolved"}
Clause == [names : 0..2, holds : {"none", "revised", "double", "negated", "former", "uncertain"}]

\* find_uncertainty_markers
FindMarkers(text) == {i \in DOMAIN text : text[i].holds \in Markers}

\* _target_clause: the only clause that names the target.
TargetClause(text) ==
    LET naming == {i \in DOMAIN text : text[i].names > 0}
    IN  IF Cardinality(naming) = 1 THEN naming ELSE {}

\* _reported_target_scope: somebody is said to have said it, and every mention of the target
\* is inside the quotation.
ReportedTarget(t) == t.verb /\ t.quoted

\* infer_uncertainty: a marker counts for the clause that names the target; where that clause
\* is not known it counts for the claim.
InferUncertainty(t) ==
    LET markers == FindMarkers(t.text)
        target == TargetClause(t.text)
    IN  IF ReportedTarget(t) THEN "reported"
        ELSE IF markers = {} /\ ~t.declared THEN "none"
        ELSE IF target = {} THEN "unresolved"
        ELSE IF target \cap markers = {} THEN (IF t.declared THEN "unresolved" ELSE "none")
        ELSE "uncertain"

\* The cited clauses, in order; the whole source when none is cited.
CitedText(t) == IF t.cites = {} THEN t.text ELSE [i \in 1..Cardinality(t.cites) |->
                    t.text[CHOOSE j \in t.cites : Cardinality({k \in t.cites : k <= j}) = i]]

BestClauses(text) ==
    {i \in DOMAIN text : text[i].names > 0 /\ \A j \in DOMAIN text : text[j].names <= text[i].names}

SemanticText_Alone(t) ==
    LET text == CitedText(t)
        best == BestClauses(text)
        at == CHOOSE i \in best : TRUE
    IN  IF Cardinality(best) # 1 THEN text ELSE SubSeq(text, at, at)

\* relationship_semantic_text: the one clause that names most of the two people, with the next
\* one if that takes something back; the whole text if there is no such clause.
SemanticText(t) ==
    LET text == CitedText(t)
        best == BestClauses(text)
        at == CHOOSE i \in best : TRUE
        takenBack == at < Len(text) /\ text[at + 1].holds \in StateCues \cup {"revised"}
    IN  IF Cardinality(best) # 1 THEN text
        ELSE SubSeq(text, at, IF takenBack THEN at + 1 ELSE at)

\* infer_relationship_state: the strongest cue of the text decides.
InferState(cues) ==
    IF "double" \in cues THEN "unresolved"
    ELSE IF "figurative" \in cues THEN "figurative"
    ELSE IF "negated" \in cues THEN "negated"
    ELSE IF "ended" \in cues THEN "ended"
    ELSE IF "former" \in cues THEN "former" ELSE "current"

\* harden_claim_semantics, relationships: the self-corrections about this relationship.
RelevantCorrections(t) ==
    {c \in t.revisions : c.shares /\ (c.newInText \/ (c.namesOne /\ c.oldInText))}

\* harden_claim_semantics, relationships: the state of the text, and with the corrections
\* added to it; they never make a relationship current again.
RelationshipState(t) ==
    LET text == SemanticText(t)
        said == {text[i].holds : i \in DOMAIN text}
        revised == {c.holds : c \in RelevantCorrections(t)}
    IN  IF InferState(said) = "current" THEN InferState(said \cup revised) ELSE InferState(said)

\* relationship_is_active_candidate
ActiveCandidate(b) == b.state = "current" /\ b.doubt = "none"

-----------------------------------------------------------------------------
(* Inputs and steps.                                                       *)

Correction == [ofDate : BOOLEAN, spoken : BOOLEAN,
               words : {WordsOf({"year"}, {}, TRUE, 2), WordsOf({"iso", "year"}, {}, FALSE, 2),
                        WordsOf({"iso", "year"}, {"approx"}, TRUE, 2)}]
OtherEvent == [type : {"birth"}, people : {{"p"}, {"p", "q"}},
               words : {WordsOf({"year"}, {}, TRUE, 1), WordsOf({"year"}, {}, TRUE, 2),
                        WordsOf({"month", "year"}, {"approx"}, TRUE, 1)}]
              \cup [type : {"wedding"}, people : {{"p"}},
                    words : {WordsOf({"year"}, {}, TRUE, 2)}]

PlainTales ==
    [kind : {"events"}, words : Expressions(Mods), spoken : BOOLEAN, proposesDay : BOOLEAN,
     corrections : {{}}, other : {o \in OtherEvent : o.type = "wedding"}]
CorrectedTales ==
    [kind : {"events"}, words : Expressions({"approx"}), spoken : {TRUE}, proposesDay : {FALSE},
     corrections : {c \in SUBSET Correction : Cardinality(c) <= 2}, other : OtherEvent]
EventTales == PlainTales \cup CorrectedTales

Revision == [shares : BOOLEAN, newInText : BOOLEAN, oldInText : BOOLEAN, namesOne : BOOLEAN,
             holds : {"none", "former"}]

RelationshipTales ==
    [kind : {"relationship"}, text : [1..2 -> Clause], cites : SUBSET {1, 2}, verb : BOOLEAN,
     quoted : BOOLEAN, declared : BOOLEAN, revisions : {{}}]
    \cup [kind : {"relationship"}, text : [1..1 -> Clause], cites : {{}, {1}}, verb : {FALSE},
          quoted : {FALSE}, declared : {FALSE}, revisions : {{}} \cup {{r} : r \in Revision}]

ClaimInit ==
    /\ told = NoTale /\ hardened = "no"
    /\ bond = [state |-> "current", doubt |-> "none"]
    /\ dates = [e \in Births |-> NoDate] /\ eventsKept = Births
    /\ dateIssues = {} /\ temporal = {}

\* The extraction with what was said, as parsed before.
TellTale(t) ==
    /\ told = NoTale /\ told' = t
    /\ UNCHANGED <<hardened, bond, dates, eventsKept, dateIssues, temporal>>

\* harden_claim_semantics on a relationship.
HardenRelationship ==
    /\ told.kind = "relationship" /\ hardened = "no"
    /\ bond' = [state |-> RelationshipState(told), doubt |-> InferUncertainty(told)]
    /\ hardened' = "hardened"
    /\ UNCHANGED <<told, dates, eventsKept, dateIssues, temporal>>

\* harden_claim_semantics on the events; the words of event 2 were said and not corrected.
HardenEvents ==
    /\ told.kind = "events" /\ hardened = "no"
    /\ LET mine == CorrectDate(told, NormalizeEventDate(told))
       IN  /\ dates' = [e \in Births |-> IF e = 1 THEN mine.date
                                        ELSE ParseTemporal(told.other.words).date]
           /\ dateIssues' = mine.issues
    /\ hardened' = "hardened"
    /\ UNCHANGED <<told, bond, eventsKept, temporal>>

\* validate_extraction_result on one event, as far as its date goes; the filter after the
\* hardening drops an event that fails.
DateSound(d) ==
    d # NoDate => /\ ~SilentlyExactified(d) /\ ~InvalidCalendarValue(d)
                  /\ ~(d.kind = "relative" /\ d.value # NoYear)

FilterEvents ==
    /\ told.kind = "events" /\ hardened = "hardened"
    /\ eventsKept' = {e \in Births : DateSound(dates[e])}
    /\ hardened' = "filtered"
    /\ UNCHANGED <<told, bond, dates, dateIssues, temporal>>

\* add_temporal_conflicts: what is compared of two dates.
SignatureOf(d) == <<d.kind, d.value, d.lower, d.upper>>

\* add_temporal_conflicts: the dated births, or deaths, of the same people.
SingletonGroup ==
    LET same == told.other.type \in {"birth", "death"} /\ told.other.people = {"p"}
    IN  {e \in eventsKept : dates[e] # NoDate /\ (e = 2 => same)}

AddTemporalConflicts ==
    /\ told.kind = "events" /\ hardened = "filtered"
    /\ LET group == SingletonGroup
           signatures == {SignatureOf(dates[e]) : e \in group}
       IN  temporal' = temporal \cup (IF Cardinality(signatures) > 1 THEN {group} ELSE {})
    /\ hardened' = "compared"
    /\ UNCHANGED <<told, bond, dates, eventsKept, dateIssues>>

ClaimNext ==
    \/ told = NoTale /\ \E t \in EventTales : TellTale(t)
    \/ told = NoTale /\ \E t \in RelationshipTales : TellTale(t)
    \/ HardenRelationship \/ HardenEvents \/ FilterEvents \/ AddTemporalConflicts

-----------------------------------------------------------------------------
(* Properties.                                                             *)

\* Every decided state has its kinds of values.
ClaimTypeOK ==
    /\ hardened \in {"no", "hardened", "filtered", "compared"}
    /\ eventsKept \subseteq Births
    /\ bond.state \in {"current", "former", "ended", "negated", "figurative", "unresolved"}
    /\ temporal \subseteq SUBSET Births

\* An event that is kept with a day has a day the narrator named with its year, that the
\* calendar has, and that was not "about": across the parse, a correction whose own words are
\* an estimate or impossible, and the filter after them (parse_temporal_expression,
\* date_is_silently_exactified).
ExactDatesWereSaid ==
    hardened \in {"filtered", "compared"} => \A e \in eventsKept :
        (dates[e] # NoDate /\ dates[e].precision = "day" /\ dates[e].value # NoYear) =>
            /\ dates[e].words.has \cap {"iso", "dayYear"} # {}
            /\ dates[e].words.real /\ "approx" \notin dates[e].words.has

\* The words of a date stand in the recording: the model's own were found there, and a
\* correction replaces a date only by words that are there too (normalize_event_date,
\* harden_claim_semantics).
DateWordsWereSpoken ==
    (told.kind = "events" /\ hardened # "no" /\ dates[1] # NoDate) =>
        \/ told.spoken /\ dates[1].words = told.words
        \/ \E c \in told.corrections : c.spoken /\ dates[1].words = c.words

\* A date the narrator took back does not stand, whether he corrected it once or in two ways,
\* unless the correction's own words are no date at all (harden_claim_semantics).
CorrectedDateIsGone ==
    (told.kind = "events" /\ hardened # "no" /\ dates[1] # NoDate /\ dates[1].words = told.words) =>
        LET taken == {c \in told.corrections : c.spoken /\ c.ofDate}
        IN  \/ taken = {}
            \/ \E c \in taken : taken = {c} /\ ParseTemporal(c.words).date = NoDate

\* An event that loses its date says so in an issue (normalize_event_date, and the two
\* outcomes of a correction in harden_claim_semantics).
LostDateIsReported ==
    (told.kind = "events" /\ hardened # "no" /\ dates[1] = NoDate) => dateIssues # {}

\* An event is dropped for its date only where an estimate was worded as a day, a range or a
\* relation, never for a date that was merely impossible or that the model made up: those cost
\* the date and keep the event (date_is_silently_exactified after harden_claim_semantics).
OnlyVagueDaysAreDropped ==
    hardened \in {"filtered", "compared"} => \A e \in Births \ eventsKept :
        "approx" \in dates[e].words.has /\ ~dates[e].approx

\* Two births of the same person stand in one conflict exactly when the dates they end up
\* with, corrected and filtered, differ (add_temporal_conflicts after harden_claim_semantics).
DisagreementIsShown ==
    hardened = "compared" =>
        LET compared == /\ told.other.type = "birth" /\ told.other.people = {"p"}
                        /\ eventsKept = Births /\ NoDate \notin {dates[1], dates[2]}
            differ == \E f \in {"kind", "value", "lower", "upper"} : dates[1][f] # dates[2][f]
        IN  (Births \in temporal) <=> (compared /\ differ)

\* A relationship that may be used has nothing against it in the clauses it cites: none that
\* names both people says it is over, denied or meant otherwise, nor does the clause right
\* after the only one that names them, nor a correction of the narrator's about one of them
\* (relationship_semantic_text, infer_relationship_state).
ActiveIsPlainlySaid ==
    (told.kind = "relationship" /\ hardened # "no" /\ ActiveCandidate(bond)) =>
        LET text == CitedText(told)
        IN  /\ \A i \in DOMAIN text : text[i].names = 2 => text[i].holds \notin StateCues
            /\ \A i \in DOMAIN text :
                  (i > 1 /\ text[i].names = 0 /\ text[i - 1].names > 0)
                      => text[i].holds \notin StateCues
            /\ \A r \in told.revisions :
                  (r.shares /\ r.namesOne /\ r.oldInText) => r.holds \notin StateCues

\* A relationship that may be used is not in doubt: no clause that names one of its people
\* holds a marker of doubt, it is not only what somebody is quoted as saying, and the model
\* itself did not call it uncertain (infer_uncertainty).
ActiveIsUndoubted ==
    (told.kind = "relationship" /\ hardened # "no" /\ ActiveCandidate(bond)) =>
        /\ ~(told.verb /\ told.quoted) /\ ~told.declared
        /\ \A i \in DOMAIN told.text : told.text[i].names > 0 => told.text[i].holds \notin Markers

\* Dates and certainty of claims are those of the words: no date is more exact than what was
\* said, corrected dates go and lost ones are reported, disagreements show, and a relationship
\* is active only where it was said plainly and without doubt (harden_claim_semantics,
\* add_temporal_conflicts, validate_extraction_result).
SemanticsInv ==
    /\ ClaimTypeOK
    /\ ExactDatesWereSaid /\ DateWordsWereSpoken /\ OnlyVagueDaysAreDropped
    /\ CorrectedDateIsGone /\ LostDateIsReported /\ DisagreementIsShown
    /\ ActiveIsPlainlySaid /\ ActiveIsUndoubted

=============================================================================
