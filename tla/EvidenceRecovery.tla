-------------------------- MODULE EvidenceRecovery --------------------------
(***************************************************************************)
(* Where a quoted piece of evidence stands in the recording                *)
(* (src/mura/evidence_recovery.py and the check of a span in              *)
(* src/mura/claim_model.py).  The model proposes a quotation, the layer it *)
(* is taken from (the raw transcript or the readable one) and offsets that *)
(* are often wrong; offsets are repaired only when the text occurs once.   *)
(*                                                                         *)
(* One segment; a text is a sequence of letters.                           *)
(***************************************************************************)
EXTENDS ExtractionSalvage, Sequences

CONSTANTS Letters,     \* the characters of a text
          MaxText,     \* bound: characters of the segment
          MaxQuote     \* bound: characters of a quotation

ASSUME TextAssumption == MaxText \in Nat /\ MaxQuote \in Nat

VARIABLES
    rawText, readableText,   \* the segment in both layers, NoText without a readable one
    spans,                   \* the proposed span: a singleton set, empty before it
    recovery                 \* [verdict, start, end, accepted], NoVerdict before the recovery

evidenceVars == <<rawText, readableText, spans, recovery>>

NoText == <<"no text">>
NoOffset == -1
NoVerdict == [verdict |-> "none", start |-> NoOffset, end |-> NoOffset, accepted |-> FALSE]

TextsUpTo(n) == UNION {[1..k -> Letters] : k \in 0..n}

Span == [known : BOOLEAN, layer : {"raw", "readable", "other"}, text : TextsUpTo(MaxQuote),
         start : NoOffset..MaxText, end : NoOffset..MaxText]

EvidenceInit ==
    /\ rawText = <<>> /\ readableText = NoText
    /\ spans = {} /\ recovery = NoVerdict

Declared(s) == IF s.layer = "raw" THEN rawText ELSE readableText
Opposite(s) == IF s.layer = "raw" THEN readableText ELSE rawText

\* _all_occurrences: every position, overlapping ones too.
AllOccurrences(text, quote) ==
    {p \in 0..(Len(text) - Len(quote)) : SubSeq(text, p + 1, p + Len(quote)) = quote}

\* _offsets_match
OffsetsMatch(text, quote, start, end) ==
    /\ 0 <= start /\ start < end /\ end <= Len(text)
    /\ end - start = Len(quote)
    /\ SubSeq(text, start + 1, end) = quote

InText(quote, text) == text # NoText /\ AllOccurrences(text, quote) # {}

Kept(s, verdict) == [verdict |-> verdict, start |-> s.start, end |-> s.end]

\* recover_evidence_offsets for one candidate.
RecoverOffsets(s) ==
    LET found == AllOccurrences(Declared(s), s.text)
        at == CHOOSE p \in found : TRUE
    IN  CASE ~s.known -> Kept(s, "unknown_segment")
          [] s.known /\ s.text = <<>> -> Kept(s, "invalid_text")
          [] s.known /\ s.text # <<>> /\ s.layer = "other" -> Kept(s, "unrecoverable")
          [] s.known /\ s.text # <<>> /\ s.layer # "other" /\ Declared(s) = NoText ->
               Kept(s, "wrong_source_layer")
          [] OTHER ->
               IF OffsetsMatch(Declared(s), s.text, s.start, s.end) THEN Kept(s, "already_valid")
               ELSE IF found = {}
               THEN Kept(s, IF InText(s.text, Opposite(s)) THEN "wrong_source_layer" ELSE "missing")
               ELSE IF \A p \in found : p = at
               THEN [verdict |-> "recovered", start |-> at, end |-> at + Len(s.text)]
               ELSE [verdict |-> "ambiguous", start |-> NoOffset, end |-> NoOffset]

\* A candidate with any other verdict is left out by _parse_items (quarantined_ids).
Quarantined(verdict) == verdict \notin {"already_valid", "recovered"}

\* _validate_candidate_evidence: text[start:end] is the quotation, so a slice that Python cuts
\* short at the end of the text never is.
ValidEvidence(s, start, end) ==
    /\ s.known
    /\ Declared(s) # NoText /\ InText(s.text, Declared(s))
    /\ start # NoOffset /\ end # NoOffset
    /\ end <= Len(Declared(s)) /\ SubSeq(Declared(s), start + 1, end) = s.text

\* The model answers a segment's texts with a span; process_extraction_candidate recovers it, leaves out what is
\* quarantined and later checks what is left against the segment again.
ProposeSpan(s, raw, readable) ==
    /\ spans = {}
    /\ spans' = {s} /\ rawText' = raw /\ readableText' = readable
    /\ UNCHANGED recovery

RecoverSpan(s) ==
    /\ recovery = NoVerdict
    /\ LET r == RecoverOffsets(s)
       IN  recovery' = [verdict |-> r.verdict, start |-> r.start, end |-> r.end,
                        accepted |-> /\ ~Quarantined(r.verdict)
                                     /\ ValidEvidence(s, r.start, r.end)]
    /\ UNCHANGED <<rawText, readableText, spans>>

EvidenceNext ==
    \/ /\ spans = {}
       /\ \E s \in Span, raw \in TextsUpTo(MaxText), readable \in TextsUpTo(MaxText - 1) \cup {NoText} :
             ProposeSpan(s, raw, readable)
    \/ \E s \in spans : RecoverSpan(s)

-----------------------------------------------------------------------------
(* Properties.                                                             *)

\* A reference reading of the docstring of recover_evidence_offsets, "Recover only unique exact
\* offsets inside the declared transcript source layer": accepted evidence stands exactly where
\* its offsets say in its own layer, and offsets the model did not propose belong to the only
\* place where the text occurs.
EvidenceStandsThere ==
    \A s \in spans : recovery.accepted =>
       /\ s.layer \in {"raw", "readable"} /\ Declared(s) # NoText /\ s.text # <<>>
       /\ recovery.end = recovery.start + Len(s.text)
       /\ \A i \in 1..Len(s.text) : Declared(s)[recovery.start + i] = s.text[i]
       /\ <<recovery.start, recovery.end>> # <<s.start, s.end>> =>
            \A p \in 0..Len(Declared(s)) :
               (p + Len(s.text) <= Len(Declared(s))
                /\ \A i \in 1..Len(s.text) : Declared(s)[p + i] = s.text[i]) => p = recovery.start

\* Evidence is not lost for wrong offsets alone: what occurs exactly once in the declared layer
\* is accepted, whatever offsets came with it, and what two layers hold is refused only in the
\* layer that was not declared.
UniqueEvidenceIsKept ==
    \A s \in spans : recovery # NoVerdict =>
       /\ (s.known /\ s.text # <<>> /\ s.layer # "other" /\ Declared(s) # NoText =>
             LET places == {p \in 0..Len(Declared(s)) :
                               /\ p + Len(s.text) <= Len(Declared(s))
                               /\ \A i \in 1..Len(s.text) : Declared(s)[p + i] = s.text[i]}
             IN  /\ (\E p \in places : places = {p}) => recovery.accepted
                 /\ recovery.verdict = "missing" => places = {} /\ ~InText(s.text, Opposite(s)))
       /\ recovery.verdict \in {"already_valid", "recovered"} => recovery.accepted

\* Evidence stands where its offsets say, and what can be placed is kept
\* (recover_evidence_offsets).
EvidenceInv == EvidenceStandsThere /\ UniqueEvidenceIsKept

\* What an extraction keeps of the model's answer: evidence that stands where it says, nothing
\* that refers to what was dropped, and no more lost than must be (recover_evidence_offsets,
\* process_extraction_candidate).
GroundingInv == EvidenceInv /\ SalvageInv

=============================================================================
