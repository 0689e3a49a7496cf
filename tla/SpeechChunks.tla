---------------------------- MODULE SpeechChunks ----------------------------
(***************************************************************************)
(* How the own recogniser cuts a recording and puts its text together      *)
(* (services/kaggle_asr/chunking.py, model.py): the regions with speech    *)
(* are joined into ranges, padded at the edges, transcribed one by one,    *)
(* and merged; words that two overlapping chunks share are removed.        *)
(*                                                                         *)
(* Time is counted in samples, one word is spoken per sample with speech.  *)
(***************************************************************************)
EXTENDS Integers, Sequences, SequencesExt

CONSTANTS Samples,      \* length of the recording
          MaxRegion,    \* max_speech_duration_s: the detector cuts longer speech
          MaxRange,     \* max_chunk_seconds
          MaxGap,       \* max_internal_gap_seconds
          Padding,      \* edge_padding_seconds
          MaxFinal,     \* max_final_seconds
          MaxOverlapWords

\* As the defaults are: 20 seconds of speech, in ranges of 22 with gaps of 1.2, padded by 0.45 up
\* to 24.9, and 8 words are more than two paddings hold.
ASSUME ChunkAssumption ==
    /\ Samples \in Nat /\ Samples > 1
    /\ MaxRegion \in Nat \ {0} /\ MaxRange \in Nat /\ MaxGap \in Nat /\ Padding \in Nat
    /\ MaxFinal \in Nat /\ MaxOverlapWords \in Nat
    /\ MaxRegion <= MaxRange /\ MaxRange + Padding <= MaxFinal
    /\ 2 * Padding <= MaxGap + 1 /\ 2 * Padding <= MaxRange - MaxRegion + 1
    /\ 2 * Padding <= MaxOverlapWords

VARIABLES
    speech,   \* the samples with speech
    voiced,   \* per sample, the word spoken
    chunks,   \* what is transcribed: a sequence of [first, past]
    text      \* the merged transcript

chunkVars == <<speech, voiced, chunks, text>>

ChunkInit == speech = {} /\ voiced = <<>> /\ chunks = <<>> /\ text = <<>>

\* The last stretch of a sequence goes on.
Widened(stretches, past) == [stretches EXCEPT ![Len(stretches)] = [@ EXCEPT !.past = past]]

\* The detector (external), one sample: speech goes on until there is a pause or too much of it.
Detect(regions, S, n) ==
    IF n \notin S THEN regions
    ELSE IF regions # <<>> /\ Last(regions).past = n /\ n - Last(regions).first < MaxRegion
         THEN Widened(regions, n + 1)
         ELSE Append(regions, [first |-> n, past |-> n + 1])

\* The stretches of speech in order, cut where they are too long.
Regions(S) ==
    LET upTo[n \in 0..Samples] == IF n = 0 THEN <<>> ELSE Detect(upTo[n - 1], S, n - 1)
    IN  upTo[Samples]

Larger(a, b) == IF a > b THEN a ELSE b
Smaller(a, b) == IF a < b THEN a ELSE b

\* build_smart_ranges, one region: it joins the open range, the last, while that stays short and
\* the gap is small.
AddRegion(ranges, r) ==
    IF /\ ranges # <<>> /\ r.past - Last(ranges).first <= MaxRange
       /\ r.first - Last(ranges).past <= MaxGap
    THEN Widened(ranges, Larger(Last(ranges).past, r.past))
    ELSE Append(ranges, r)

\* build_smart_ranges
BuildSmartRanges(regions) ==
    LET upTo[n \in 0..Len(regions)] == IF n = 0 THEN <<>> ELSE AddRegion(upTo[n - 1], regions[n])
    IN  upTo[Len(regions)]

\* apply_edge_padding: what is still too long is trimmed on both sides.
ApplyEdgePadding(ranges) ==
    [i \in DOMAIN ranges |->
       LET first == Larger(0, ranges[i].first - Padding)
           past == Smaller(Samples, ranges[i].past + Padding)
           overflow == Larger(0, (past - first) - MaxFinal)
       IN  [first |-> first + overflow \div 2, past |-> past - (overflow - overflow \div 2)]]

\* What the model hears in a chunk: the words spoken in it.
WordsIn(first, past) ==
    LET upTo[n \in 0..Samples] ==
            IF n <= first THEN <<>>
            ELSE IF n - 1 \in speech THEN Append(upTo[n - 1], voiced[n]) ELSE upTo[n - 1]
    IN  upTo[past]

ExactOverlap_OffByOne(old, new, maximum) ==
    LET fits == {n \in 2..maximum : SubSeq(old, Len(old) - n + 1, Len(old)) = SubSeq(new, 1, n)}
    IN  IF fits = {} THEN 0 ELSE 1 + CHOOSE n \in fits : \A m \in fits : n >= m

\* _exact_overlap_size: the longest tail, of at least two words, that is also the head.
ExactOverlap(old, new, maximum) ==
    LET fits == {n \in 2..maximum : SubSeq(old, Len(old) - n + 1, Len(old)) = SubSeq(new, 1, n)}
    IN  IF fits = {} THEN 0 ELSE CHOOSE n \in fits : \A m \in fits : n >= m

\* The acoustic limit: nothing is removed where chunks do not overlap in time.
OverlapLimit(seconds) == IF seconds > 0 THEN Larger(2, seconds + 1) ELSE 0

NothingSaid == [text |-> <<>>, past |-> 0]

\* merge_transcript_parts_with_diagnostics, one chunk, at one word per sample; a chunk without
\* text is skipped.
AddPart(acc, c) ==
    LET new == WordsIn(c.first, c.past)
        seconds == Larger(0, acc.past - c.first)
        maximum == Smaller(Smaller(MaxOverlapWords, OverlapLimit(seconds)),
                           Smaller(Len(acc.text), Len(new)))
        shared == ExactOverlap(acc.text, new, maximum)
    IN  IF new = <<>> THEN acc
        ELSE IF acc.text = <<>> THEN [text |-> new, past |-> c.past]
        ELSE [text |-> acc.text \o SubSeq(new, shared + 1, Len(new)), past |-> c.past]

\* merge_transcript_parts_with_diagnostics
MergeParts(cs) ==
    LET upTo[n \in 0..Len(cs)] == IF n = 0 THEN NothingSaid ELSE AddPart(upTo[n - 1], cs[n])
    IN  upTo[Len(cs)].text

\* A recording arrives: any speech; the words all differ, or are all the same.
Record(S, same) ==
    /\ speech = {} /\ S # {}
    /\ speech' = S
    /\ voiced' = [i \in 1..Samples |-> IF same THEN 0 ELSE i]
    /\ UNCHANGED <<chunks, text>>

\* GigaAMTranscriber.transcribe
CutChunks ==
    /\ speech # {} /\ chunks = <<>>
    /\ chunks' = ApplyEdgePadding(BuildSmartRanges(Regions(speech)))
    /\ UNCHANGED <<speech, voiced, text>>

Transcribe ==
    /\ chunks # <<>> /\ text = <<>>
    /\ text' = MergeParts(chunks)
    /\ UNCHANGED <<speech, voiced, chunks>>

ChunkNext ==
    \/ \E S \in SUBSET (0..(Samples - 1)), same \in BOOLEAN : Record(S, same)
    \/ CutChunks \/ Transcribe

-----------------------------------------------------------------------------
(* Properties.                                                             *)

\* Whatever the pauses, every sample with speech is in a chunk, chunks are in order, none is
\* longer than the model takes, and neither joining nor trimming loses an edge
\* (build_smart_ranges, apply_edge_padding).
ChunksCoverSpeech ==
    chunks # <<>> =>
       /\ \A s \in speech : \E i \in DOMAIN chunks : chunks[i].first <= s /\ s < chunks[i].past
       /\ \A i \in DOMAIN chunks : /\ 0 <= chunks[i].first /\ chunks[i].past <= Samples
                                   /\ chunks[i].past - chunks[i].first \in 1..MaxFinal
       /\ \A i, j \in DOMAIN chunks : i < j => chunks[i].first <= chunks[j].first

Spoken == WordsIn(0, Samples)

\* Where no word is spoken twice, the merged text has every word that was spoken and no other,
\* in the order they were spoken, and repeats one only where two chunks heard that single word:
\* what several chunks heard is there once (merge_transcript_parts_with_diagnostics).
WordsOnceInOrder ==
    text # <<>> /\ voiced[1] # voiced[2] =>
       /\ Range(text) = {voiced[s + 1] : s \in speech}
       /\ \A i \in 2..Len(text) :
             \/ text[i - 1] < text[i]
             \/ /\ text[i - 1] = text[i]
                /\ \E k, l \in DOMAIN chunks, s \in speech :
                      /\ k # l /\ voiced[s + 1] = text[i]
                      /\ chunks[k].first <= s /\ s < chunks[k].past
                      /\ chunks[l].first <= s /\ s < chunks[l].past

\* A word the narrator repeats is kept when the chunks do not overlap, however equal they
\* sound.
RepetitionKept ==
    text # <<>> /\ (\A i \in 2..Len(chunks) : chunks[i - 1].past <= chunks[i].first) => text = Spoken

\* Cutting and merging speech: no speech falls between two chunks, every word comes out once
\* and in order, and a repetition that no overlap explains is kept (build_smart_ranges,
\* apply_edge_padding, merge_transcript_parts_with_diagnostics).
ChunkInv == ChunksCoverSpeech /\ WordsOnceInOrder /\ RepetitionKept

=============================================================================
