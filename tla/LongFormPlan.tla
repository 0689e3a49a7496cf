---------------------------- MODULE LongFormPlan ----------------------------
(***************************************************************************)
(* How a long transcript is cut into windows for extraction                *)
(* (src/mura/long_form.py): segments that are too long are sliced at       *)
(* punctuation, pieces are grouped with an overlap, and groups are joined  *)
(* until there are no more than the budget allows.                         *)
(*                                                                         *)
(* A character counts as one token.  Two slices of a segment have          *)
(* different texts.                                                        *)
(***************************************************************************)
EXTENDS Integers, Sequences, SequencesExt

CONSTANTS Lengths,          \* lengths a segment may have
          Punctuation,      \* where the marks may stand in a segment that must be sliced
          MaxSegments,      \* bound: segments of a transcript
          CountThreshold,   \* segment_count_threshold
          InputThreshold,   \* estimated_input_token_threshold, or what the context leaves
          OversizedAt,      \* maximum_segment_tokens
          TargetWindow, MaxWindow,     \* target_window_tokens, maximum_window_tokens
          TargetSegments,   \* target_segments_per_window
          MaxWindows,       \* maximum_windows
          Overlap,          \* overlap_segments
          MinWindow,        \* minimum_window_tokens
          Reach             \* how far from the target a clause boundary is looked for (80)

\* A segment has text; the limits are those of LongFormPolicy.
ASSUME PlanAssumption ==
    /\ Lengths \subseteq Nat \ {0} /\ Punctuation \subseteq SUBSET Nat
    /\ TargetWindow \in Nat \ {0} /\ MaxWindow \in Nat \ {0} /\ MaxWindows \in Nat \ {0}
    /\ Overlap \in Nat /\ Reach \in Nat

VARIABLES
    tale,     \* the segments: [len, marks, pause], the punctuation and a pause before it
    windows   \* the planned windows, each a sequence of pieces [seg, first, past]

planVars == <<tale, windows>>

Segment == [len : Lengths, marks : {{}} \cup Punctuation, pause : BOOLEAN]

PlanInit == tale = <<>> /\ windows = <<>>

Size(p) == p.past - p.first
\* The tokens of a group, piece by piece.
Tokens(group) ==
    LET upTo[n \in 0..Len(group)] == IF n = 0 THEN 0 ELSE upTo[n - 1] + Size(group[n])
    IN  upTo[Len(group)]

TotalTokens(segments) == FoldLeft(LAMBDA n, s : n + s.len, 0, segments)

\* _decision_reasons: is the transcript long?  (One token count serves for the normalised and
\* the estimated one.)
IsLong ==
    \/ Len(tale) > CountThreshold
    \/ TotalTokens(tale) > InputThreshold
    \/ \E i \in DOMAIN tale : tale[i].len > OversizedAt

Ceiling(a, b) == (a + b - 1) \div b

LeastOf(S) == CHOOSE k \in S : \A j \in S : k <= j

\* The boundary after b: behind the mark nearest to the target, or the target itself.
ClauseBoundary(s, b, target) ==
    LET cursor == b + target
        marks == {i \in s.marks : i > b /\ i >= cursor - Reach /\ i < cursor + Reach /\ i < s.len}
        away(i) == IF i < cursor THEN cursor - i ELSE i - cursor
        near == {i \in marks : \A j \in marks : away(i) <= away(j)}
    IN  IF marks = {} THEN cursor ELSE LeastOf(near) + 1

NextBoundary(s, b, target) ==
    IF b + target >= s.len THEN s.len ELSE ClauseBoundary(s, b, target)

\* _bounded_clause_slices: the boundaries, up to the end of the segment; a mark at the very end
\* leaves no empty slice behind it.
BoundedClauseSlices(s, count) ==
    LET target == Ceiling(s.len, count)
        at[k \in 0..s.len] == IF k = 0 THEN 0 ELSE NextBoundary(s, at[k - 1], target)
        last == LeastOf({k \in 0..s.len : at[k] = s.len})
    IN  [k \in 1..(last + 1) |-> at[k - 1]]

\* _expand_oversized_segments, one segment
PiecesOf(i) ==
    LET s == tale[i]
        wanted == Ceiling(s.len, TargetWindow)
        cuts == IF s.len <= MaxWindow THEN <<0, s.len>>
                ELSE BoundedClauseSlices(s, IF wanted < MaxWindows THEN wanted ELSE MaxWindows)
    IN  [k \in 1..(Len(cuts) - 1) |-> [seg |-> i, first |-> cuts[k], past |-> cuts[k + 1]]]

\* _expand_oversized_segments
ExpandOversized ==
    LET upTo[n \in 0..Len(tale)] == IF n = 0 THEN <<>> ELSE upTo[n - 1] \o PiecesOf(n)
    IN  upTo[Len(tale)]

\* repeated_source_slice: two slices of one segment are never grouped.
SameSource(group, p) == group # <<>> /\ Last(group).seg = p.seg

\* Is the group closed before the piece?
ClosesBefore(group, p) ==
    /\ group # <<>>
    /\ \/ Tokens(group) + Size(p) > MaxWindow
       \/ Len(group) >= TargetSegments
       \/ SameSource(group, p)
       \/ p.first = 0 /\ tale[p.seg].pause /\ Tokens(group) >= MinWindow

\* What the next group starts with: the end of the one before it.
Carried(group, p) ==
    IF SameSource(group, p) THEN <<>>
    ELSE SubSeq(group, IF Len(group) > Overlap THEN Len(group) - Overlap + 1 ELSE 1, Len(group))

\* _windowed, one piece
AddPiece(acc, p) ==
    IF ClosesBefore(acc.open, p)
    THEN [done |-> Append(acc.done, acc.open), open |-> Append(Carried(acc.open, p), p)]
    ELSE [done |-> acc.done, open |-> Append(acc.open, p)]

NoGroups == [done |-> <<>>, open |-> <<>>]

\* _windowed
Groups(pieces) ==
    LET upTo[n \in 0..Len(pieces)] ==
            IF n = 0 THEN NoGroups ELSE AddPiece(upTo[n - 1], pieces[n])
        end == upTo[Len(pieces)]
    IN  Append(end.done, end.open)

\* _unique_segments: what was seen before is skipped.
AddUnseen(out, p) == IF \E k \in DOMAIN out : out[k] = p THEN out ELSE Append(out, p)

Unique(group) ==
    LET upTo[n \in 0..Len(group)] == IF n = 0 THEN <<>> ELSE AddUnseen(upTo[n - 1], group[n])
    IN  upTo[Len(group)]

\* Group i and the next become one.
JoinAt(groups, i) ==
    [k \in 1..(Len(groups) - 1) |->
        IF k < i THEN groups[k]
        ELSE IF k = i THEN Unique(groups[i] \o groups[i + 1]) ELSE groups[k + 1]]

\* The two neighbours with the fewest tokens, the first such pair.
Cheapest(groups) ==
    LET cost(i) == Tokens(groups[i]) + Tokens(groups[i + 1])
        pairs == 1..(Len(groups) - 1)
    IN  LeastOf({i \in pairs : \A j \in pairs : cost(i) <= cost(j)})

\* _coalesce_to_budget
CoalesceToBudget(groups) ==
    LET surplus == IF Len(groups) > MaxWindows THEN Len(groups) - MaxWindows ELSE 0
        upTo[k \in 0..surplus] ==
            IF k = 0 THEN groups ELSE JoinAt(upTo[k - 1], Cheapest(upTo[k - 1]))
    IN  upTo[surplus]

Whole(p) == p.first = 0 /\ p.past = tale[p.seg].len

\* materialize_window: the text extraction sees.  Slices are looked up by segment: of two
\* slices of one segment the last one counts.
Materialized(window) ==
    LET slices(i) == {j \in DOMAIN window : window[j].seg = i /\ ~ Whole(window[j])}
        last(i) == CHOOSE j \in slices(i) : \A l \in slices(i) : l <= j
        text(i) == IF slices(i) = {} THEN 0..(tale[i].len - 1)
                   ELSE window[last(i)].first..(window[last(i)].past - 1)
    IN  UNION {{<<window[k].seg, c>> : c \in text(window[k].seg)} : k \in DOMAIN window}

Told == UNION {{<<i, c>> : c \in 0..(tale[i].len - 1)} : i \in DOMAIN tale}

\* A recording is transcribed; only where it must be sliced does its punctuation matter.
Narrate(segments) ==
    /\ tale = <<>>
    /\ tale' = segments /\ UNCHANGED windows

\* LongFormExtractionPlanner.plan: a short tale is one window of whole segments.
WholeTale == [i \in DOMAIN tale |-> [seg |-> i, first |-> 0, past |-> tale[i].len]]

Plan ==
    /\ tale # <<>> /\ windows = <<>>
    /\ windows' = IF IsLong THEN CoalesceToBudget(Groups(ExpandOversized)) ELSE <<WholeTale>>
    /\ UNCHANGED tale

PlanNext ==
    \/ \E n \in 1..MaxSegments :
         \E segments \in [1..n -> [len : Lengths, marks : {{}}, pause : BOOLEAN]
                                  \cup [len : {k \in Lengths : k > MaxWindow},
                                        marks : Punctuation, pause : {FALSE}]] :
            Narrate(segments)
    \/ Plan

-----------------------------------------------------------------------------
(* Properties.                                                             *)

PlanTypeOK ==
    /\ tale \in Seq(Segment)
    /\ \A k \in DOMAIN windows : \A j \in DOMAIN windows[k] :
         LET p == windows[k][j] IN p.seg \in DOMAIN tale /\ 0 <= p.first /\ p.past <= tale[p.seg].len

\* Slicing, grouping and joining leave no character out of the plan, put none out of order
\* and make no empty piece, within the number of windows the budget pays for
\* (_windowed, _coalesce_to_budget).
PlanCoversTale ==
    windows # <<>> =>
       /\ Len(windows) \in 1..MaxWindows
       /\ Told = UNION {UNION {{<<p.seg, c>> : c \in p.first..(p.past - 1)} :
                               p \in {windows[k][j] : j \in DOMAIN windows[k]}} : k \in DOMAIN windows}
       /\ \A k \in DOMAIN windows : \A j \in DOMAIN windows[k] :
            LET p == windows[k][j] IN
            /\ p.first < p.past
            /\ \A i \in 1..(j - 1) : LET q == windows[k][i] IN
                  q.seg < p.seg \/ (q.seg = p.seg /\ q.past <= p.first)

\* What the windows show the extractor is the whole transcript, unless joining groups to fit
\* the budget put two slices of one segment into one window; then only the earlier of these
\* slices is missing (materialize_window).
NothingUnheard ==
    windows # <<>> =>
       LET heard == UNION {Materialized(windows[k]) : k \in DOMAIN windows}
       IN  /\ IsLong /\ Len(Groups(ExpandOversized)) <= MaxWindows => heard = Told
           /\ \A lost \in Told \ heard : \E k \in DOMAIN windows : \E i, j \in DOMAIN windows[k] :
                /\ i < j /\ windows[k][i].seg = lost[1] /\ windows[k][j].seg = lost[1]
                /\ lost[2] \in windows[k][i].first..(windows[k][i].past - 1)

\* The windows of a long recording cover it (plan, materialize_window).
WindowPlanInv == PlanTypeOK /\ PlanCoversTale /\ NothingUnheard

=============================================================================
