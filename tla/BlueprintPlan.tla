--------------------------- MODULE BlueprintPlan ----------------------------
(***************************************************************************)
(* The plan of a book: the model proposes chapters, the code validates     *)
(* them, repairs numbers, budgets and the material anchor by itself, and   *)
(* takes the repaired plan only when it is valid                           *)
(* (src/mura/book/planner.py, src/mura/book/blueprint_validation.py).      *)
(*                                                                         *)
(* A chapter is its number, its words, whether it points at the material   *)
(* anchor, and what is wrong with its references: "none", "unknown" (an id *)
(* that is not in the snapshot), "ungrounded" (no reference at all) or     *)
(* "year" (one the sources do not have).                                   *)
(***************************************************************************)
EXTENDS Integers, Sequences, FiniteSets

CONSTANTS
    MinChapters, MaxChapters, MinTotal, MaxTotal, MinChapter, MaxChapter   \* BlueprintLimits

\* 10 to 15 chapters of 700 to 3500 words, 20000 to 30000 words in all: every allowed number of
\* chapters has room for every allowed book.
ASSUME LimitsAssumption ==
    /\ {MinChapters, MaxChapters, MinTotal, MaxTotal, MinChapter, MaxChapter} \subseteq Nat
    /\ 1 <= MinChapters /\ MinChapters <= MaxChapters /\ MinTotal <= MaxTotal
    /\ MaxChapters * MinChapter <= MinTotal /\ MaxTotal <= MinChapters * MaxChapter

VARIABLES
    proposed,   \* what the model answered, NoPlan before
    blueprint,       \* what plan_book returns, NoPlan before
    planReport  \* [valid, repaired]

blueprintVars == <<proposed, blueprint, planReport>>

NoPlan == [total |-> 0, anchor |-> "none", chapters |-> <<>>]
NoPlanReport == [valid |-> FALSE, repaired |-> FALSE]

BlueprintInit == proposed = NoPlan /\ blueprint = NoPlan /\ planReport = NoPlanReport

Propose(b) == proposed = NoPlan /\ proposed' = b /\ UNCHANGED <<blueprint, planReport>>

SumWords(cs) ==
    LET upTo[i \in 0..Len(cs)] == IF i = 0 THEN 0 ELSE upTo[i - 1] + cs[i].words
    IN  upTo[Len(cs)]

\* ChapterNumbers 1..N, each once (DUPLICATE_CHAPTER_NUMBER, CHAPTER_NUMBER_GAP).
NumbersAreRight(cs) == {cs[i].number : i \in 1..Len(cs)} = 1..Len(cs)

BudgetsAreRight(b) ==
    /\ b.total \in MinTotal..MaxTotal /\ SumWords(b.chapters) = b.total
    /\ \A i \in 1..Len(b.chapters) : b.chapters[i].words \in MinChapter..MaxChapter

\* A chapter's anchor needs one of the book; the book's must be in the evidence.
AnchorsAreRight(b) ==
    /\ b.anchor # "invented"
    /\ \A i \in 1..Len(b.chapters) : b.chapters[i].anchored => b.anchor \notin {"none", "empty"}

ReferencesAreRight(b) == \A i \in 1..Len(b.chapters) : b.chapters[i].wrong = "none"

\* validate_blueprint: every issue is a blocker.
ValidBlueprint(b) ==
    /\ Len(b.chapters) \in MinChapters..MaxChapters
    /\ NumbersAreRight(b.chapters) /\ BudgetsAreRight(b) /\ AnchorsAreRight(b) /\ ReferencesAreRight(b)

ClampTo(x, lo, hi) == IF x < lo THEN lo ELSE IF x > hi THEN hi ELSE x

\* The total in equal parts, the first ones taking the remainder.
Assigned(total, n, i) ==
    ClampTo(total \div n + (IF i <= total % n THEN 1 ELSE 0), MinChapter, MaxChapter)

\* What clamping took or gave is spread one word at a time over the chapters that have room.
Spread(cs, diff) ==
    LET n == Len(cs)
        size == IF diff < 0 THEN -diff ELSE diff
        step[k \in 0..size] ==
            IF k = 0 THEN cs
            ELSE LET before == step[k - 1]
                     i == ((k - 1) % n) + 1
                 IN  IF diff > 0 /\ before[i].words < MaxChapter THEN [before EXCEPT ![i].words = @ + 1]
                     ELSE IF diff < 0 /\ before[i].words > MinChapter THEN [before EXCEPT ![i].words = @ - 1]
                     ELSE before
    IN  step[size]

AnchorAfter_Kept(b) == b.anchor
\* An anchor the evidence does not have is dropped.
AnchorAfter(b) == IF b.anchor = "invented" THEN "none" ELSE b.anchor

\* repair_blueprint_arithmetic
Repaired(b) ==
    LET total == ClampTo(b.total, MinTotal, MaxTotal)
        anchor == AnchorAfter(b)
        n == Len(b.chapters)
        assigned == [i \in 1..n |-> [b.chapters[i] EXCEPT !.number = i, !.words = Assigned(total, n, i),
                                     !.anchored = @ /\ anchor # "none"]]
    IN  [total |-> total, anchor |-> anchor,
         chapters |-> IF n = 0 THEN <<>> ELSE Spread(assigned, total - SumWords(assigned))]

\* plan_book: an invalid plan goes back as the model gave it, and the worker fails the attempt.
PlanBook ==
    /\ proposed # NoPlan /\ blueprint = NoPlan
    /\ IF ValidBlueprint(proposed)
       THEN blueprint' = proposed /\ planReport' = [valid |-> TRUE, repaired |-> FALSE]
       ELSE IF ValidBlueprint(Repaired(proposed))
       THEN blueprint' = Repaired(proposed) /\ planReport' = [valid |-> TRUE, repaired |-> TRUE]
       ELSE blueprint' = proposed /\ planReport' = NoPlanReport
    /\ UNCHANGED proposed

ChapterNumbers == 1..2
ChapterWords == {MinChapter, MinChapter + 2}
BlueprintNext ==
    \/ proposed = NoPlan /\ \E n \in 1..(MaxChapters + 1) :
          \E number \in [1..n -> ChapterNumbers], words \in [1..n -> ChapterWords], anchored \in BOOLEAN,
             total \in {MinTotal - 1, MinTotal, MinTotal + 1, MaxTotal + 2}, anchor \in {"none", "empty", "held", "invented"},
             wrong \in {"none", "unknown", "ungrounded", "year"} :
            Propose([total |-> total, anchor |-> anchor,
                     chapters |-> [i \in 1..n |-> [number |-> number[i], words |-> words[i],
                                     anchored |-> anchored, wrong |-> IF i = n THEN wrong ELSE "none"]]])
    \/ PlanBook

-----------------------------------------------------------------------------
(* Properties.                                                             *)

\* A plan that is written is within every limit: its chapters are 1..N once each and add up to
\* the book, every chapter fits, and every reference, year and anchor is of the sources; the
\* repair of numbers never makes anything else look right.
PlanIsSound ==
    planReport.valid =>
       /\ Len(blueprint.chapters) \in MinChapters..MaxChapters
       /\ \A n \in 1..Len(blueprint.chapters) : \E i \in 1..Len(blueprint.chapters) : blueprint.chapters[i].number = n
       /\ SumWords(blueprint.chapters) = blueprint.total
       /\ \A i \in 1..Len(blueprint.chapters) : /\ blueprint.chapters[i].words \in MinChapter..MaxChapter
                                           /\ proposed.chapters[i].wrong = "none"
       /\ blueprint.anchor # "invented"

\* The repair is complete: a proposal with an allowed number of chapters and sound references is
\* never lost to arithmetic, numbering or an invented anchor, and costs no second call of the
\* model ("budget and numbering defects are repaired in code").  The one exception is a chapter
\* that points at an anchor the model gave as an empty text: the reference is not cleared.
ArithmeticNeverFailsABook ==
    blueprint # NoPlan /\ Len(proposed.chapters) \in MinChapters..MaxChapters /\ ReferencesAreRight(proposed)
       /\ ~(proposed.anchor = "empty" /\ \E i \in 1..Len(proposed.chapters) : proposed.chapters[i].anchored)
       => planReport.valid

\* A plan that is accepted is sound, and none is refused for arithmetic the repair can mend
\* (validate_blueprint, repair_blueprint_arithmetic).
BlueprintInv == PlanIsSound /\ ArithmeticNeverFailsABook

=============================================================================
