---------------------------- MODULE WindowMerge -----------------------------
(***************************************************************************)
(* How the extractions of the windows become one                           *)
(* (src/mura/long_form_merge.py).  Identifiers are made unique per window, *)
(* people with the same name who share a source segment become one         *)
(* mention, every reference follows, and then facts that say the same      *)
(* become one.                                                             *)
(*                                                                         *)
(* An extraction is a set of mentions, and one fact about each of them:    *)
(* a relationship claim, or an event.  The order is that of the windows.   *)
(* Which windows there are is LongFormPlan; merging does not look at it.   *)
(***************************************************************************)
EXTENDS LongFormPlan

CONSTANTS Names,          \* normalised names
          SourceSegments, \* segments of the recording
          MaxMentions     \* bound: mentions over all windows

VARIABLES
    mentions,   \* what the windows found, in order: [name, src, told],
                \* told: the segments the fact about it comes from
    factKind,   \* "event" or "relationship": the kind of the fact about each mention
    merged      \* the merged extraction: [people, to, review, facts]

mergeVars == <<mentions, factKind, merged>>

NotMerged == [people |-> <<>>, to |-> <<>>, review |-> 0, facts |-> <<>>]

MergeInit == mentions = <<>> /\ factKind = "event" /\ merged = NotMerged

Shares_NameOnly(p, q) == p.name = q.name

\* The same person: the name is the same and a source segment is shared.
Shares(p, q) == p.name = q.name /\ p.src \cap q.src # {}

\* _merge_references: the sources of one who comes again are added.
Joined(p, m) == [p EXCEPT !.src = @ \cup m.src]

NoPeople == [people |-> <<>>, to |-> <<>>, review |-> 0]

\* _deduplicate_people, one mention: the first accepted mention that matches takes over the
\* sources; a name that comes again without a shared segment is kept and counted for review.
AddMention(acc, m) ==
    LET rivals == {k \in DOMAIN acc.people : acc.people[k].name = m.name}
        match == {k \in rivals : Shares(acc.people[k], m)}
        one == LeastOf(match)
    IN  IF match # {}
        THEN [people |-> [acc.people EXCEPT ![one] = Joined(@, m)],
              to |-> Append(acc.to, one), review |-> acc.review]
        ELSE [people |-> Append(acc.people, m), to |-> Append(acc.to, Len(acc.people) + 1),
              review |-> acc.review + (IF rivals = {} THEN 0 ELSE 1)]

\* _deduplicate_people: one mention after the other.
DeduplicatePeople(found) ==
    LET upTo[n \in 0..Len(found)] ==
            IF n = 0 THEN NoPeople ELSE AddMention(upTo[n - 1], found[n])
    IN  upTo[Len(found)]

\* _replace_all: every reference to a duplicate becomes one to the accepted mention.
RemappedFacts(found, to) ==
    [i \in DOMAIN found |-> [about |-> to[i], src |-> found[i].told, of |-> {i}]]

\* _object_signature and the rule of _deduplicate_collection: an event needs a shared segment
\* as well, a relationship does not.
SameFact(kind, f, g) == f.about = g.about /\ (kind = "event" => f.src \cap g.src # {})

\* _deduplicate_collection, one fact; `of' remembers which facts went into one.
AddFact(kind, out, f) ==
    LET match == {k \in DOMAIN out : SameFact(kind, out[k], f)}
        one == LeastOf(match)
    IN  IF match = {} THEN Append(out, f)
        ELSE [out EXCEPT ![one] = [about |-> @.about, src |-> @.src \cup f.src, of |-> @.of \cup f.of]]

\* _deduplicate_collection
DeduplicateCollection(kind, facts) ==
    LET upTo[n \in 0..Len(facts)] == IF n = 0 THEN <<>> ELSE AddFact(kind, upTo[n - 1], facts[n])
    IN  upTo[Len(facts)]

\* The windows are extracted.
FindMentions(found, kind) ==
    /\ mentions = <<>>
    /\ mentions' = found /\ factKind' = kind
    /\ UNCHANGED merged

\* merge_window_extractions
MergeWindows ==
    /\ mentions # <<>> /\ merged = NotMerged
    /\ LET people == DeduplicatePeople(mentions)
       IN  merged' = [people |-> people.people, to |-> people.to, review |-> people.review,
                      facts |-> DeduplicateCollection(factKind, RemappedFacts(mentions, people.to))]
    /\ UNCHANGED <<mentions, factKind>>

Mention == {m \in [name : Names, src : SUBSET SourceSegments, told : {{s} : s \in SourceSegments}] :
               m.told \subseteq m.src}

MergeNext ==
    \/ mentions = <<>> /\ \E n \in 1..MaxMentions : \E found \in [1..n -> Mention] :
         \E kind \in {"event", "relationship"} : FindMentions(found, kind)
    \/ MergeWindows

-----------------------------------------------------------------------------
(* Properties.                                                             *)

\* Two people of one name whom no segment shows together stay two, and the result asks for a
\* review; nobody disappears and nobody gets another's name (_deduplicate_people).
SameNameKeptApart ==
    merged # NotMerged =>
       /\ \A i \in DOMAIN mentions : merged.people[merged.to[i]].name = mentions[i].name
       /\ \A i, j \in DOMAIN mentions :
            merged.to[i] # merged.to[j] /\ mentions[i].name = mentions[j].name => merged.review > 0
       /\ \A k \in DOMAIN merged.people :
            LET together == {i \in DOMAIN mentions : merged.to[i] = k}
            IN  \A part \in SUBSET together :
                   part # {} /\ part # together =>
                     \E i \in part, j \in together \ part : mentions[i].src \cap mentions[j].src # {}

\* A fact of a window is in the result exactly once, it is about the person its own mention
\* became, and it keeps its sources: merging people first lets facts told in two windows meet
\* (merge_window_extractions).
FactsFollowTheirPerson ==
    merged # NotMerged =>
       /\ \A i \in DOMAIN mentions :
            \E k \in DOMAIN merged.facts :
               /\ i \in merged.facts[k].of
               /\ merged.facts[k].about = merged.to[i]
               /\ mentions[i].told \subseteq merged.facts[k].src
               /\ \A l \in DOMAIN merged.facts : i \in merged.facts[l].of => l = k
       /\ \A k \in DOMAIN merged.facts : merged.facts[k].about \in DOMAIN merged.people

\* What one window says about a person is never folded into what another says of an event
\* somewhere else in the recording: events become one only along shared segments.
EventsKeptApart ==
    merged # NotMerged /\ factKind = "event" =>
       \A k \in DOMAIN merged.facts : \A part \in SUBSET merged.facts[k].of :
          part # {} /\ part # merged.facts[k].of =>
             \E i \in part, j \in merged.facts[k].of \ part : mentions[i].told \cap mentions[j].told # {}

\* Merging windows joins what is one and nothing else (merge_window_extractions).
WindowMergeInv == SameNameKeptApart /\ FactsFollowTheirPerson /\ EventsKeptApart

\* A long recording in windows: planning leaves nothing of it out, and merging joins what two
\* windows say of one person or fact and nothing else (plan, merge_window_extractions).
WindowsInv == WindowPlanInv /\ WindowMergeInv

=============================================================================
