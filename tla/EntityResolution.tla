-------------------------- MODULE EntityResolution --------------------------
(***************************************************************************)
(* Which person of the archive a mention is                                *)
(* (src/mura/entity_resolver.py).  Names only nominate candidates; what     *)
(* resolves a mention is a verified alias, an evidenced variant of the     *)
(* name, agreeing kinship to the speaker, or a relative already resolved,  *)
(* and nothing that speaks against.                                        *)
(*                                                                         *)
(* Mentions 1, 2 and 3, with claims between 1 and 2 and between 2 and 3,   *)
(* and two people x and y of the family.                                   *)
(***************************************************************************)
EXTENDS Integers, FiniteSets

VARIABLES
    seen,        \* [mention -> [person -> [name, context]]], the signals of names and context
    claims,      \* [{<<1, 2>>, <<2, 3>>} -> "none", "weak", "spouse" or "parent"]
    archive,     \* how x and y are related in the archive: "none", "spouse", "parent", "child"
    resolution   \* [mention -> person, "review" or "new"], NoResolution before

resolveVars == <<seen, claims, archive, resolution>>

Mentions == {1, 2, 3}
ArchivePeople == {"x", "y"}
Pairs == {<<1, 2>>, <<2, 3>>}
NoResolution == [m \in Mentions |-> "none"]
Unseen == [name |-> "none", context |-> "none"]

\* _candidate_name_signals and _candidate_state: how the name matches, and whether relation
\* and generation agree or relation, generation, category or uncertainty speak against.
Signals == {Unseen, [name |-> "name", context |-> "none"], [name |-> "name", context |-> "agrees"],
            [name |-> "variant", context |-> "none"], [name |-> "verified", context |-> "none"],
            [name |-> "verified", context |-> "conflicts"]}

ResolveInit ==
    /\ seen = [m \in Mentions |-> [p \in ArchivePeople |-> Unseen]]
    /\ claims = [c \in Pairs |-> "none"] /\ archive = "none"
    /\ resolution = NoResolution

Candidates(m) == {p \in ArchivePeople : seen[m][p].name # "none"}

\* _verified_alias_collision: counted over all candidates, also those something speaks against.
VerifiedCollision(m) == Cardinality({p \in Candidates(m) : seen[m][p].name = "verified"}) > 1

\* The candidates nothing speaks against; a collision speaks against every one of a mention.
Compatible(m, collided) ==
    IF m \in collided \/ VerifiedCollision(m) THEN {}
    ELSE {p \in Candidates(m) : seen[m][p].context # "conflicts"}

\* _is_seed_resolvable
IsSeedResolvable(m, p) == seen[m][p].name \in {"variant", "verified"} \/ seen[m][p].context = "agrees"

\* The only compatible candidate of a mention, if the pair is resolvable: a partial choice.
Chosen(collided, resolvable) ==
    [m \in {k \in Mentions : \E p \in ArchivePeople :
               Compatible(k, collided) = {p} /\ <<k, p>> \in resolvable} |->
       CHOOSE p \in ArchivePeople : Compatible(m, collided) = {p}]

\* relationship_is_active_candidate, evidence class and evidence: claims that count.
Grounded(c) == claims[c] \in {"spouse", "parent"}

\* _identity_collision_pairs: both ends of a grounded claim are the same person.
IdentityCollisions(chosen) ==
    {m \in Mentions : \E c \in Pairs :
        /\ Grounded(c) /\ m \in {c[1], c[2]}
        /\ {c[1], c[2]} \subseteq DOMAIN chosen /\ chosen[c[1]] = chosen[c[2]]}

\* _neighbour_id_for: who m is to the other end of the claim.
RoleIn(c, m) == IF claims[c] = "spouse" THEN "spouse" ELSE IF m = c[1] THEN "parent" ELSE "child"

\* _expected_neighbour_ids: whom the archive has p be that to.
ExpectedNeighbours(p, role) ==
    IF p = "x" THEN (IF archive = role THEN {"y"} ELSE {})
    ELSE IF (archive = "spouse" /\ role = "spouse") \/ (archive = "parent" /\ role = "child")
            \/ (archive = "child" /\ role = "parent") THEN {"x"} ELSE {}

\* _add_graph_signals: the other end of a grounded claim is a seed whom the archive expects.
GraphNeighbour(m, p, seeds) ==
    \E c \in Pairs : \E n \in {c[1], c[2]} \ {m} :
       /\ Grounded(c) /\ m \in {c[1], c[2]} /\ n \in DOMAIN seeds
       /\ seeds[n] \in ExpectedNeighbours(p, RoleIn(c, m))

FinalCollisions_SeedsOnly(chosen) == {}

\* The collisions that appear only when the graph has resolved more mentions.
FinalCollisions(chosen) == IdentityCollisions(chosen)

\* resolve_mentions_with_report
Resolved ==
    LET seedable == {k \in Mentions \X ArchivePeople : IsSeedResolvable(k[1], k[2])}
        first == Chosen({}, seedable)
        collided == IdentityCollisions(first)
        seeds == [m \in DOMAIN first \ collided |-> first[m]]
        linked == {k \in Mentions \X ArchivePeople : GraphNeighbour(k[1], k[2], seeds)}
        chosen == Chosen(collided, seedable \cup linked)
        late == FinalCollisions(chosen)
    IN  [m \in Mentions |->
            IF m \in DOMAIN chosen \ late THEN chosen[m]
            ELSE IF Candidates(m) # {} THEN "review" ELSE "new"]

\* The claims of the extraction, and the archive at the time.
ReadClaims(c, a) ==
    /\ resolution = NoResolution /\ \A m \in Mentions : Candidates(m) = {}
    /\ claims' = c /\ archive' = a
    /\ UNCHANGED <<seen, resolution>>

\* A mention is read.  Bounds: 1 hardly resembles y, and 3 can only be y.
ReadMention(m, x, y) ==
    /\ resolution = NoResolution /\ \A k \in Mentions : k >= m => seen[k]["x"] = Unseen /\ seen[k]["y"] = Unseen
    /\ m = 1 => y.name \in {"none", "name"} /\ y.context = "none"
    /\ m = 3 => x = Unseen /\ y.name \in {"none", "variant"}
    /\ seen' = [seen EXCEPT ![m] = [p \in ArchivePeople |-> IF p = "x" THEN x ELSE y]]
    /\ UNCHANGED <<claims, archive, resolution>>

ResolveMentions ==
    /\ resolution = NoResolution
    /\ resolution' = Resolved
    /\ UNCHANGED <<seen, claims, archive>>

ResolveNext ==
    \/ \E first \in {"none", "weak", "spouse"}, second \in {"none", "weak", "spouse", "parent"},
          a \in {"none", "spouse", "parent", "child"} :
          ReadClaims([c \in Pairs |-> IF c = <<1, 2>> THEN first ELSE second], a)
    \/ \E m \in Mentions, x, y \in Signals : ReadMention(m, x, y)
    \/ ResolveMentions

-----------------------------------------------------------------------------
(* Properties.                                                             *)

ResolveTypeOK ==
    /\ seen \in [Mentions -> [ArchivePeople -> Signals]]
    /\ resolution \in [Mentions -> ArchivePeople \cup {"review", "new", "none"}]

\* The two ends of a claim the text supports are never the same person, also when one of them
\* is recognised only through a third mention ("distinct relationship endpoints cannot resolve
\* to the same archive person").
TwoEndsAreTwo ==
    \A c \in Pairs : Grounded(c) /\ resolution[c[1]] \in ArchivePeople =>
       resolution[c[1]] # resolution[c[2]]

\* Nobody is merged on a name alone: a resolved mention had one candidate left that nothing
\* speaks against, with a verified alias, an evidenced variant, agreeing kinship, or a relative
\* whom the archive has in exactly that place (_is_final_resolvable).
NameAloneNeverDecides ==
    \A m \in Mentions : resolution[m] \in ArchivePeople =>
       LET p == resolution[m]
           relative(n, ofX, ofY) ==
               /\ \E q \in ArchivePeople \ {p} : seen[n][q].name # "none"
               /\ archive = (IF p = "x" THEN ofX ELSE ofY)
       IN  /\ seen[m][p].name # "none" /\ seen[m][p].context # "conflicts"
           /\ \A q \in ArchivePeople \ {p} : seen[m][q].name # "none" => seen[m][q].context = "conflicts"
           /\ \/ seen[m][p].name \in {"variant", "verified"} \/ seen[m][p].context = "agrees"
              \/ \E c \in Pairs : m \in {c[1], c[2]} /\ claims[c] = "spouse"
                    /\ relative(CHOOSE n \in {c[1], c[2]} : n # m, "spouse", "spouse")
              \/ \E c \in Pairs : m = c[1] /\ claims[c] = "parent" /\ relative(c[2], "parent", "child")
              \/ \E c \in Pairs : m = c[2] /\ claims[c] = "parent" /\ relative(c[1], "child", "parent")

\* A surface that is the verified alias of two people is left to a human, even when something
\* speaks against one of the two (_verified_alias_collision).
SharedAliasIsReviewed ==
    \A m \in Mentions :
       (resolution # NoResolution /\ \A p \in ArchivePeople : seen[m][p].name = "verified")
          => resolution[m] = "review"

\* Resolving mentions to people: the two ends of a relationship are two people, a name alone
\* resolves nobody, and an alias two people share goes to review (resolve_mentions).
ResolveInv == ResolveTypeOK /\ TwoEndsAreTwo /\ NameAloneNeverDecides /\ SharedAliasIsReviewed

=============================================================================
