-------------------------- MODULE MCFamilyArchive ---------------------------
(* Instances of FamilyArchive for TLC: r1 and r2 disagree about A and B and, together with *)
(* r3, which names neither, about who is called ata.                                       *)
EXTENDS FamilyArchive, TLC

A == <<"r0", "a">>
B == <<"r0", "b">>

MCKnownPeople == {A, B}

Mention(id, resolution, person, variants) ==
    [id |-> id, resolution |-> resolution, person |-> person, evidence |-> "A_explicit", variants |-> variants]

Variant(id, type, surface) == [id |-> id, type |-> type, surface |-> surface, evidence |-> "none"]

Relationship(id, type, subject, object, roles, state, evidence, reported) ==
    [id |-> id, type |-> type, subject |-> subject, object |-> object, roles |-> roles,
     state |-> state, evidence |-> evidence, reported |-> reported]

Event(id, type, participants, date, location) ==
    [id |-> id, type |-> type, participants |-> participants, title |-> type, date |-> date,
     location |-> location, evidence |-> "B_morphologically_explicit"]

MCExtraction == [r \in {"r1", "r2", "r3"} |->
    CASE r = "r1" ->
           [mentions |-> {Mention("m1", "resolved", A, {Variant("v1", "nickname", "Ata"),
                                                        Variant("v2", "primary", "Amir")}),
                          Mention("m2", "resolved", B, {})},
            relationships |-> {Relationship("x1", "parent_child", "m1", "m2", <<"parent", "child">>,
                                            "current", "A_explicit", FALSE)},
            events |-> {Event("e1", "birth", {"m1"}, "1940", "")},
            descriptions |-> {}]
      [] r = "r2" ->
           [mentions |-> {Mention("m1", "resolved", A, {}),
                          Mention("m2", "resolved", B, {Variant("v1", "nickname", "ata")})},
            relationships |-> {Relationship("x1", "sibling", "m2", "m1", <<"sibling", "sibling">>,
                                            "current", "C_speaker_anchored", FALSE),
                               Relationship("x2", "spouse", "m1", "m2", <<"spouse", "spouse">>,
                                            "former", "A_explicit", FALSE)},
            events |-> {},
            descriptions |-> {}]
      [] OTHER ->
           [mentions |-> {Mention("m1", "new_person", NoPerson, {Variant("v1", "explicit_alias", "ata")}),
                          Mention("m2", "ambiguous", NoPerson, {})},
            relationships |-> {Relationship("x1", "spouse", "m1", "m2", <<"spouse", "spouse">>,
                                            "current", "A_explicit", TRUE)},
            events |-> {},
            descriptions |-> {[id |-> "d1", mention |-> "m1", text |-> "Kind", evidence |-> "D_inferred"]}]]

Symmetry == Permutations(Threads)

MCNormalized == [x \in {"Ata", "ata"} |-> "ata"] @@ [x \in {"Kind", "birth", "1940", "1942"} |-> x]

=============================================================================
