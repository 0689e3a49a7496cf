---------------------------- MODULE RestoreDrill ----------------------------
(***************************************************************************)
(* Backup and restore drills, one after the other                          *)
(* (ops/backup_restore.py): seed rows into the source, dump it, restore    *)
(* the dump into a verification database, verify what is there.            *)
(*                                                                         *)
(* A table holds the suffixes (the second the drill began) of the drills   *)
(* whose seeded rows are in it, "schema" the migration the database is at. *)
(***************************************************************************)
EXTENDS Integers, FiniteSets

CONSTANTS Words,      \* what the name of the target may contain, of SafeWords and BlockedWords
          MaxSecond,  \* bound: time
          MaxDrills   \* bound: drills

VARIABLES second,
          target,     \* the target: [words, production]
          source,     \* the rows of the source, [schema, tables]
          restored,   \* the rows of the target
          drill,      \* [at, suffix, dump, fresh, saw]: fresh are the tables restored from this dump
          drills      \* drills begun

drillVars == <<second, target, source, restored, drill, drills>>

Tables == {"families", "memberships", "recordings", "results"}

SafeWords == {"restore_test", "verification", "staging", "test", "dev", "sandbox"}
BlockedWords == {"prod", "production", "live", "master"}

NoDrill == [at |-> "none", suffix |-> 0, dump |-> [t \in Tables |-> {}], fresh |-> {},
            saw |-> {}]

DrillTypeOK ==
    /\ drill.at \in {"none", "seed_family", "seed_recording", "seed_result", "dump", "restore",
                     "verify", "PASS", "FAIL"}
    /\ drill.fresh \subseteq Tables
    /\ \A t \in Tables : source.tables[t] \cup restored.tables[t] \subseteq 0..second

DrillInit ==
    /\ second = 0 /\ drills = 0
    /\ target = [words |-> {}, production |-> FALSE]
    /\ source = [schema |-> "head", tables |-> [t \in Tables |-> {}]]
    /\ restored = [schema |-> "none", tables |-> [t \in Tables |-> {}]]
    /\ drill = NoDrill

\* is_safe_restore_target: of MURA_ENVIRONMENT and of the words in the name of the database.
SafeTarget(x) ==
    /\ ~ x.production
    /\ x.words \cap BlockedWords = {} \/ "test" \in x.words
    /\ x.words \cap SafeWords # {}

\* The drill starts: against an unsafe target it ends at once.  The source may lack the last
\* migration.
BeginDrill(words, production, schema) ==
    /\ drill.at \in {"none", "PASS", "FAIL"} /\ drills < MaxDrills
    /\ target' = [words |-> words, production |-> production]
    /\ source' = [source EXCEPT !.schema = schema]
    /\ drill' = [NoDrill EXCEPT !.at = IF SafeTarget(target') THEN "seed_family" ELSE "FAIL"]
    /\ drills' = drills + 1
    /\ UNCHANGED <<second, restored>>

DrillTick ==
    /\ second < MaxSecond /\ second' = second + 1
    /\ UNCHANGED <<target, source, restored, drill, drills>>

\* family_suffix: the second in which the dataset is seeded.
Suffix == second

Insert(T, s) == source' = [source EXCEPT !.tables =
                             [t \in Tables |-> @[t] \cup IF t \in T THEN {s} ELSE {}]]

\* seed_verification_dataset, first transaction: nothing when the family is there already.
SeedFamily ==
    /\ drill.at = "seed_family"
    /\ Insert({"families", "memberships"}, Suffix)
    /\ drill' = [drill EXCEPT !.at = "seed_recording", !.suffix = Suffix]
    /\ UNCHANGED <<second, target, restored, drills>>

\* Second transaction: create_recording_and_job fails on a recording that is there already.
SeedRecording ==
    /\ drill.at = "seed_recording"
    /\ IF drill.suffix \in source.tables["recordings"]
       THEN drill' = [drill EXCEPT !.at = "FAIL"] /\ UNCHANGED source
       ELSE Insert({"recordings"}, drill.suffix) /\ drill' = [drill EXCEPT !.at = "seed_result"]
    /\ UNCHANGED <<second, target, restored, drills>>

\* Third transaction: persist_pipeline_result and finalize_recording_job.
SeedResult ==
    /\ drill.at = "seed_result"
    /\ Insert({"results"}, drill.suffix)
    /\ drill' = [drill EXCEPT !.at = "dump"]
    /\ UNCHANGED <<second, target, restored, drills>>

\* run_pg_dump: a snapshot of the source, or an error, or a timeout.
PgDump(ok) ==
    /\ drill.at = "dump"
    /\ drill' = [drill EXCEPT !.at = IF ok THEN "restore" ELSE "FAIL",
                              !.dump = IF ok THEN source.tables ELSE @]
    /\ UNCHANGED <<second, target, source, restored, drills>>

\* run_pg_restore, which asks for the target's safety again.  Exit code 0 restores every table;
\* on 1, which the drill accepts, some statements failed, and a table may have kept its rows
\* (kept) or have been dropped or created without them (lost); more than 1 is an error.
PgRestore(code, kept, lost) ==
    /\ drill.at = "restore"
    /\ code = 0 => kept \cup lost = {}
    /\ kept \cap lost = {}
    /\ LET done == (Tables \cup {"schema"}) \ (kept \cup lost)
       IN  IF ~ SafeTarget(target)
           THEN drill' = [drill EXCEPT !.at = "FAIL"] /\ UNCHANGED restored
           ELSE /\ restored' = [schema |-> CASE "schema" \in done -> source.schema
                                             [] "schema" \in kept -> restored.schema
                                             [] OTHER -> "none",
                                tables |-> [t \in Tables |-> CASE t \in done -> drill.dump[t]
                                                               [] t \in kept -> restored.tables[t]
                                                               [] OTHER -> {}]]
                /\ drill' = [drill EXCEPT !.at = IF code > 1 THEN "FAIL" ELSE "verify",
                                          !.fresh = done \ {"schema"}]
    /\ UNCHANGED <<second, target, source, drills>>

Verified_FamilyOnly == restored.schema = "head" /\ drill.suffix \in restored.tables["families"]

\* verify_restored_database: the migration, the seeded family, the seeded recording.  The two
\* counts of orphans select rows of the family that was just found, and are always zero; a file
\* of the audio that is not there is not an error.
Verified ==
    /\ restored.schema = "head"
    /\ drill.suffix \in restored.tables["families"]
    /\ drill.suffix \in restored.tables["recordings"]

Verify(audioIntact) ==
    /\ drill.at = "verify"
    /\ drill' = [drill EXCEPT !.at = IF Verified /\ audioIntact THEN "PASS" ELSE "FAIL",
                              !.saw = IF Verified /\ audioIntact
                                      THEN {"families", "recordings"} ELSE {}]
    /\ UNCHANGED <<second, target, source, restored, drills>>

DrillNext ==
    \/ \E w \in SUBSET Words, p \in BOOLEAN, s \in {"head", "old"} : BeginDrill(w, p, s)
    \/ DrillTick \/ SeedFamily \/ SeedRecording \/ SeedResult
    \/ \E ok \in BOOLEAN : PgDump(ok)
    \/ \E code \in 0..2, kept, lost \in SUBSET {"schema", "families", "recordings"} :
          PgRestore(code, kept, lost)
    \/ \E intact \in BOOLEAN : Verify(intact)

-----------------------------------------------------------------------------
(* Properties.                                                             *)

\* What a drill that passes has seen came out of its own dump: rows an earlier drill left in
\* the target never make up for a restore that only half worked (exit code 1), also when two
\* drills begin in the same second (seed_verification_dataset, run_pg_restore, verify).
PassSawItsOwnDump ==
    drill.at = "PASS" =>
       /\ drill.saw \subseteq drill.fresh
       /\ \A t \in drill.saw : drill.suffix \in restored.tables[t] \cap source.tables[t]
       /\ restored.tables["families"] = source.tables["families"]
       /\ restored.schema = "head"

\* A drill that came past the restore had a target that is not production's: neither by the
\* environment nor by its name, "test" in a name being stronger than a blocked word.
OnlySafeTargets ==
    drill.fresh # {} \/ drill.at \in {"verify", "PASS"} =>
       ~ target.production /\ (target.words \cap BlockedWords = {} \/ "test" \in target.words)

\* A drill proves the dump it took, and only touches databases it may overwrite.
DrillInv == DrillTypeOK /\ PassSawItsOwnDump /\ OnlySafeTargets

=============================================================================
