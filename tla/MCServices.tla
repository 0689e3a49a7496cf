---------------------------- MODULE MCServices ------------------------------
(***************************************************************************)
(* Model checking of the parts that share no state with each other in one  *)
(* run: a behaviour is one of a single part, chosen at the start.          *)
(***************************************************************************)
EXTENDS ReleaseControl, TraceRetention, StorageReconciliation, QueueHealth, RestoreDrill,
        ObjectStores, ModelCalls, Transcription, SpeechChunks, LongFormPlan, WindowMerge,
        ExtractionRun, EvidenceRecovery, ExtractionSalvage, BookSnapshot, EntityResolution,
        ChapterGates, BlueprintPlan, ClaimSemantics, Coreference, FamilyExport

VARIABLE part

Parts == {"release", "retention", "reconciliation", "monitoring", "drill", "stores", "model", "asr",
          "chunks", "windows", "merge", "extraction", "evidence", "salvage", "sources", "resolution",
          "gates", "plan", "semantics", "pronouns", "export"}

ServicesInit ==
    /\ part \in Parts
    /\ ReleaseInit /\ RetentionInit /\ ReconcileInit /\ HealthInit /\ DrillInit /\ StoreInit /\
       ModelInit /\ AsrInit /\ ChunkInit /\ PlanInit /\ MergeInit /\ RunInit /\ EvidenceInit /\
       SalvageInit /\ SnapshotInit /\ ResolveInit /\ GateInit /\ BlueprintInit /\ ClaimInit /\
       CorefInit /\ ExportInit

ServicesNext ==
    /\ UNCHANGED part
    /\ IF part = "release" THEN ReleaseNext ELSE UNCHANGED releaseVars
    /\ IF part = "retention" THEN RetentionNext ELSE UNCHANGED retentionVars
    /\ IF part = "reconciliation" THEN ReconcileNext ELSE UNCHANGED reconcileVars
    /\ IF part = "monitoring" THEN HealthNext ELSE UNCHANGED healthVars
    /\ IF part = "drill" THEN DrillNext ELSE UNCHANGED drillVars
    /\ IF part = "stores" THEN StoreNext ELSE UNCHANGED storeVars
    /\ IF part = "model" THEN ModelNext ELSE UNCHANGED modelVars
    /\ IF part = "asr" THEN AsrNext ELSE UNCHANGED asrVars
    /\ IF part = "chunks" THEN ChunkNext ELSE UNCHANGED chunkVars
    /\ IF part = "windows" THEN PlanNext ELSE UNCHANGED planVars
    /\ IF part = "merge" THEN MergeNext ELSE UNCHANGED mergeVars
    /\ IF part = "extraction" THEN RunNext ELSE UNCHANGED runVars
    /\ IF part = "evidence" THEN EvidenceNext ELSE UNCHANGED evidenceVars
    /\ IF part = "salvage" THEN SalvageNext ELSE UNCHANGED salvageVars
    /\ IF part = "sources" THEN SnapshotNext ELSE UNCHANGED snapshotVars
    /\ IF part = "resolution" THEN ResolveNext ELSE UNCHANGED resolveVars
    /\ IF part = "gates" THEN GateNext ELSE UNCHANGED gateVars
    /\ IF part = "plan" THEN BlueprintNext ELSE UNCHANGED blueprintVars
    /\ IF part = "semantics" THEN ClaimNext ELSE UNCHANGED claimVars
    /\ IF part = "pronouns" THEN CorefNext ELSE UNCHANGED corefVars
    /\ IF part = "export" THEN ExportNext ELSE UNCHANGED exportVars

=============================================================================
