----------------------------- MODULE OfficeProofs -----------------------------
(***************************************************************************)
(* What is proved of each part by itself holds of the instance in which    *)
(* the parts stand side by side: a behaviour of the whole is one of every  *)
(* part, as a step of one leaves the others' variables alone.              *)
(***************************************************************************)
EXTENDS MCOffice, RecurringRunsProofs, AgentProofs, DesktopProofs

(* The beginning of all is one of every part. *)
LEMMA PartsBegin ==
  OfficeInit => /\ RecurringInit /\ SchedInit /\ WorkerInit /\ OrgInit /\ CatalogInit /\ SetInit
                /\ BootInit /\ SeedInit /\ ChatInit /\ WorkflowInit /\ CommandInit /\ part \in Part
BY DEF OfficeInit

(* A step of one part is a step of it and leaves the others as they are. *)
LEMMA PartsStep ==
  [OfficeNext]_officeVars =>
    /\ [RecurringNext]_recVars /\ [SchedNext]_schedVars /\ [WorkerNext]_workerVars
    /\ [OrgNext]_orgVars /\ [CatalogNext]_catalogVars /\ [SetNext]_setVars
    /\ [BootNext]_bootVars /\ [SeedNext]_seedVars /\ [ChatNext]_chatVars
    /\ [WorkflowNext]_workflowVars /\ [CommandNext]_commandVars /\ part' = part
BY DEF OfficeNext, officeVars

(* So a behaviour of the whole is one of each part. *)
LEMMA PartsBehave ==
  OfficeSpec => /\ RecurringSpec /\ SchedSpec /\ WorkerSpec /\ OrgSpec /\ CatalogSpec /\ SetSpec
                /\ BootSpec /\ SeedSpec /\ ChatSpec /\ WorkflowSpec /\ CommandSpec
BY PartsBegin, PartsStep, PTL
DEF OfficeSpec, RecurringSpec, SchedSpec, WorkerSpec, OrgSpec, CatalogSpec, SetSpec, BootSpec,
    SeedSpec, ChatSpec, WorkflowSpec, CommandSpec

(* Type correctness of the whole, for any values of the constants of its parts. *)
THEOREM OfficeTypesHold == OfficeSpec => []OfficeTypeOK
<1>1. OfficeSpec => [](part \in Part)
  <2>1. OfficeInit => part \in Part
    BY PartsBegin
  <2>2. part \in Part /\ [OfficeNext]_officeVars => (part \in Part)'
    BY PartsStep
  <2> QED BY <2>1, <2>2, PTL DEF OfficeSpec
<1>2. /\ part \in Part
      /\ RecurringTypeOK /\ SchedTypes /\ WorkerTypeOK /\ OrgTypeOK /\ CatalogTypeOK /\ SetTypeOK
      /\ BootTypeOK /\ SeedTypeOK /\ ChatTypeOK /\ WorkflowTypeOK /\ CommandTypeOK
      => OfficeTypeOK
  BY DEF Part, SchedTypes, OfficeTypeOK
<1> QED
  BY <1>1, <1>2, PartsBehave, RecurringTypesHold, ScheduleTypesHold, WorkerTypesHold, OrgTypesHold,
     CatalogTypesHold, SecretTypesHold, BootTypesHold, SeedTypesHold, ChatTypesHold, WorkflowTypesHold,
     CommandTypesHold, PTL

(* All the promises the parts make, side by side: runs are numbered, fired once and
   executed, and the next one fits; a worker's end stands and requests are lost only at
   it; the cap and the reporting lines hold; grants, skills, secrets, the vault's key and
   the choice of a provider stand, but for the ways in which each is lost; seeds are whole
   and nothing goes unarchived; chat updates are heard once and settled; workflows are
   whole and commands run once. *)
THEOREM OfficeIsCorrect ==
  OfficeSpec =>
    /\ []NumbersClashOnlyInOverlap /\ []SlotTakenOnce /\ []ClaimedIsExecuted /\ []NextRunFits
    /\ []EndBeatStands /\ []LostAtTheEnd
    /\ []CapBrokenOnlyByOverlap /\ []WalkEndsAtARoot
    /\ []GivenWasPermitted /\ []SkillLoads
    /\ []SavedSecretIsRead /\ []VaultKeyIsKept /\ []ChoiceIsKept
    /\ []UpMeansSeeded /\ []NothingLostUnarchived
    /\ []HeardOnce /\ []ClaimedIsSettled
    /\ []WorkflowIsWhole /\ []CreatedOnceAndAnnounced
<1>1. RecurringSpec => []NumbersClashOnlyInOverlap /\ []SlotTakenOnce /\ []ClaimedIsExecuted
  BY NumbersClashInOverlaps, SlotsAreTakenOnce, ClaimsAreExecuted, PTL
<1>2. SchedSpec => []NextRunFits
  BY NextRunsFit
<1>3. WorkerSpec => []EndBeatStands /\ []LostAtTheEnd
  BY EndIsStored, NothingElseIsLost, PTL
<1>4. OrgSpec => []CapBrokenOnlyByOverlap /\ []WalkEndsAtARoot
  BY CapHolds, WalksEnd, PTL
<1>5. CatalogSpec => []GivenWasPermitted /\ []SkillLoads
  BY GivenIsPermitted, SkillsLoad, PTL
<1>6. SetSpec => []SavedSecretIsRead
  BY SecretsStand
<1>7. BootSpec => []VaultKeyIsKept /\ []ChoiceIsKept
  BY VaultKeyStands, ChoiceStands, PTL
<1>8. SeedSpec => []UpMeansSeeded /\ []NothingLostUnarchived
  BY UpIsSeeded, NothingIsLost, PTL
<1>9. ChatSpec => []HeardOnce /\ []ClaimedIsSettled
  BY UpdatesAreHeardOnce, ClaimsAreSettled, PTL
<1>10. WorkflowSpec => []WorkflowIsWhole
  BY WorkflowsAreWhole
<1>11. CommandSpec => []CreatedOnceAndAnnounced
  BY CommandsRunOnce
<1> QED
  BY <1>1, <1>2, <1>3, <1>4, <1>5, <1>6, <1>7, <1>8, <1>9, <1>10, <1>11, PartsBehave, PTL
=============================================================================
