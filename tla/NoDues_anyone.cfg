SPECIFICATION Spec
CONSTANTS
  Stages <- SmallStages
  LevelOf <- SmallLevelOf
  Hostel <- HostelRow
  Exempt <- LaboratoryRow
  AdminActs = TRUE
  HostelChanges = {"resubmission", "profile"}
INVARIANTS
  TypeOK
  CompletionMarkersAgree
  RejectedHasReason
  PendingIsUnsigned
  NoVerifierAhead
PROPERTIES
  LevelNeverDecreases
  ApprovalsOutliveResubmission
