SPECIFICATION Spec
CONSTANTS
  Stages <- MCStages
  LevelOf <- MCLevelOf
  Hostel <- HostelRow
  Exempt = {}
  AdminActs = FALSE
  HostelChanges = {}
INVARIANT RejectedCanBeResubmitted
CHECK_DEADLOCK FALSE
