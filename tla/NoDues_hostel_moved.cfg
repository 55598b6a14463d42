SPECIFICATION Spec
CONSTANTS
  Stages <- MCStages
  LevelOf <- MCLevelOf
  Hostel <- HostelRow
  Exempt = {}
  AdminActs = FALSE
  HostelChanges = {"resubmission"}
INVARIANT CompletedMeansCleared
CHECK_DEADLOCK FALSE
