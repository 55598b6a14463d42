SPECIFICATION Spec
CONSTANTS
  Stages <- MCStages
  LevelOf <- MCLevelOf
  Hostel <- HostelRow
  Exempt = {}
  AdminActs = FALSE
  HostelChanges = {}
INVARIANTS
  LevelsInOrder
  CompletedMeansCleared
  RejectedIffBlocked
  NeverStuck
  ListedCanBeApproved
  PagesAgree
PROPERTY PausedUntilReconsidered
CHECK_DEADLOCK FALSE
