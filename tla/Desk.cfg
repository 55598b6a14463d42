SPECIFICATION DeskSpec
CONSTANTS
  Stages <- MCStages
  LevelOf <- MCLevelOf
  Hostel = {}
  Exempt = {}
  AdminActs = FALSE
  HostelChanges = {}
  ann = ann
  bob = bob
  Person = {ann, bob}
  School = {"ict", "law"}
  Department = {"cse", "lib"}
  None = "none"
  RowRole <- MCRowRole
  RowSchool <- MCRowSchool
  RowDepartment <- MCRowDepartment
  Home <- MCHome
  Moves = {"completed"}
SYMMETRY People
INVARIANTS TasksCanBeApproved TasksCanBeOpened OverdueTasksAreReminded
PROPERTY OverviewKeepsApplications
