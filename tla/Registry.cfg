SPECIFICATION Spec
CONSTANTS
  School = {"ict"}
  Department = {"cse", "lib"}
  Programme = {"btech", "mtech"}
  Specialization = {"core"}
  Staff = {"ann"}
  Applicant = {"eve"}
  None = "none"
  Seeds <- MCSeeds
  Concurrent = {"programme", "specialization", "student"}
  WholeForms = TRUE
INVARIANTS TypeOK StaffStayAssigned AcademicDepartmentsHaveSchools EnrolmentsHangTogether
PROPERTIES RowsFollowStudents
