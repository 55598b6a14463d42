--------------------------------- MODULE Desk ---------------------------------
(***************************************************************************)
(* Who deals with an application: NoDues composed with the accounts of the *)
(* reviewers and the profile of the student.  Four parts of the program    *)
(* decide, each by its own rule, which rows are a reviewer's business: the *)
(* task list, the overview of all applications, the detail page and the    *)
(* permission check of approve_stage; a fifth decides who is reminded of   *)
(* overdue rows.  Nothing but the data keeps these rules together.         *)
(***************************************************************************)
EXTENDS NoDues

CONSTANTS
  Person,        \* the accounts administrators create
  School,
  Department,    \* academic and administrative departments
  None,          \* a reference that is NULL
  RowRole,       \* verifier_role of each row
  RowSchool,     \* its school_id
  RowDepartment, \* its department_id
  Home,          \* the student's school and department when applying
  Moves          \* when the student changes them: "open" or "completed"
                 \* application

Ref(S) == S \cup {None}

(* create_application_for_student: levels 1 and 3 belong to the student's  *)
(* school, level 2 to the academic department, the others to               *)
(* administrative departments.                                             *)
GeneratedFor(s, home) ==
  CASE LevelOf[s] = 1 -> <<RowRole[s], RowSchool[s], RowDepartment[s]>> = <<"staff", home.school, None>>
    [] LevelOf[s] = 2 -> <<RowRole[s], RowSchool[s], RowDepartment[s]>> = <<"hod", None, home.department>>
    [] LevelOf[s] = 3 -> <<RowRole[s], RowSchool[s], RowDepartment[s]>> = <<"dean", home.school, None>>
    [] OTHER -> /\ RowRole[s] = "staff" /\ RowSchool[s] = None
                /\ RowDepartment[s] \in Department \ {home.department}

ASSUME DeskAssumption ==
  /\ None \notin School \cup Department
  /\ Home \in [school : School, department : Department]
  /\ Moves \subseteq {"open", "completed"}
  /\ \A s \in Stages : GeneratedFor(s, Home)

(* One office and one dean, and one row for each department: Accounts is   *)
(* not a department of phase 2 as well.                                    *)
ASSUME OneRowAssumption ==
  \A s, t \in Stages :
    \/ LevelOf[s] = LevelOf[t] /\ LevelOf[s] \in {1, 3}
    \/ RowDepartment[s] = RowDepartment[t] /\ RowDepartment[s] # None
    => s = t

VARIABLES
  users,    \* the account of each person, or Nobody
  student,  \* Student.school_id and Student.department_id
  overdue   \* the rows were created seven days ago or earlier

deskVars == <<vars, users, student, overdue>>

(* "library" stands for the six legacy roles. *)
Role == {"dean", "hod", "staff", "library"}
Account == [role : Role, school : Ref(School), department : Ref(Department)]
Nobody == [role |-> "none", school |-> None, department |-> None]

DeskTypeOK ==
  /\ TypeOK
  /\ users \in [Person -> Account \cup {Nobody}]
  /\ student \in [school : School, department : Department]
  /\ overdue \in BOOLEAN

------------------------------------------------------------------------------
(* Accounts.                                                               *)

(* register_user: a dean has a school and no department, a head has a      *)
(* department, staff have exactly one of the two.                          *)
Register(p, u) ==
  /\ users[p] = Nobody
  /\ u.role = "dean" => u.school # None /\ u.department = None
  /\ u.role = "hod" => u.department # None
  /\ u.role = "staff" => (u.school = None) # (u.department = None)
  /\ users' = [users EXCEPT ![p] = u]

(* update_user_endpoint: a role that is in the request asks for its        *)
(* assignment, and in the request too.                                     *)
AssignmentSent(old, u) ==
  /\ u.role = "dean" /\ old.role # "dean" => u.school # None
  /\ u.role = "hod" /\ old.role # "hod" => u.department # None

(* update_user: an assignment that is not sent is kept, whatever the new   *)
(* role.                                                                   *)
Update(p, u) ==
  /\ users[p] # Nobody
  /\ AssignmentSent(users[p], u)
  /\ users' = [users EXCEPT ![p] = u]

------------------------------------------------------------------------------
(* approve_stage.                                                          *)

(* Mutant of Permitted: staff are matched by school before department. *)
PermittedBySchoolOnly(u, s) ==
  CASE u.role = "dean" -> u.school # None /\ u.school = student.school
    [] u.role = "hod" -> u.department # None /\ u.department = RowDepartment[s]
    [] u.role = "staff" -> u.school # None /\ u.school = RowSchool[s]
    [] OTHER -> u.role = RowRole[s]

(* The permission checks of approve_stage.  A dean answers for the school  *)
(* of the student as it is now, staff of a department before their school. *)
Permitted(u, s) ==
  CASE u.role = "dean" -> u.school # None /\ u.school = student.school
    [] u.role = "hod" -> u.department # None /\ u.department = RowDepartment[s]
    [] u.role = "staff" -> IF u.department # None
                           THEN u.department = RowDepartment[s]
                           ELSE u.school # None /\ u.school = RowSchool[s]
    [] OTHER -> u.role = RowRole[s]

Approve(p, s) ==
  /\ users[p] # Nobody /\ Permitted(users[p], s)
  /\ ApproveStage(s)

(* AllowRoles lets every verifier role through, and reject_stage asks for  *)
(* nothing but the level.                                                  *)
Reject(p, s) ==
  /\ users[p] # Nobody
  /\ RejectStage(s)

------------------------------------------------------------------------------
(* What the pages show.                                                    *)

(* The filters of list_pending_stages. *)
OnDesk(u, s) ==
  CASE u.role = "dean" -> RowRole[s] = "dean" /\ RowSchool[s] = u.school
    [] u.role = "hod" -> RowRole[s] = "hod" /\ RowDepartment[s] = u.department
    [] u.role = "staff" -> /\ RowRole[s] = "staff"
                           /\ \/ u.school # None /\ RowSchool[s] = u.school
                              \/ u.department # None /\ RowDepartment[s] = u.department
    [] OTHER -> FALSE

(* GET /api/applications/pending: deans without a school and heads without *)
(* a department get an error, others the pending rows of their desk whose  *)
(* lower levels are approved.                                              *)
Assigned(u) ==
  CASE u.role = "dean" -> u.school # None
    [] u.role = "hod" -> u.department # None
    [] OTHER -> TRUE

Tasks(u) == {s \in Stages : Assigned(u) /\ OnDesk(u, s) /\ Listed(s)}

(* The rows list_all_applications and the detail page look at. *)
Theirs(u, s) ==
  CASE u.role = "dean" -> RowRole[s] = "dean" /\ RowSchool[s] = u.school
    [] u.role = "hod" -> RowRole[s] = "hod" /\ RowDepartment[s] = u.department
    [] u.role = "staff" -> IF u.school # None
                           THEN RowRole[s] = "staff" /\ RowSchool[s] = u.school
                           ELSE u.department # None /\ RowDepartment[s] = u.department
    [] OTHER -> RowRole[s] = u.role

(* Mutant of Reached: only while the application is on the level. *)
ReachedNow(s) == current_stage_order = LevelOf[s]

(* Mutant of Reached: strictly above the level. *)
Passed(s) == current_stage_order > LevelOf[s]

Reached(s) == current_stage_order >= LevelOf[s]

(* GET /api/approvals/all: the application is in the overview once it has  *)
(* reached a row of theirs.                                                *)
InOverview(u) ==
  Assigned(u) /\ \E s \in Stages : stage[s] # "absent" /\ Theirs(u, s) /\ Reached(s)

(* The row the overview shows with it: the lowest of theirs, a dean's of   *)
(* whatever school, any of them if staff have neither school nor           *)
(* department.                                                             *)
Candidates(u) ==
  {s \in Stages :
     /\ stage[s] # "absent"
     /\ CASE u.role = "dean" -> RowRole[s] = "dean"
          [] u.role = "hod" -> u.department # None => Theirs(u, s)
          [] u.role = "staff" -> u.school # None \/ u.department # None => Theirs(u, s)
          [] OTHER -> Theirs(u, s)}

ShownRows(u) == {s \in Candidates(u) : \A t \in Candidates(u) : LevelOf[s] <= LevelOf[t]}

(* GET /api/approvals/enriched: deans and heads by the student's profile,  *)
(* the others by the rows of theirs that were reached.                     *)
CanOpen(u) ==
  CASE u.role = "dean" -> u.school # None /\ student.school = u.school
    [] u.role = "hod" -> u.department # None /\ student.department = u.department
    [] OTHER -> \E s \in Stages : stage[s] # "absent" /\ Theirs(u, s) /\ Reached(s)

------------------------------------------------------------------------------
(* POST /api/jobs/trigger-stale-notifications.                             *)

(* Every pending row created seven days ago or earlier, whether or not the *)
(* application has reached it; resubmission keeps created_at.              *)
Stale == {s \in Stages : overdue /\ stage[s] = "pending"}

(* Mutant of Addressed: users with a department are not indexed by role. *)
AddressedByKeyOnly(u, s) == u.role = RowRole[s] /\ u.department = RowDepartment[s]

(* users_by_key: a row with a department goes to the users of the role in  *)
(* that department, a row without one to all users of the role.            *)
Addressed(u, s) ==
  /\ u.role = RowRole[s]
  /\ RowDepartment[s] # None => u.department = RowDepartment[s]

(* The rows counted in the one mail a user gets (none: no mail).           *)
Reminded(u) == {s \in Stale : Addressed(u, s)}

------------------------------------------------------------------------------
(* PATCH /api/students/update changes school and department at any time;   *)
(* the rows keep those of the day of the application.                      *)
MoveStudent(school, department) ==
  /\ (IF status = "completed" THEN "completed" ELSE "open") \in Moves
  /\ student' = [school |-> school, department |-> department]

Unmoved == UNCHANGED student

DeskInit ==
  /\ Init
  /\ users = [p \in Person |-> Nobody]
  /\ student = Home
  /\ overdue = FALSE

DeskNext ==
  \/ /\ \E p \in Person, u \in Account : Register(p, u) \/ Update(p, u)
     /\ UNCHANGED <<vars, overdue>> /\ Unmoved
  \/ /\ \E p \in Person, s \in Stages : Approve(p, s) \/ Reject(p, s)
     /\ UNCHANGED <<users, overdue>> /\ Unmoved
  \/ Resubmit(is_hosteller) /\ UNCHANGED <<users, overdue>> /\ Unmoved
  \/ /\ \E school \in School, department \in Department : MoveStudent(school, department)
     /\ UNCHANGED <<vars, users, overdue>>
  \/ ~overdue /\ overdue' = TRUE /\ UNCHANGED <<vars, users>> /\ Unmoved

DeskSpec == DeskInit /\ [][DeskNext]_deskVars

------------------------------------------------------------------------------
(* register_user refuses staff with both a school and a department;        *)
(* update_user_endpoint does not.                                          *)
OneAssignment(u) == u.role = "staff" => u.school = None \/ u.department = None

(* "Fetches stages waiting for approval by the current user": whatever is  *)
(* on a reviewer's task list, approve_stage accepts from that reviewer.    *)
TasksCanBeApproved ==
  \A p \in Person : OneAssignment(users[p]) =>
    \A s \in Tasks(users[p]) : AtCurrentLevel(s) /\ Permitted(users[p], s)

(* A reviewer with a task finds the application in the overview, with the  *)
(* row that is the task beside it, and can open its detail page.           *)
TasksCanBeOpened ==
  \A p \in Person : LET u == users[p] IN
    OneAssignment(u) /\ Tasks(u) # {} =>
      InOverview(u) /\ ShownRows(u) \subseteq Tasks(u) /\ CanOpen(u)

(* No overdue task goes without a reminder: the mail to a reviewer counts  *)
(* every overdue row of the reviewer's task list.                          *)
OverdueTasksAreReminded ==
  \A p \in Person : Stale \cap Tasks(users[p]) \subseteq Reminded(users[p])

(* Once an application is in a reviewer's overview it stays there, through *)
(* rejections, resubmissions and completion, unless the account changes.   *)
OverviewKeepsApplications ==
  [][\A p \in Person :
       users'[p] = users[p] /\ InOverview(users[p]) => InOverview(users[p])']_deskVars
==============================================================================
