------------------------------ MODULE Desk_proofs ------------------------------
(***************************************************************************)
(* Desk adds people to NoDues without adding behaviours of the             *)
(* application: what is proved of NoDues holds on every desk.  The rules   *)
(* of the task list, the permission check, the overview and the reminders  *)
(* are then compared for any people, schools, departments and rows; so are *)
(* the student's pages with the overview.                                  *)
(***************************************************************************)
EXTENDS Desk, Pages, NoDues_proofs, FiniteSetTheorems

(* A step of Desk is a step of the application, or none.                   *)
LEMMA DeskStep ==
  ASSUME is_hosteller \in BOOLEAN, [DeskNext]_deskVars
  PROVE  [Next]_vars /\ is_hosteller' \in BOOLEAN
<1>1. CASE UNCHANGED vars
  BY <1>1 DEF vars
<1>2. ASSUME NEW p \in Person, NEW s \in Stages, Approve(p, s) \/ Reject(p, s)
      PROVE  Next /\ is_hosteller' = is_hosteller
  <2>1. ApproveStage(s) \/ RejectStage(s)
    BY <1>2 DEF Approve, Reject
  <2>2. Next
    BY <2>1, Zenon DEF Next
  <2>3. is_hosteller' = is_hosteller
    BY <2>1, Zenon DEF ApproveStage, RejectStage, Decide
  <2>4. QED
    BY <2>2, <2>3
<1>3. ASSUME Resubmit(is_hosteller)
      PROVE  Next /\ is_hosteller' = is_hosteller
  <2>1. Next
    BY <1>3, Zenon DEF Next
  <2>2. is_hosteller' = is_hosteller
    BY <1>3, Zenon DEF Resubmit
  <2>3. QED
    BY <2>1, <2>2
<1>4. CASE UNCHANGED deskVars
  BY <1>1, <1>4, Zenon DEF deskVars
<1>5. QED
  BY <1>1, <1>2, <1>3, <1>4, Zenon DEF DeskNext

(* Desk implements NoDues.                                                 *)
THEOREM DeskImplementsNoDues == DeskSpec => Spec
<1> DEFINE Known == is_hosteller \in BOOLEAN
<1>1. DeskInit => Init /\ Known
  BY Zenon DEF DeskInit, Init
<1>2. Known /\ [DeskNext]_deskVars => [Next]_vars /\ Known'
  BY DeskStep
<1> HIDE DEF Known
<1>3. QED
  BY <1>1, <1>2, PTL DEF DeskSpec, Spec

(* Verifiers and students do not reopen a completed application.           *)
LEMMA CompletionStays ==
  ASSUME TypeOK, VerifiersInv, ~AdminActs, HostelChanges = {}, [Next]_vars,
         status = "completed"
  PROVE  status' = "completed"
<1>1. ASSUME NEW s \in Stages, Decision(s)
      PROVE  FALSE
  BY <1>1, VerifierDecides
<1>2. ASSUME NEW s \in Stages, Rejection(s)
      PROVE  FALSE
  BY <1>2, Zenon DEF Rejection, AdminReject, OverrideReject
<1>3. ASSUME NEW hosteller \in BOOLEAN, Resubmit(hosteller)
      PROVE  FALSE
  BY <1>3, ResubmitReopens
<1>4. CASE UNCHANGED app
  BY <1>4 DEF app
<1>5. CASE \/ DownloadCertificate
           \/ \E signed \in SUBSET Stages : DeleteReviewer(signed)
           \/ \E hosteller \in BOOLEAN : UpdateProfile(hosteller)
           \/ UNCHANGED vars
  BY <1>4, <1>5, Zenon DEF DownloadCertificate, DeleteReviewer, UpdateProfile, vars
<1>6. QED
  BY <1>1, <1>2, <1>3, <1>5 DEF Next, Decision, Rejection

(* A row the application owns stays, if the student stays.                 *)
LEMMA RowsStay ==
  ASSUME TypeOK, VerifiersInv, ~AdminActs, HostelChanges = {}, [Next]_vars,
         NEW s \in Stages, stage[s] # "absent"
  PROVE  stage'[s] # "absent"
<1>1. ASSUME NEW t \in Stages, Decision(t)
      PROVE  stage'[s] # "absent"
  BY <1>1, VerifierDecides
<1>2. ASSUME NEW t \in Stages, Rejection(t)
      PROVE  FALSE
  BY <1>2, Zenon DEF Rejection, AdminReject, OverrideReject
<1>3. ASSUME NEW hosteller \in BOOLEAN, Resubmit(hosteller)
      PROVE  stage'[s] # "absent"
  <2>1. stage' = [t \in Stages |-> IF t \in Blocked THEN "pending" ELSE stage[t]]
    BY <1>3, ResubmitReopens
  <2>2. QED
    BY <2>1
<1>4. CASE stage' = stage
  BY <1>4
<1>5. CASE \/ DownloadCertificate
           \/ \E signed \in SUBSET Stages : DeleteReviewer(signed)
           \/ \E hosteller \in BOOLEAN : UpdateProfile(hosteller)
           \/ UNCHANGED vars
  BY <1>4, <1>5, Zenon DEF DownloadCertificate, DeleteReviewer, UpdateProfile, vars
<1>6. QED
  BY <1>1, <1>2, <1>3, <1>5 DEF Next, Decision, Rejection

(* Until completion the student is where the rows were made for.           *)
AtHome == status # "completed" => student = Home

LEMMA StudentsStay ==
  ASSUME Moves \subseteq {"completed"}, ~AdminActs, HostelChanges = {}
  PROVE  DeskSpec => [](TypeOK /\ VerifiersInv /\ AtHome)
<1>1. DeskInit => AtHome
  BY DEF DeskInit, AtHome
<1>2. TypeOK /\ VerifiersInv /\ AtHome /\ [Next]_vars /\ [DeskNext]_deskVars => AtHome'
  <2> SUFFICES ASSUME TypeOK, VerifiersInv, AtHome, [Next]_vars, [DeskNext]_deskVars,
                      status' # "completed"
               PROVE  student' = Home
    BY DEF AtHome
  <2>1. status # "completed"
    BY CompletionStays
  <2>2. ASSUME NEW school \in School, NEW department \in Department,
               MoveStudent(school, department)
        PROVE  FALSE
    BY <2>1, <2>2 DEF MoveStudent
  <2>3. student' = student
    BY <2>2, Zenon DEF DeskNext, deskVars, Unmoved
  <2>4. QED
    BY <2>1, <2>3 DEF AtHome
<1>3. Init => VerifiersInv
  BY InitVerifiersInv
<1>4. TypeOK /\ VerifiersInv /\ [Next]_vars => VerifiersInv'
  BY StepKeepsVerifiersInv
<1>5. QED
  BY <1>1, <1>2, <1>3, <1>4, DeskImplementsNoDues, TypeCorrect, PTL DEF DeskSpec, Spec

(* The levels create_application_for_student makes the rows of a role on.  *)
LEMMA LevelsOfRoles ==
  ASSUME NEW s \in Stages
  PROVE  /\ RowRole[s] = "dean" => LevelOf[s] = 3
         /\ RowRole[s] = "hod" => LevelOf[s] = 2
         /\ RowRole[s] = "staff" /\ RowSchool[s] # None => LevelOf[s] = 1
<1>1. GeneratedFor(s, Home)
  BY DeskAssumption
<1>2. CASE LevelOf[s] = 1
  BY <1>1, <1>2 DEF GeneratedFor
<1>3. CASE LevelOf[s] = 2
  BY <1>1, <1>3 DEF GeneratedFor
<1>4. CASE LevelOf[s] = 3
  BY <1>1, <1>4 DEF GeneratedFor
<1>5. CASE LevelOf[s] \notin {1, 2, 3}
  BY <1>1, <1>5 DEF GeneratedFor
<1>6. QED
  BY <1>2, <1>3, <1>4, <1>5

(* What it makes of the rows of each role.                                 *)
LEMMA RowsOfRoles ==
  ASSUME NEW s \in Stages
  PROVE  /\ RowRole[s] = "dean" => RowSchool[s] = Home.school /\ RowDepartment[s] = None
         /\ RowRole[s] = "hod" => RowDepartment[s] = Home.department
         /\ RowRole[s] = "staff" /\ RowSchool[s] # None => RowDepartment[s] = None
<1>1. GeneratedFor(s, Home)
  BY DeskAssumption
<1>2. QED
  BY <1>1, LevelsOfRoles DEF GeneratedFor

(* A row on a desk is one its reviewer may decide, as long as the student  *)
(* is where the row was made for.                                          *)
LEMMA DeskIsPermitted ==
  ASSUME student = Home, NEW u, OneAssignment(u), NEW s \in Stages, Assigned(u), OnDesk(u, s)
  PROVE  Permitted(u, s)
<1>1. CASE u.role = "dean"
  BY <1>1, RowsOfRoles DEF Assigned, OnDesk, Permitted
<1>2. CASE u.role = "hod"
  BY <1>2 DEF Assigned, OnDesk, Permitted
<1>3. CASE u.role = "staff"
  BY <1>3 DEF OnDesk, Permitted, OneAssignment
<1>4. CASE u.role \notin {"dean", "hod", "staff"}
  BY <1>4 DEF OnDesk
<1>5. QED
  BY <1>1, <1>2, <1>3, <1>4

(* Whatever is on a reviewer's task list can be approved by that reviewer, *)
(* for any people and rows, if students change school or department only   *)
(* after completion.                                                       *)
THEOREM TasksAreApprovable ==
  ASSUME Moves \subseteq {"completed"}, ~AdminActs, HostelChanges = {}
  PROVE  DeskSpec => []TasksCanBeApproved
<1>1. TypeOK /\ VerifiersInv /\ AtHome /\ ListedCanBeApproved => TasksCanBeApproved
  <2> SUFFICES ASSUME VerifiersInv, AtHome, ListedCanBeApproved,
                      NEW p \in Person, OneAssignment(users[p]),
                      NEW s \in Stages, s \in Tasks(users[p])
               PROVE  AtCurrentLevel(s) /\ Permitted(users[p], s)
    BY DEF TasksCanBeApproved, Tasks
  <2>1. Assigned(users[p]) /\ OnDesk(users[p], s) /\ Listed(s)
    BY DEF Tasks
  <2>2. AtCurrentLevel(s)
    BY <2>1 DEF ListedCanBeApproved, AtCurrentLevel
  <2>3. status # "completed"
    BY <2>1 DEF Listed, VerifiersInv, CompletedMeansCleared
  <2>4. student = Home
    BY <2>3 DEF AtHome
  <2>5. QED
    BY <2>1, <2>2, <2>4, DeskIsPermitted
<1>2. QED
  BY <1>1, StudentsStay, DeskImplementsNoDues, ListsAgree, PTL

(* A reviewer looks at one row: the overview has no other to show.         *)
LEMMA OneCandidate ==
  ASSUME NEW u, OneAssignment(u), NEW s \in Stages, Assigned(u), OnDesk(u, s),
         NEW t \in Candidates(u)
  PROVE  s = t
<1>1. /\ t \in Stages
      /\ CASE u.role = "dean" -> RowRole[t] = "dean"
           [] u.role = "hod" -> u.department # None => Theirs(u, t)
           [] u.role = "staff" -> u.school # None \/ u.department # None => Theirs(u, t)
           [] OTHER -> Theirs(u, t)
  BY DEF Candidates
<1>2. CASE u.role = "dean"
  <2>1. LevelOf[s] = 3 /\ LevelOf[t] = 3
    BY <1>1, <1>2, LevelsOfRoles DEF OnDesk
  <2>2. QED
    BY <1>1, <2>1, OneRowAssumption
<1>3. CASE u.role = "hod"
  BY <1>1, <1>3, OneRowAssumption DEF Assigned, OnDesk, Theirs
<1>4. CASE u.role = "staff" /\ u.school # None
  <2>1. u.department = None
    BY <1>4 DEF OneAssignment
  <2>2. /\ RowRole[s] = "staff" /\ RowSchool[s] # None
        /\ RowRole[t] = "staff" /\ RowSchool[t] # None
    BY <1>1, <1>4, <2>1 DEF OnDesk, Theirs
  <2>3. LevelOf[s] = 1 /\ LevelOf[t] = 1
    BY <1>1, <2>2, LevelsOfRoles
  <2>4. QED
    BY <1>1, <2>3, OneRowAssumption
<1>5. CASE u.role = "staff" /\ u.school = None
  BY <1>1, <1>5, OneRowAssumption DEF OnDesk, Theirs
<1>6. QED
  BY <1>2, <1>3, <1>4, <1>5 DEF OnDesk

(* The three rules of the pages agree on a row that can be approved by a   *)
(* reviewer of the student's own school or department.                     *)
LEMMA TaskIsOnEveryPage ==
  ASSUME student = Home, NEW u, OneAssignment(u),
         NEW s \in Tasks(u), LevelOf[s] = current_stage_order,
         current_stage_order \in Int
  PROVE  InOverview(u) /\ ShownRows(u) \subseteq Tasks(u) /\ CanOpen(u)
<1>1. s \in Stages /\ Assigned(u) /\ OnDesk(u, s) /\ stage[s] = "pending"
  BY DEF Tasks, Listed
<1>2. Theirs(u, s)
  BY <1>1 DEF OnDesk, Theirs, OneAssignment
<1>3. Reached(s)
  BY DEF Reached
<1>4. InOverview(u)
  BY <1>1, <1>2, <1>3 DEF InOverview
<1>5. ShownRows(u) \subseteq Tasks(u)
  BY <1>1, OneCandidate DEF ShownRows
<1>6. CanOpen(u)
  <2>1. CASE u.role = "dean"
    BY <1>1, <2>1, RowsOfRoles DEF Assigned, OnDesk, CanOpen
  <2>2. CASE u.role = "hod"
    BY <1>1, <2>2, RowsOfRoles DEF Assigned, OnDesk, CanOpen
  <2>3. CASE u.role \notin {"dean", "hod"}
    BY <1>1, <1>2, <1>3, <2>3 DEF CanOpen
  <2>4. QED
    BY <2>1, <2>2, <2>3
<1>7. QED
  BY <1>4, <1>5, <1>6

(* A reviewer with a task finds it in the overview, beside the right row,  *)
(* and can open its detail page, for any people, rows and departments.     *)
THEOREM TasksAreOpen ==
  ASSUME Moves \subseteq {"completed"}, ~AdminActs, HostelChanges = {}
  PROVE  DeskSpec => []TasksCanBeOpened
<1>1. TypeOK /\ VerifiersInv /\ AtHome /\ ListedCanBeApproved => TasksCanBeOpened
  <2> SUFFICES ASSUME TypeOK, VerifiersInv, AtHome, ListedCanBeApproved,
                      NEW p \in Person, OneAssignment(users[p]), Tasks(users[p]) # {}
               PROVE  /\ InOverview(users[p])
                      /\ ShownRows(users[p]) \subseteq Tasks(users[p])
                      /\ CanOpen(users[p])
    BY Zenon DEF TasksCanBeOpened
  <2>1. PICK s \in Tasks(users[p]) : TRUE
    OBVIOUS
  <2>2. s \in Stages /\ Listed(s) /\ stage[s] = "pending"
    BY DEF Tasks, Listed
  <2>3. LevelOf[s] = current_stage_order
    BY <2>2 DEF ListedCanBeApproved
  <2>4. student = Home
    BY <2>2 DEF VerifiersInv, CompletedMeansCleared, AtHome
  <2>5. current_stage_order \in Int
    BY DEF TypeOK, Level, DONE
  <2>6. QED
    BY <2>3, <2>4, <2>5, TaskIsOnEveryPage, Zenon
<1>2. QED
  BY <1>1, StudentsStay, DeskImplementsNoDues, ListsAgree, TypeCorrect, PTL

(* The mail to a reviewer counts every overdue row of the task list, for   *)
(* any people and rows: the index of the job has a key for each of them.   *)
THEOREM RemindersReachDesks == DeskSpec => []OverdueTasksAreReminded
<1>1. OverdueTasksAreReminded
  <2> SUFFICES ASSUME NEW p \in Person, NEW s \in Stale, s \in Tasks(users[p])
               PROVE  s \in Reminded(users[p])
    BY DEF OverdueTasksAreReminded
  <2> DEFINE u == users[p]
  <2>1. s \in Stages /\ Assigned(u) /\ OnDesk(u, s)
    BY DEF Tasks
  <2>2. CASE u.role = "dean"
    BY <2>1, <2>2, RowsOfRoles DEF OnDesk, Reminded, Addressed
  <2>3. CASE u.role = "hod"
    BY <2>1, <2>3 DEF OnDesk, Reminded, Addressed
  <2>4. CASE u.role = "staff"
    BY <2>1, <2>4, RowsOfRoles DEF OnDesk, Reminded, Addressed
  <2>5. CASE u.role \notin {"dean", "hod", "staff"}
    BY <2>1, <2>5 DEF OnDesk
  <2>6. QED
    BY <2>2, <2>3, <2>4, <2>5
<1>2. QED
  BY <1>1, PTL

(* What a reviewer has seen in the overview does not vanish from it: the   *)
(* level never falls and no row goes.                                      *)
THEOREM OverviewStays ==
  ASSUME ~AdminActs, HostelChanges = {}
  PROVE  DeskSpec => OverviewKeepsApplications
<1> DEFINE Kept == \A p \in Person :
             users'[p] = users[p] /\ InOverview(users[p]) => InOverview(users[p])'
           Rises == current_stage_order' >= current_stage_order
<1>1. TypeOK /\ TypeOK' /\ VerifiersInv /\ [Next]_vars /\ [Rises]_vars => [Kept]_deskVars
  <2> SUFFICES ASSUME TypeOK, TypeOK', VerifiersInv, [Next]_vars, [Rises]_vars,
                      NEW p \in Person, users'[p] = users[p], InOverview(users[p])
               PROVE  InOverview(users[p])'
    OBVIOUS
  <2>1. PICK s \in Stages : stage[s] # "absent" /\ Theirs(users[p], s) /\ Reached(s)
    BY DEF InOverview
  <2>2. stage'[s] # "absent"
    BY <2>1, RowsStay
  <2>3. /\ current_stage_order \in Int /\ current_stage_order' \in Int /\ LevelOf[s] \in Int
    BY LevelAssumption DEF TypeOK, Level, DONE
  <2>4. current_stage_order' >= current_stage_order
    BY <2>3 DEF vars, app
  <2>5. Reached(s)'
    BY <2>1, <2>3, <2>4 DEF Reached
  <2>6. Theirs(users[p], s)' /\ Assigned(users[p])'
    BY <2>1 DEF Theirs, Assigned, InOverview
  <2>7. QED
    BY <2>2, <2>5, <2>6 DEF InOverview
<1>2. Init => VerifiersInv
  BY InitVerifiersInv
<1>3. TypeOK /\ VerifiersInv /\ [Next]_vars => VerifiersInv'
  BY StepKeepsVerifiersInv
<1>4. QED
  BY <1>1, <1>2, <1>3, DeskImplementsNoDues, TypeCorrect, LevelOnlyRises, PTL
     DEF Spec, LevelNeverDecreases, OverviewKeepsApplications

------------------------------------------------------------------------------
(* Rounding down does not turn an open application into 100 percent.       *)
LEMMA PartIsLessThanHundred ==
  ASSUME NEW a \in Nat, NEW b \in Nat, a < b
  PROVE  (100 * a) \div b # 100
<1>1. b > 0 /\ 100 * a < 100 * b
  OBVIOUS
<1>2. \A q \in Int : q = (100 * a) \div b => b * q <= 100 * a
  BY <1>1
<1>3. QED
  BY <1>1, <1>2

(* A row that is not approved keeps the progress under 100 percent.        *)
LEMMA OpenProgress ==
  ASSUME IsFiniteSet(Stages), status # "completed",
         NEW s \in Stages, stage[s] \in {"pending", "rejected"}
  PROVE  Progress # 100
<1> DEFINE approved == RowsIn("approved")
<1>1. approved \subseteq Rows /\ s \in Rows /\ s \notin approved
  BY DEF Rows, RowsIn
<1>2. IsFiniteSet(Rows)
  BY FS_Subset DEF Rows
<1>3. /\ Cardinality(Rows) \in Nat /\ Cardinality(approved) \in Nat
      /\ Cardinality(approved) <= Cardinality(Rows)
      /\ Cardinality(approved) # Cardinality(Rows)
  BY <1>1, <1>2, FS_Subset, FS_CardinalityType
<1> HIDE DEF approved
<1>4. Progress = (100 * Cardinality(approved)) \div Cardinality(Rows)
  BY DEF Progress, approved
<1>5. QED
  BY <1>3, <1>4, PartIsLessThanHundred

(* Rejected rows are rows of the current level.                            *)
LEMMA RejectedRowsAreHere ==
  ASSUME TypeOK, VerifiersInv
  PROVE  RowsIn("rejected") = Blocked
<1>1. ASSUME NEW s \in RowsIn("rejected")
      PROVE  s \in Blocked
  <2>1. s \in Stages /\ stage[s] = "rejected"
    BY <1>1 DEF RowsIn, Rows
  <2>2. ~(LevelOf[s] < current_stage_order) /\ ~(LevelOf[s] > current_stage_order)
    BY <2>1 DEF VerifiersInv, LevelsInOrder, BelowApproved, AboveUntouched
  <2>3. LevelOf[s] \in Int /\ current_stage_order \in Int
    BY <2>1, LevelAssumption DEF TypeOK, Level, DONE
  <2>4. QED
    BY <2>1, <2>2, <2>3 DEF Blocked, RejectedAt
<1>2. Blocked \subseteq RowsIn("rejected")
  BY DEF Blocked, RejectedAt, RowsIn, Rows
<1>3. QED
  BY <1>1, <1>2

LEMMA PagesOfInv ==
  ASSUME IsFiniteSet(Stages), TypeOK, VerifiersInv
  PROVE  PagesAgree
<1>1. CASE status = "completed"
  <2>1. Progress = 100 /\ Place = [kind |-> "certificate", rows |-> {}]
    BY <1>1 DEF Progress, Place
  <2>2. RowsIn("rejected") = {}
    BY <1>1 DEF VerifiersInv, CompletedMeansCleared, RowsIn, Rows
  <2>3. OverviewPlace.pending = {}
    BY <1>1 DEF OverviewPlace
  <2>4. QED
    BY <2>1, <2>2, <2>3 DEF PagesAgree, FlaggedRejected
<1>2. CASE status = "rejected"
  <2>1. Place = [kind |-> "rejected", rows |-> RowsIn("rejected")]
    BY <1>2 DEF Place
  <2>2. RowsIn("rejected") # {} /\ RowsIn("rejected") = Blocked
    BY <1>2, RejectedRowsAreHere DEF VerifiersInv, RejectedIffBlocked
  <2>3. Progress # 100
    BY <1>2, <2>2, OpenProgress DEF RowsIn, Rows
  <2>4. RowsIn("rejected") \subseteq Here
    BY <2>2 DEF RowsIn, Here, AtCurrentLevel, Blocked, RejectedAt
  <2>5. OverviewPlace.rejected = RowsIn("rejected")
    BY <1>2, <2>4 DEF OverviewPlace
  <2>6. QED
    BY <2>1, <2>2, <2>3, <2>5 DEF PagesAgree, FlaggedRejected
<1>3. CASE status \notin {"completed", "rejected"}
  <2>1. Place = [kind |-> "pending", rows |-> RowsIn("pending") \cap Here]
    BY <1>3 DEF Place
  <2>2. RowsIn("rejected") = {} /\ Blocked = {}
    BY <1>3, RejectedRowsAreHere DEF VerifiersInv, RejectedIffBlocked
  <2>3. PICK s \in Stages : /\ stage[s] \in {"pending", "rejected"}
                            /\ LevelOf[s] = current_stage_order
    BY <1>3 DEF VerifiersInv, NeverStuck, SomeoneCanAct
  <2>4. s \in RowsIn("pending") \cap Here
    BY <2>2, <2>3 DEF RowsIn, Rows, Here, AtCurrentLevel
  <2>5. Progress # 100
    BY <1>3, <2>3, OpenProgress
  <2>6. OverviewPlace.pending = RowsIn("pending") \cap Here
    BY <1>3 DEF OverviewPlace
  <2>7. QED
    BY <2>1, <2>2, <2>4, <2>5, <2>6 DEF PagesAgree, FlaggedRejected
<1>4. QED
  BY <1>1, <1>2, <1>3

(* The student's pages and the reviewers' overview never contradict each   *)
(* other, however many rows the application has.                           *)
THEOREM PagesNeverContradict ==
  ASSUME IsFiniteSet(Stages), ~AdminActs, HostelChanges = {}
  PROVE  Spec => []PagesAgree
<1>1. Init => VerifiersInv
  BY InitVerifiersInv
<1>2. TypeOK /\ VerifiersInv /\ [Next]_vars => VerifiersInv'
  BY StepKeepsVerifiersInv
<1>3. TypeOK /\ VerifiersInv => PagesAgree
  BY PagesOfInv
<1>4. QED
  BY <1>1, <1>2, <1>3, TypeCorrect, PTL DEF Spec
==============================================================================
