---------------------------- MODULE Registry_proofs ----------------------------
(***************************************************************************)
(* Theorems about Registry for any codes, accounts and seeds.              *)
(***************************************************************************)
EXTENDS Registry, TLAPS

ProfileRow == [account_school : Ref(schools), school : Ref(schools),
               department : Ref(departments), programme : Ref(programmes),
               specialization : Ref(specializations)]

RowsRow == [office : Ref(schools), hod : Ref(departments),
            desks : SUBSET departments, orphans : BOOLEAN, created : BOOLEAN]

(* Tables that only grow keep every reference to an entry of theirs.       *)
LEMMA GrowthKeepsReferences ==
  ASSUME TypeOK,
         schools \subseteq schools', departments \subseteq departments',
         programmes \subseteq programmes', specializations \subseteq specializations'
  PROVE  /\ ProfileRow \subseteq ProfileRow' /\ RowsRow \subseteq RowsRow'
         /\ Ref(schools \cup departments) \subseteq Ref(schools' \cup departments')
BY DEF ProfileRow, RowsRow, Ref

(* Creations and the seed: nothing that is referred to goes.               *)
LEMMA GrowthKeepsType ==
  ASSUME TypeOK,
         schools \subseteq schools', departments \subseteq departments',
         programmes \subseteq programmes', specializations \subseteq specializations',
         schools' \subseteq School, phase' \in [Department -> Phase \cup {0}],
         school_of' \in [Department -> Ref(schools')],
         department_of' \in [Programme -> Ref(departments')],
         programme_of' \in [Specialization -> Ref(programmes')],
         UNCHANGED <<staff, student, rows, deleting>>
  PROVE  TypeOK'
<1>1. /\ ProfileRow \subseteq ProfileRow' /\ RowsRow \subseteq RowsRow'
      /\ Ref(schools \cup departments) \subseteq Ref(schools' \cup departments')
  BY GrowthKeepsReferences
<1>2. staff' \in [Staff -> Ref(schools' \cup departments') \cup {"absent"}]
  BY <1>1 DEF TypeOK
<1>3. student' \in [Applicant -> ProfileRow']
  BY <1>1 DEF TypeOK, ProfileRow
<1>4. rows' \in [Applicant -> RowsRow']
  BY <1>1 DEF TypeOK, RowsRow
<1>5. deleting' \subseteq School \cup Department \cup Programme \cup Specialization
  BY DEF TypeOK
<1>6. QED
  BY <1>2, <1>3, <1>4, <1>5 DEF TypeOK, ProfileRow, RowsRow

(* The profile of a student, and what its columns may refer to.            *)
LEMMA ProfileFacts ==
  ASSUME TypeOK, NEW a \in Applicant
  PROVE  student[a] \in ProfileRow /\ rows[a] \in RowsRow /\ NoStudent \in ProfileRow
BY DEF TypeOK, ProfileRow, RowsRow, NoStudent, Ref

(* A request that touches only accounts and applications keeps the types   *)
(* if what it writes has them.                                             *)
LEMMA AccountsKeepType ==
  ASSUME TypeOK, UNCHANGED tables, deleting' \in {deleting, {}} ,
         staff' \in [Staff -> Ref(schools \cup departments) \cup {"absent"}],
         student' \in [Applicant -> ProfileRow],
         rows' \in [Applicant -> RowsRow]
  PROVE  TypeOK'
<1>1. /\ schools' = schools /\ phase' = phase /\ school_of' = school_of
      /\ department_of' = department_of /\ programme_of' = programme_of
  BY DEF tables
<1>2. departments' = departments /\ programmes' = programmes /\ specializations' = specializations
  BY <1>1 DEF departments, programmes, specializations
<1>3. QED
  BY <1>1, <1>2 DEF TypeOK, ProfileRow, RowsRow

(* What a form leaves of the profile.                                      *)
LEMMA EnrolledFacts ==
  ASSUME TypeOK, NEW a \in Applicant, NEW d \in Ref(Department), NEW p \in Ref(Programme),
         NEW x \in Ref(Specialization), Offered(student[a], d, p, x)
  PROVE  Enrolled(student[a], d, p, x) \in ProfileRow
<1>1. /\ student[a] \in ProfileRow
      /\ d \in Ref(departments) /\ p \in Ref(programmes) /\ x \in Ref(specializations)
  BY ProfileFacts DEF Offered, Ref
<1>2. QED
  BY <1>1 DEF Enrolled, Sent, ProfileRow

LEMMA SeedKeepsType ==
  ASSUME TypeOK, Seed
  PROVE  TypeOK'
<1>1. /\ schools' = School /\ phase' = Seeds.phase
      /\ school_of' = SeededSchoolOf(phase, school_of)
      /\ department_of' = SeededProgrammes(department_of)
      /\ programme_of' = [x \in Specialization |->
            IF programme_of[x] = None THEN Seeds.specialization[x] ELSE programme_of[x]]
      /\ UNCHANGED <<staff, student, rows, deleting>>
  BY DEF Seed
<1>2. /\ Seeds.phase \in [Department -> Phase]
      /\ Seeds.school \in [Department -> Ref(School)]
      /\ Seeds.programme \in [Programme -> Department]
      /\ Seeds.specialization \in [Specialization -> Programme]
      /\ None \notin Department /\ None \notin Programme
  BY RegistryAssumption
<1>3. departments' = Department /\ departments \subseteq Department
  BY <1>1, <1>2 DEF departments, Phase
<1>4. department_of' \in [Programme -> Department] /\ programmes' = Programme
  <2>1. department_of' \in [Programme -> Department]
    BY <1>1, <1>2 DEF SeededProgrammes, TypeOK, Ref, departments
  <2>2. QED
    BY <1>2, <2>1 DEF programmes
<1>5. programme_of' \in [Specialization -> Programme] /\ specializations' = Specialization
  <2>1. programme_of' \in [Specialization -> Programme]
    BY <1>1, <1>2 DEF TypeOK, Ref, programmes
  <2>2. QED
    BY <1>2, <2>1 DEF specializations
<1>6. school_of' \in [Department -> Ref(schools')]
  BY <1>1, <1>2 DEF SeededSchoolOf, TypeOK, Ref
<1>7. /\ schools \subseteq schools' /\ programmes \subseteq programmes'
      /\ specializations \subseteq specializations'
  BY <1>1, <1>4, <1>5 DEF TypeOK, programmes, specializations
<1>8. phase' \in [Department -> Phase \cup {0}]
  BY <1>1, <1>2
<1>9. /\ department_of' \in [Programme -> Ref(departments')]
      /\ programme_of' \in [Specialization -> Ref(programmes')]
  BY <1>3, <1>4, <1>5 DEF Ref
<1>10. QED
  BY <1>1, <1>3, <1>6, <1>7, <1>8, <1>9, GrowthKeepsType

LEMMA CreationKeepsType ==
  ASSUME TypeOK,
         \/ \E s \in School : CreateSchool(s)
         \/ \E d \in Department, n \in Phase, s \in Ref(School) : CreateDepartment(d, n, s)
         \/ \E p \in Programme, d \in Department : CreateProgramme(p, d)
         \/ \E x \in Specialization, p \in Programme : CreateSpecialization(x, p)
  PROVE  TypeOK'
<1>1. ASSUME NEW s \in School, CreateSchool(s)
      PROVE  TypeOK'
  <2>1. /\ departments' = departments /\ programmes' = programmes
        /\ specializations' = specializations
    BY <1>1 DEF CreateSchool, departments, programmes, specializations
  <2>2. QED
    BY <1>1, <2>1, GrowthKeepsType DEF CreateSchool, TypeOK, Ref
<1>2. ASSUME NEW d \in Department, NEW n \in Phase, NEW s \in Ref(School),
             CreateDepartment(d, n, s)
      PROVE  TypeOK'
  <2>1. /\ departments \subseteq departments' /\ programmes' = programmes
        /\ specializations' = specializations
    BY <1>2 DEF CreateDepartment, departments, programmes, specializations, TypeOK, Phase
  <2>2. QED
    BY <1>2, <2>1, GrowthKeepsType DEF CreateDepartment, TypeOK, Ref
<1>3. ASSUME NEW p \in Programme, NEW d \in Department, CreateProgramme(p, d)
      PROVE  TypeOK'
  <2>1. d # None
    BY RegistryAssumption
  <2>2. /\ departments' = departments /\ programmes \subseteq programmes'
        /\ specializations' = specializations
    BY <1>3, <2>1 DEF CreateProgramme, departments, programmes, specializations, TypeOK
  <2>3. QED
    BY <1>3, <2>2, GrowthKeepsType DEF CreateProgramme, TypeOK, Ref
<1>4. ASSUME NEW x \in Specialization, NEW p \in Programme, CreateSpecialization(x, p)
      PROVE  TypeOK'
  <2>1. p # None
    BY RegistryAssumption
  <2>2. /\ departments' = departments /\ programmes' = programmes
        /\ specializations \subseteq specializations'
    BY <1>4, <2>1 DEF CreateSpecialization, departments, programmes, specializations, TypeOK
  <2>3. QED
    BY <1>4, <2>2, GrowthKeepsType DEF CreateSpecialization, TypeOK, Ref
<1>5. QED
  BY <1>1, <1>2, <1>3, <1>4

Request ==
  \/ \E u \in Staff : DeleteStaff(u) \/ \E e \in School \cup Department : RegisterStaff(u, e)
  \/ \E a \in Applicant, s \in School : RegisterStudent(a, s)
  \/ \E a \in Applicant, d \in Ref(Department) :
       \/ \E s \in School : UpdateProfile(a, s, d)
       \/ \E p \in Ref(Programme), x \in Ref(Specialization) :
            Apply(a, d, p, x) \/ Resubmit(a, d, p, x)

(* Registrations, profiles and applications leave the tables alone.        *)
LEMMA RequestLeavesTables ==
  ASSUME Request
  PROVE  UNCHANGED <<tables, deleting>>
<1>1. ASSUME NEW u \in Staff, DeleteStaff(u) \/ \E e \in School \cup Department : RegisterStaff(u, e)
      PROVE  UNCHANGED <<tables, deleting>>
  BY <1>1, Zenon DEF DeleteStaff, RegisterStaff
<1>2. ASSUME NEW a \in Applicant, NEW s \in School,
             RegisterStudent(a, s) \/ \E d \in Ref(Department) : UpdateProfile(a, s, d)
      PROVE  UNCHANGED <<tables, deleting>>
  BY <1>2, Zenon DEF RegisterStudent, UpdateProfile
<1>3. ASSUME NEW a \in Applicant, NEW d \in Ref(Department), NEW p \in Ref(Programme),
             NEW x \in Ref(Specialization), Apply(a, d, p, x) \/ Resubmit(a, d, p, x)
      PROVE  UNCHANGED <<tables, deleting>>
  BY <1>3, Zenon DEF Apply, Resubmit
<1>4. QED
  BY <1>1, <1>2, <1>3, Zenon DEF Request

LEMMA RequestKeepsType ==
  ASSUME TypeOK, Request
  PROVE  TypeOK'
<1> /\ staff \in [Staff -> Ref(schools \cup departments) \cup {"absent"}]
    /\ student \in [Applicant -> ProfileRow] /\ rows \in [Applicant -> RowsRow]
  BY DEF TypeOK, ProfileRow, RowsRow
<1>1. ASSUME NEW u \in Staff, DeleteStaff(u)
      PROVE  TypeOK'
  BY <1>1, AccountsKeepType DEF DeleteStaff
<1>2. ASSUME NEW u \in Staff, NEW e \in School \cup Department, RegisterStaff(u, e)
      PROVE  TypeOK'
  BY <1>2, AccountsKeepType DEF RegisterStaff, Ref
<1>3. ASSUME NEW a \in Applicant, NEW s \in School, RegisterStudent(a, s)
      PROVE  TypeOK'
  <2>1. [NoStudent EXCEPT !.account_school = s, !.school = s] \in ProfileRow
    BY <1>3 DEF RegisterStudent, NoStudent, ProfileRow, Ref
  <2>2. QED
    BY <1>3, <2>1, AccountsKeepType DEF RegisterStudent
<1>4. ASSUME NEW a \in Applicant, NEW d \in Ref(Department), NEW s \in School,
             UpdateProfile(a, s, d)
      PROVE  TypeOK'
  <2>1. student' = [student EXCEPT ![a] = [@ EXCEPT !.school = s, !.department = d]]
    BY <1>4 DEF UpdateProfile
  <2>2. [student[a] EXCEPT !.school = s, !.department = d] \in ProfileRow
    BY <1>4 DEF UpdateProfile, ProfileRow, Ref
  <2>3. QED
    BY <1>4, <2>1, <2>2, AccountsKeepType DEF UpdateProfile
<1>5. ASSUME NEW a \in Applicant, NEW d \in Ref(Department), NEW p \in Ref(Programme),
             NEW x \in Ref(Specialization), Apply(a, d, p, x)
      PROVE  TypeOK'
  <2>1. Enrolled(student[a], d, p, x) \in ProfileRow
    BY <1>5, EnrolledFacts DEF Apply
  <2>2. student' \in [Applicant -> ProfileRow]
    BY <1>5, <2>1 DEF Apply
  <2>3. Sent(d, student[a].department) \in Ref(departments)
    BY <1>5 DEF Apply, Offered, Sent, ProfileRow, Ref
  <2>4. [office |-> student[a].school, hod |-> Sent(d, student[a].department),
         desks |-> {e \in departments : phase[e] = 2}, orphans |-> FALSE,
         created |-> TRUE] \in RowsRow
    BY <2>3 DEF RowsRow, ProfileRow
  <2>5. rows' \in [Applicant -> RowsRow]
    BY <1>5, <2>4 DEF Apply
  <2>6. QED
    BY <1>5, <2>2, <2>5, AccountsKeepType DEF Apply
<1>6. ASSUME NEW a \in Applicant, NEW d \in Ref(Department), NEW p \in Ref(Programme),
             NEW x \in Ref(Specialization), Resubmit(a, d, p, x)
      PROVE  TypeOK'
  <2>1. Enrolled(student[a], d, p, x) \in ProfileRow
    BY <1>6, EnrolledFacts DEF Resubmit
  <2>2. student' \in [Applicant -> ProfileRow]
    BY <1>6, <2>1 DEF Resubmit
  <2>3. QED
    BY <1>6, <2>2, AccountsKeepType DEF Resubmit
<1>7. QED
  BY <1>1, <1>2, <1>3, <1>4, <1>5, <1>6 DEF Request

(* A deletion takes its entry out of every reference that the ORM or the   *)
(* database knows.                                                         *)
LEMMA CommitSchoolKeepsType ==
  ASSUME TypeOK, NEW s \in School, CommitSchool(s)
  PROVE  TypeOK'
<1>1. /\ schools' = schools \ {s} /\ departments' = departments
      /\ programmes' = programmes /\ specializations' = specializations
  BY DEF CommitSchool, departments, programmes, specializations
<1>2. /\ schools' \subseteq School /\ phase' \in [Department -> Phase \cup {0}]
      /\ department_of' \in [Programme -> Ref(departments')]
      /\ programme_of' \in [Specialization -> Ref(programmes')]
      /\ deleting' \subseteq School \cup Department \cup Programme \cup Specialization
  BY <1>1 DEF CommitSchool, TypeOK
<1>3. school_of' \in [Department -> Ref(schools')]
  BY <1>1 DEF CommitSchool, TypeOK, Ref
<1>4. staff' \in [Staff -> Ref(schools' \cup departments') \cup {"absent"}]
  BY <1>1 DEF CommitSchool, Unassigned, TypeOK, Ref
<1>5. student' \in [Applicant -> ProfileRow']
  <2> SUFFICES ASSUME NEW a \in Applicant
               PROVE  [student[a] EXCEPT !.account_school = IF @ = s THEN None ELSE @]
                        \in ProfileRow'
    BY DEF CommitSchool
  <2>1. student[a] \in ProfileRow
    BY ProfileFacts
  <2>2. student[a].school # s
    <3>1. CASE student[a] = NoStudent
      BY <3>1, RegistryAssumption DEF NoStudent
    <3>2. CASE student[a] # NoStudent
      BY <3>2 DEF CommitSchool, Registered
    <3>3. QED
      BY <3>1, <3>2
  <2>3. QED
    BY <1>1, <2>1, <2>2 DEF ProfileRow, Ref
<1>6. rows' \in [Applicant -> RowsRow']
  <2> SUFFICES ASSUME NEW a \in Applicant
               PROVE  [rows[a] EXCEPT !.office = IF @ = s THEN None ELSE @] \in RowsRow'
    BY DEF CommitSchool
  <2>1. rows[a] \in RowsRow
    BY ProfileFacts
  <2>2. QED
    BY <1>1, <2>1 DEF RowsRow, Ref
<1>7. QED
  BY <1>2, <1>3, <1>4, <1>5, <1>6 DEF TypeOK, ProfileRow, RowsRow

LEMMA CommitDepartmentKeepsType ==
  ASSUME TypeOK, NEW d \in Department, CommitDepartment(d)
  PROVE  TypeOK'
<1>1. /\ schools' = schools /\ departments' = departments \ {d}
      /\ programmes' = programmes /\ specializations' = specializations
  BY DEF CommitDepartment, departments, programmes, specializations, TypeOK
<1>2. /\ schools' \subseteq School /\ phase' \in [Department -> Phase \cup {0}]
      /\ school_of' \in [Department -> Ref(schools')]
      /\ programme_of' \in [Specialization -> Ref(programmes')]
      /\ deleting' \subseteq School \cup Department \cup Programme \cup Specialization
  BY <1>1 DEF CommitDepartment, TypeOK, Ref
<1>3. department_of' \in [Programme -> Ref(departments')]
  BY <1>1 DEF CommitDepartment, programmes, TypeOK, Ref
<1>4. staff' \in [Staff -> Ref(schools' \cup departments') \cup {"absent"}]
  BY <1>1 DEF CommitDepartment, Unassigned, TypeOK, Ref
<1>5. student' \in [Applicant -> ProfileRow']
  <2> SUFFICES ASSUME NEW a \in Applicant
               PROVE  [student[a] EXCEPT !.department = IF @ = d THEN None ELSE @]
                        \in ProfileRow'
    BY DEF CommitDepartment
  <2>1. student[a] \in ProfileRow
    BY ProfileFacts
  <2>2. QED
    BY <1>1, <2>1 DEF ProfileRow, Ref
<1>6. rows' \in [Applicant -> RowsRow']
  <2> SUFFICES ASSUME NEW a \in Applicant
               PROVE  RowsWithout(rows[a], d) \in RowsRow'
    BY DEF CommitDepartment
  <2>1. rows[a] \in RowsRow
    BY ProfileFacts
  <2>2. QED
    BY <1>1, <2>1 DEF RowsWithout, RowsRow, Ref
<1>7. QED
  BY <1>2, <1>3, <1>4, <1>5, <1>6 DEF TypeOK, ProfileRow, RowsRow

LEMMA CommitProgrammeKeepsType ==
  ASSUME TypeOK, NEW p \in Programme, CommitProgramme(p)
  PROVE  TypeOK'
<1>1. /\ schools' = schools /\ departments' = departments
      /\ programmes' = programmes \ {p} /\ specializations' = specializations
  BY DEF CommitProgramme, departments, programmes, specializations, TypeOK
<1>2. programme_of' \in [Specialization -> Ref(programmes')]
  BY <1>1 DEF CommitProgramme, specializations, TypeOK, Ref
<1>3. \A a \in Applicant : student[a] \in ProfileRow'
  <2> SUFFICES ASSUME NEW a \in Applicant
               PROVE  student[a] \in ProfileRow'
    OBVIOUS
  <2>1. student[a].programme # p
    <3>1. CASE student[a] = NoStudent
      BY <3>1, RegistryAssumption DEF NoStudent
    <3>2. CASE student[a] # NoStudent
      BY <3>2 DEF CommitProgramme, StudentsWith, Registered
    <3>3. QED
      BY <3>1, <3>2
  <2>2. QED
    BY <1>1, <2>1, ProfileFacts DEF ProfileRow, Ref
<1>4. QED
  BY <1>1, <1>2, <1>3 DEF CommitProgramme, TypeOK, ProfileRow, Ref

LEMMA CommitSpecializationKeepsType ==
  ASSUME TypeOK, NEW x \in Specialization, CommitSpecialization(x)
  PROVE  TypeOK'
<1>1. /\ schools' = schools /\ departments' = departments
      /\ programmes' = programmes /\ specializations' = specializations \ {x}
  BY DEF CommitSpecialization, departments, programmes, specializations, TypeOK
<1>2. \A a \in Applicant : student[a] \in ProfileRow'
  <2> SUFFICES ASSUME NEW a \in Applicant
               PROVE  student[a] \in ProfileRow'
    OBVIOUS
  <2>1. student[a].specialization # x
    <3>1. CASE student[a] = NoStudent
      BY <3>1, RegistryAssumption DEF NoStudent
    <3>2. CASE student[a] # NoStudent
      BY <3>2 DEF CommitSpecialization, StudentsWith, Registered
    <3>3. QED
      BY <3>1, <3>2
  <2>2. QED
    BY <1>1, <2>1, ProfileFacts DEF ProfileRow, Ref
<1>3. QED
  BY <1>1, <1>2 DEF CommitSpecialization, TypeOK, ProfileRow, Ref

Deletable == School \cup Department \cup Programme \cup Specialization

Creation ==
  \/ \E s \in School : CreateSchool(s)
  \/ \E d \in Department, n \in Phase, s \in Ref(School) : CreateDepartment(d, n, s)
  \/ \E p \in Programme, d \in Department : CreateProgramme(p, d)
  \/ \E x \in Specialization, p \in Programme : CreateSpecialization(x, p)

Deletion ==
  \/ \E s \in School : CommitSchool(s)
  \/ \E d \in Department : CommitDepartment(d)
  \/ \E p \in Programme : CommitProgramme(p)
  \/ \E x \in Specialization : CommitSpecialization(x)

(* The requests, grouped.                                                  *)
LEMMA Requests ==
  ASSUME Next
  PROVE  \/ Creation \/ Request \/ Deletion \/ Seed \/ Rollback
         \/ \E entry \in Deletable : Check(entry)
BY Zenon DEF Next, Creation, Request, Deletion, Deletable

(* No sequence of creations, registrations, enrolments, deletions and      *)
(* restarts leaves a reference to an entry that does not exist.            *)
THEOREM NothingDangles == Spec => []TypeOK
<1>1. Init => TypeOK
  BY DEF Init, TypeOK, NoStudent, NoRows, Ref, departments, programmes, specializations
<1>2. TypeOK /\ [Next]_vars => TypeOK'
  <2> SUFFICES ASSUME TypeOK, [Next]_vars
               PROVE  TypeOK'
    OBVIOUS
  <2>1. CASE Creation
    BY <2>1, CreationKeepsType DEF Creation
  <2>2. CASE Request
    BY <2>2, RequestKeepsType
  <2>3. CASE Deletion
    BY <2>3, CommitSchoolKeepsType, CommitDepartmentKeepsType, CommitProgrammeKeepsType,
       CommitSpecializationKeepsType DEF Deletion
  <2>4. CASE Seed
    BY <2>4, SeedKeepsType
  <2>5. CASE UNCHANGED <<tables, staff, student, rows>> /\ deleting' \in SUBSET Deletable
    BY <2>5 DEF tables, TypeOK, Ref, departments, programmes, specializations, Deletable
  <2>6. CASE Rollback
    BY <2>5, <2>6 DEF Rollback
  <2>7. ASSUME NEW entry \in Deletable, Check(entry)
        PROVE  TypeOK'
    BY <2>5, <2>7 DEF Check
  <2>8. CASE UNCHANGED vars
    BY <2>5, <2>8 DEF vars, TypeOK, Deletable
  <2>9. QED
    BY <2>1, <2>2, <2>3, <2>4, <2>6, <2>7, <2>8, Requests
<1>3. QED
  BY <1>1, <1>2, PTL DEF Spec

(* Whoever a deletion has found without references finds none later: what  *)
(* its check looked at holds until the commit.                             *)
NoStaffOf == \A e \in deleting \cap (School \cup Department) : StaffOf(e) = {}
NoDepartmentsOf ==
  \A s \in deleting \cap School : \A d \in departments : school_of[d] # s
NoStudentsOf ==
  \A d \in deleting \cap Department : \A a \in Registered : student[a].department # d

(* "Reassign or remove linked staff first", for any tables, as long as no  *)
(* account is created while a deletion is under way.                       *)
THEOREM StaffKeepTheirPlace ==
  ASSUME "staff" \notin Concurrent
  PROVE  Spec => []StaffStayAssigned
<1> DEFINE Inv == StaffStayAssigned /\ NoStaffOf
<1>1. Init => Inv
  BY RegistryAssumption, DistinctAssumption DEF Init, StaffStayAssigned, NoStaffOf
<1>2. TypeOK /\ Inv /\ [Next]_vars => Inv'
  <2> SUFFICES ASSUME TypeOK, Inv, [Next]_vars
               PROVE  Inv'
    OBVIOUS
  <2>1. CASE UNCHANGED staff /\ deleting' \in {deleting, {}}
    BY <2>1 DEF StaffStayAssigned, NoStaffOf, StaffOf
  <2>2. ASSUME NEW u \in Staff, DeleteStaff(u)
        PROVE  Inv'
    BY <2>2, DistinctAssumption
       DEF DeleteStaff, Beside, TypeOK, StaffStayAssigned, NoStaffOf
  <2>3. ASSUME NEW u \in Staff, NEW e \in School \cup Department, RegisterStaff(u, e)
        PROVE  Inv'
    BY <2>3, RegistryAssumption
       DEF RegisterStaff, Beside, TypeOK, StaffStayAssigned, NoStaffOf
  <2>4. ASSUME NEW e \in School \cup Department, e \in deleting,
               staff' = Unassigned(e), deleting' = {}
        PROVE  Inv'
    <3>1. StaffOf(e) = {}
      BY <2>4 DEF NoStaffOf
    <3>2. staff' = staff
      BY <2>4, <3>1 DEF StaffOf, Unassigned, TypeOK
    <3>3. QED
      BY <2>1, <2>4, <3>2
  <2>5. CASE Deletion
    <3>1. ASSUME NEW s \in School, CommitSchool(s)
          PROVE  Inv'
      BY <2>4, <3>1 DEF CommitSchool
    <3>2. ASSUME NEW d \in Department, CommitDepartment(d)
          PROVE  Inv'
      BY <2>4, <3>2 DEF CommitDepartment
    <3>3. ASSUME NEW p \in Programme, CommitProgramme(p)
          PROVE  Inv'
      BY <2>1, <3>3 DEF CommitProgramme
    <3>4. ASSUME NEW x \in Specialization, CommitSpecialization(x)
          PROVE  Inv'
      BY <2>1, <3>4 DEF CommitSpecialization
    <3>5. QED
      BY <2>5, <3>1, <3>2, <3>3, <3>4 DEF Deletion
  <2>6. ASSUME NEW entry \in Deletable, Check(entry)
        PROVE  Inv'
    <3>1. entry \in School \cup Department => StaffOf(entry) = {}
      BY <2>6, DistinctAssumption DEF Check, CheckSchool, CheckDepartment, Unlinked,
         Unused, AccountsOf
    <3>2. deleting' = {entry} /\ staff' = staff
      BY <2>6 DEF Check
    <3>3. QED
      BY <3>1, <3>2 DEF StaffStayAssigned, NoStaffOf, StaffOf
  <2>7. CASE Creation
    BY <2>1, <2>7 DEF Creation, CreateSchool, CreateDepartment, CreateProgramme,
       CreateSpecialization
  <2>8. CASE Request
    <3>1. ASSUME NEW a \in Applicant, NEW s \in School, RegisterStudent(a, s)
          PROVE  Inv'
      BY <2>1, <3>1 DEF RegisterStudent
    <3>2. ASSUME NEW a \in Applicant, NEW d \in Ref(Department), NEW s \in School,
                 UpdateProfile(a, s, d)
          PROVE  Inv'
      BY <2>1, <3>2 DEF UpdateProfile
    <3>3. ASSUME NEW a \in Applicant, NEW d \in Ref(Department), NEW p \in Ref(Programme),
                 NEW x \in Ref(Specialization), Apply(a, d, p, x) \/ Resubmit(a, d, p, x)
          PROVE  Inv'
      BY <2>1, <3>3 DEF Apply, Resubmit
    <3>4. QED
      BY <2>2, <2>3, <2>8, <3>1, <3>2, <3>3 DEF Request
  <2>9. CASE Seed \/ Rollback \/ UNCHANGED vars
    BY <2>1, <2>9 DEF Seed, Rollback, vars
  <2>10. QED
    BY <2>5, <2>6, <2>7, <2>8, <2>9, Requests
<1>3. Inv => StaffStayAssigned
  OBVIOUS
<1>4. QED
  BY <1>1, <1>2, <1>3, NothingDangles, PTL DEF Spec

(* "Reassign or delete its departments first", for any tables and any      *)
(* seed, as long as neither a department is created nor a server started   *)
(* while a deletion is under way.                                          *)
THEOREM AcademicDepartmentsKeepTheirSchool ==
  ASSUME "department" \notin Concurrent, "seed" \notin Concurrent
  PROVE  Spec => []AcademicDepartmentsHaveSchools
<1> DEFINE Inv == AcademicDepartmentsHaveSchools /\ NoDepartmentsOf
<1>1. Init => Inv
  BY DEF Init, AcademicDepartmentsHaveSchools, NoDepartmentsOf, departments
<1>2. TypeOK /\ Inv /\ [Next]_vars => Inv'
  <2> SUFFICES ASSUME TypeOK, Inv, [Next]_vars
               PROVE  Inv'
    OBVIOUS
  <2>1. CASE UNCHANGED <<schools, phase, school_of>> /\ deleting' \in {deleting, {}}
    BY <2>1 DEF AcademicDepartmentsHaveSchools, NoDepartmentsOf, departments
  <2>2. ASSUME NEW s \in School, CreateSchool(s)
        PROVE  Inv'
    BY <2>2 DEF CreateSchool, AcademicDepartmentsHaveSchools, NoDepartmentsOf, departments
  <2>3. ASSUME NEW d \in Department, NEW n \in Phase, NEW s \in Ref(School),
               CreateDepartment(d, n, s)
        PROVE  Inv'
    <3>1. deleting' = {} /\ schools' = schools /\ s \in Ref(schools) /\ (n = 1 => s # None)
      BY <2>3 DEF CreateDepartment, Beside
    <3>2. phase' = [phase EXCEPT ![d] = n] /\ school_of' = [school_of EXCEPT ![d] = s]
      BY <2>3 DEF CreateDepartment
    <3>3. ASSUME NEW e \in Department, phase'[e] = 1
          PROVE  school_of'[e] \in schools
      BY <3>1, <3>2, <3>3 DEF TypeOK, Ref, AcademicDepartmentsHaveSchools, departments
    <3>4. QED
      BY <3>1, <3>3 DEF AcademicDepartmentsHaveSchools, NoDepartmentsOf, departments
  <2>4. CASE Seed
    <3>1. deleting' = {} /\ schools' = School /\ phase' = Seeds.phase
          /\ school_of' = SeededSchoolOf(phase, school_of)
      BY <2>4 DEF Seed, Beside
    <3>2. ASSUME NEW e \in Department, phase'[e] = 1
          PROVE  school_of'[e] \in School
      <4>1. Seeds.school[e] \in Ref(School) /\ Seeds.school[e] # None
        BY <3>1, <3>2, RegistryAssumption
      <4>2. QED
        BY <3>1, <4>1 DEF SeededSchoolOf, Ref
    <3>3. QED
      BY <3>1, <3>2 DEF AcademicDepartmentsHaveSchools, NoDepartmentsOf, departments
  <2>5. ASSUME NEW s \in School, CommitSchool(s)
        PROVE  Inv'
    <3>1. /\ s \in deleting /\ deleting' = {} /\ phase' = phase /\ schools' = schools \ {s}
          /\ school_of' = [d \in Department |-> IF school_of[d] = s THEN None ELSE school_of[d]]
      BY <2>5 DEF CommitSchool
    <3>2. \A d \in departments : school_of'[d] = school_of[d] /\ school_of[d] # s
      BY <3>1 DEF NoDepartmentsOf, departments
    <3>3. departments' = departments
      BY <3>1 DEF departments
    <3>4. QED
      BY <3>1, <3>2, <3>3 DEF AcademicDepartmentsHaveSchools, NoDepartmentsOf
  <2>6. ASSUME NEW d \in Department, CommitDepartment(d)
        PROVE  Inv'
    BY <2>6 DEF CommitDepartment, TypeOK, AcademicDepartmentsHaveSchools, NoDepartmentsOf,
       departments
  <2>7. ASSUME NEW entry \in Deletable, Check(entry)
        PROVE  Inv'
    <3>1. entry \in School => Unlinked(entry)
      BY <2>7, DistinctAssumption DEF Check, CheckSchool
    <3>2. deleting' = {entry} /\ UNCHANGED <<schools, phase, school_of>>
      BY <2>7 DEF Check, tables
    <3>3. QED
      BY <3>1, <3>2 DEF Unlinked, AcademicDepartmentsHaveSchools, NoDepartmentsOf, departments
  <2>8. CASE Request
    BY <2>1, <2>8, RequestLeavesTables DEF tables
  <2>9. ASSUME NEW p \in Programme,
               CommitProgramme(p) \/ \E d \in Department : CreateProgramme(p, d)
        PROVE  Inv'
    BY <2>1, <2>9 DEF CommitProgramme, CreateProgramme
  <2>10. ASSUME NEW x \in Specialization,
                CommitSpecialization(x) \/ \E p \in Programme : CreateSpecialization(x, p)
         PROVE  Inv'
    BY <2>1, <2>10 DEF CommitSpecialization, CreateSpecialization
  <2>11. CASE Rollback \/ UNCHANGED vars
    BY <2>1, <2>11 DEF Rollback, vars, tables
  <2>12. QED
    BY <2>2, <2>3, <2>4, <2>5, <2>6, <2>7, <2>8, <2>9, <2>10, <2>11, Requests
       DEF Creation, Deletion
<1>3. Inv => AcademicDepartmentsHaveSchools
  OBVIOUS
<1>4. QED
  BY <1>1, <1>2, <1>3, NothingDangles, PTL DEF Spec

(* What a whole form writes fits together: the specialization it sends is  *)
(* of the programme it sends.                                              *)
LEMMA WholeFormsFit ==
  ASSUME TypeOK, WholeForms, EnrolmentsHangTogether, NEW a \in Applicant,
         NEW d \in Ref(Department), NEW p \in Ref(Programme), NEW x \in Ref(Specialization),
         Form(p, x), Offered(student[a], d, p, x)
  PROVE  LET st == Enrolled(student[a], d, p, x)
         IN  st.specialization # None /\ st.programme # None =>
               programme_of[st.specialization] = st.programme
<1>1. student[a] \in ProfileRow
  BY ProfileFacts
<1>2. CASE p = None /\ x = None
  BY <1>1, <1>2 DEF Enrolled, Sent, ProfileRow, EnrolmentsHangTogether
<1>3. CASE p # None /\ x # None
  BY <1>1, <1>3 DEF Enrolled, Sent, Offered, ProfileRow
<1>4. QED
  BY <1>2, <1>3 DEF Form

(* "Specialization MUST belong to the selected Programme", for any tables, *)
(* whatever runs beside a deletion.                                        *)
THEOREM EnrolmentsStayTogether ==
  ASSUME WholeForms
  PROVE  Spec => []EnrolmentsHangTogether
<1>1. Init => EnrolmentsHangTogether
  BY DEF Init, NoStudent, EnrolmentsHangTogether
<1>2. TypeOK /\ EnrolmentsHangTogether /\ [Next]_vars => EnrolmentsHangTogether'
  <2> SUFFICES ASSUME TypeOK, EnrolmentsHangTogether, [Next]_vars
               PROVE  EnrolmentsHangTogether'
    OBVIOUS
  <2>1. \A a \in Applicant : /\ student[a] \in ProfileRow
                             /\ student[a].specialization \in Ref(specializations)
    BY ProfileFacts DEF ProfileRow
  <2>2. ASSUME \A a \in Applicant :
                 /\ student'[a].programme = student[a].programme
                 /\ student'[a].specialization = student[a].specialization
                 /\ programme_of'[student[a].specialization]
                      = programme_of[student[a].specialization]
                    \/ student[a].specialization = None
        PROVE  EnrolmentsHangTogether'
    BY <2>2 DEF EnrolmentsHangTogether
  <2>3. CASE UNCHANGED <<student, programme_of>>
    BY <2>3 DEF EnrolmentsHangTogether
  <2>4. CASE Creation
    <3>1. ASSUME NEW x \in Specialization, NEW p \in Programme, CreateSpecialization(x, p)
          PROVE  EnrolmentsHangTogether'
      BY <2>1, <2>2, <3>1 DEF CreateSpecialization, TypeOK, specializations, Ref
    <3>2. QED
      BY <2>3, <2>4, <3>1 DEF Creation, CreateSchool, CreateDepartment, CreateProgramme
  <2>5. CASE Seed
    <3>1. programme_of' = [x \in Specialization |->
            IF programme_of[x] = None THEN Seeds.specialization[x] ELSE programme_of[x]]
      BY <2>5 DEF Seed
    <3>2. QED
      BY <2>1, <2>2, <2>5, <3>1 DEF Seed, specializations, Ref
  <2>6. ASSUME NEW s \in School, CommitSchool(s)
        PROVE  EnrolmentsHangTogether'
    BY <2>1, <2>2, <2>6 DEF CommitSchool, ProfileRow
  <2>7. ASSUME NEW d \in Department, CommitDepartment(d)
        PROVE  EnrolmentsHangTogether'
    BY <2>1, <2>2, <2>7 DEF CommitDepartment, ProfileRow
  <2>8. ASSUME NEW p \in Programme, CommitProgramme(p)
        PROVE  EnrolmentsHangTogether'
    BY <2>3, <2>8 DEF CommitProgramme
  <2>9. ASSUME NEW x \in Specialization, CommitSpecialization(x)
        PROVE  EnrolmentsHangTogether'
    <3>1. \A a \in Registered : student[a].specialization # x
      BY <2>9 DEF CommitSpecialization, StudentsWith
    <3>2. \A a \in Applicant : student[a].specialization # x
      BY <3>1, RegistryAssumption DEF Registered, NoStudent
    <3>3. QED
      BY <2>1, <2>2, <2>9, <3>2 DEF CommitSpecialization, TypeOK, Ref, specializations
  <2>10. ASSUME NEW a \in Applicant, NEW s \in School, RegisterStudent(a, s)
         PROVE  EnrolmentsHangTogether'
    <3>1. student' = [student EXCEPT ![a] =
                        [NoStudent EXCEPT !.account_school = s, !.school = s]]
          /\ programme_of' = programme_of
      BY <2>10 DEF RegisterStudent, tables
    <3>2. QED
      BY <3>1 DEF NoStudent, EnrolmentsHangTogether, TypeOK
  <2>11. ASSUME NEW a \in Applicant, NEW d \in Ref(Department), NEW s \in School,
                UpdateProfile(a, s, d)
         PROVE  EnrolmentsHangTogether'
    <3>1. student' = [student EXCEPT ![a] = [@ EXCEPT !.school = s, !.department = d]]
          /\ programme_of' = programme_of
      BY <2>11 DEF UpdateProfile, tables
    <3>2. \A b \in Applicant : /\ student'[b].programme = student[b].programme
                               /\ student'[b].specialization = student[b].specialization
      BY <2>1, <3>1 DEF ProfileRow, TypeOK
    <3>3. QED
      BY <2>2, <3>1, <3>2
  <2>12. ASSUME NEW a \in Applicant, NEW d \in Ref(Department), NEW p \in Ref(Programme),
                NEW x \in Ref(Specialization), Apply(a, d, p, x) \/ Resubmit(a, d, p, x)
         PROVE  EnrolmentsHangTogether'
    <3>1. student' = [student EXCEPT ![a] = Enrolled(@, d, p, x)]
          /\ programme_of' = programme_of
      BY <2>12 DEF Apply, Resubmit, tables
    <3>2. Form(p, x) /\ Offered(student[a], d, p, x)
      BY <2>12 DEF Apply, Resubmit
    <3>3. student'[a] = Enrolled(student[a], d, p, x)
          /\ \A b \in Applicant \ {a} : student'[b] = student[b]
      BY <3>1 DEF TypeOK
    <3>4. LET st == student'[a]
          IN  st.specialization # None /\ st.programme # None =>
                programme_of[st.specialization] = st.programme
      BY <3>2, <3>3, WholeFormsFit, Zenon
    <3>5. QED
      BY <3>1, <3>3, <3>4 DEF EnrolmentsHangTogether
  <2>13. ASSUME NEW u \in Staff, DeleteStaff(u) \/ \E e \in School \cup Department : RegisterStaff(u, e)
         PROVE  EnrolmentsHangTogether'
    BY <2>3, <2>13 DEF DeleteStaff, RegisterStaff, tables
  <2>14. CASE Rollback \/ UNCHANGED vars \/ \E entry \in Deletable : Check(entry)
    BY <2>3, <2>14 DEF Rollback, vars, tables, Check
  <2>15. QED
    BY <2>4, <2>5, <2>6, <2>7, <2>8, <2>9, <2>10, <2>11, <2>12, <2>13, <2>14, Requests
       DEF Request, Deletion
<1>3. QED
  BY <1>1, <1>2, NothingDangles, PTL DEF Spec

(* The rows of the office, the dean and the head keep whom they wait for,  *)
(* for any tables, as long as no profile or application is written while a *)
(* deletion is under way.                                                  *)
THEOREM RowsKeepTheirReviewers ==
  ASSUME "profile" \notin Concurrent, "application" \notin Concurrent
  PROVE  Spec => RowsFollowStudents
<1> DEFINE Follow(a) ==
             /\ rows[a].created /\ rows[a].office = student[a].school
                  => rows'[a].office = rows[a].office
             /\ rows[a].created /\ rows[a].hod = student[a].department /\ rows[a].hod # None
                  => rows'[a].hod = rows[a].hod
<1>1. Init => NoStudentsOf
  BY DEF Init, NoStudentsOf
<1>2. TypeOK /\ NoStudentsOf /\ [Next]_vars =>
        NoStudentsOf' /\ [\A a \in Registered : Follow(a)]_vars
  <2> SUFFICES ASSUME TypeOK, NoStudentsOf, [Next]_vars
               PROVE  NoStudentsOf' /\ \A a \in Registered : Follow(a)
    OBVIOUS
  <2> DEFINE Goal == NoStudentsOf' /\ \A a \in Registered : Follow(a)
  <2>1. CASE UNCHANGED <<student, rows>> /\ deleting' \in {deleting, {}}
    BY <2>1 DEF NoStudentsOf, Registered
  <2>2. CASE Request
    <3>1. ASSUME NEW u \in Staff,
                 DeleteStaff(u) \/ \E e \in School \cup Department : RegisterStaff(u, e)
          PROVE  Goal
      BY <2>1, <3>1 DEF DeleteStaff, RegisterStaff
    <3>2. ASSUME NEW a \in Applicant, NEW s \in School, RegisterStudent(a, s)
          PROVE  Goal
      <4>1. /\ student' = [student EXCEPT ![a] =
                             [NoStudent EXCEPT !.account_school = s, !.school = s]]
            /\ rows' = rows /\ deleting' = deleting
        BY <3>2 DEF RegisterStudent
      <4>2. student'[a].department = None
        BY <4>1 DEF NoStudent, TypeOK
      <4>3. \A b \in Applicant \ {a} : student'[b] = student[b]
        BY <4>1 DEF TypeOK
      <4>4. NoStudentsOf'
        BY <4>1, <4>2, <4>3, RegistryAssumption DEF NoStudentsOf, Registered
      <4>5. QED
        BY <4>1, <4>4
    <3>3. ASSUME NEW a \in Applicant, NEW d \in Ref(Department), NEW s \in School,
                 UpdateProfile(a, s, d)
          PROVE  Goal
      BY <3>3 DEF UpdateProfile, Beside, NoStudentsOf
    <3>4. ASSUME NEW a \in Applicant, NEW d \in Ref(Department), NEW p \in Ref(Programme),
                 NEW x \in Ref(Specialization), Apply(a, d, p, x)
          PROVE  Goal
      <4>1. deleting' = {} /\ ~rows[a].created
        BY <3>4 DEF Apply, Beside
      <4>2. \A b \in Applicant \ {a} : rows'[b] = rows[b]
        BY <3>4 DEF Apply, TypeOK
      <4>3. QED
        BY <4>1, <4>2 DEF NoStudentsOf, Registered
    <3>5. ASSUME NEW a \in Applicant, NEW d \in Ref(Department), NEW p \in Ref(Programme),
                 NEW x \in Ref(Specialization), Resubmit(a, d, p, x)
          PROVE  Goal
      BY <3>5 DEF Resubmit, Beside, NoStudentsOf
    <3>6. QED
      BY <2>2, <3>1, <3>2, <3>3, <3>4, <3>5 DEF Request
  <2>3. ASSUME NEW s \in School, CommitSchool(s)
        PROVE  Goal
    <3>1. /\ deleting' = {} /\ \A a \in Registered : student[a].school # s
          /\ rows' = [a \in Applicant |->
                        [rows[a] EXCEPT !.office = IF @ = s THEN None ELSE @]]
      BY <2>3 DEF CommitSchool
    <3>2. \A a \in Applicant : rows[a] \in RowsRow
      BY ProfileFacts
    <3>3. ASSUME NEW a \in Registered
          PROVE  Follow(a)
      <4>1. /\ rows'[a].hod = rows[a].hod
            /\ rows[a].office # s => rows'[a].office = rows[a].office
        BY <3>1, <3>2 DEF RowsRow, Registered
      <4>2. student[a].school # s
        BY <3>1
      <4>3. QED
        BY <4>1, <4>2
    <3>4. QED
      BY <3>1, <3>3 DEF NoStudentsOf
  <2>4. ASSUME NEW d \in Department, CommitDepartment(d)
        PROVE  Goal
    <3>1. /\ deleting' = {} /\ \A a \in Registered : student[a].department # d
          /\ rows' = [a \in Applicant |-> RowsWithout(rows[a], d)]
      BY <2>4 DEF CommitDepartment, NoStudentsOf
    <3>2. \A a \in Applicant : rows[a] \in RowsRow
      BY ProfileFacts
    <3>3. ASSUME NEW a \in Registered
          PROVE  Follow(a)
      <4>1. /\ rows'[a].office = rows[a].office
            /\ rows[a].hod # d => rows'[a].hod = rows[a].hod
        BY <3>1, <3>2 DEF RowsRow, RowsWithout, Registered
      <4>2. student[a].department # d
        BY <3>1
      <4>3. QED
        BY <4>1, <4>2
    <3>4. QED
      BY <3>1, <3>3 DEF NoStudentsOf
  <2>5. ASSUME NEW entry \in Deletable, Check(entry)
        PROVE  Goal
    <3>1. entry \in Department => StudentsWith(entry) = {}
      BY <2>5, DistinctAssumption DEF Check, CheckDepartment, Unused
    <3>2. deleting' = {entry} /\ UNCHANGED <<student, rows>>
      BY <2>5 DEF Check
    <3>3. QED
      BY <3>1, <3>2 DEF NoStudentsOf, StudentsWith, Registered
  <2>6. CASE Creation
    BY <2>1, <2>6 DEF Creation, CreateSchool, CreateDepartment, CreateProgramme,
       CreateSpecialization
  <2>7. CASE \/ \E p \in Programme : CommitProgramme(p)
             \/ \E x \in Specialization : CommitSpecialization(x)
    BY <2>1, <2>7 DEF CommitProgramme, CommitSpecialization
  <2>8. CASE Seed \/ Rollback \/ UNCHANGED vars
    BY <2>1, <2>8 DEF Seed, Rollback, vars
  <2>9. QED
    BY <2>2, <2>3, <2>4, <2>5, <2>6, <2>7, <2>8, Requests DEF Deletion
<1>3. QED
  BY <1>1, <1>2, NothingDangles, PTL DEF Spec, RowsFollowStudents
==============================================================================
