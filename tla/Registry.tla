------------------------------- MODULE Registry -------------------------------
(***************************************************************************)
(* Schools, departments, programmes and specializations, and everything    *)
(* that refers to them: staff accounts, student profiles and the stage     *)
(* rows of applications.  A deletion checks some of the references, and    *)
(* commits later; at the commit the ORM sets to NULL the references it     *)
(* knows as relationships, and the database refuses to set a NOT NULL      *)
(* column or to leave any other reference dangling.                        *)
(*                                                                         *)
(* Entries are named by their code.  No reference to a deleted entry       *)
(* survives, so that an entry created again under its code is a new one.   *)
(***************************************************************************)
EXTENDS Integers, FiniteSets

CONSTANTS
  School, Department, Programme, Specialization,   \* codes
  Staff, Applicant,                                \* accounts
  None,                                            \* a reference that is NULL
  Seeds,       \* seeding_logic's data: phase and school of a department,
               \* department of a programme, programme of a specialization
  Concurrent,  \* kinds of requests that run beside a deletion
  WholeForms   \* no form carries a programme without a specialization, or
               \* the other way round

Kinds == {"department", "programme", "specialization", "staff", "student",
          "profile", "application", "seed"}
Phase == 1..3
Ref(S) == S \cup {None}

ASSUME RegistryAssumption ==
  /\ None \notin School \cup Department \cup Programme \cup Specialization
  /\ Seeds \in [phase : [Department -> Phase], school : [Department -> Ref(School)],
                programme : [Programme -> Department],
                specialization : [Specialization -> Programme]]
  /\ \A d \in Department : Seeds.phase[d] = 1 => Seeds.school[d] # None
  /\ Concurrent \subseteq Kinds
  /\ WholeForms \in BOOLEAN

(* The identifiers of different tables are different, and none of them is  *)
(* NULL or the mark of an account there is not.                            *)
ASSUME DistinctAssumption ==
  /\ School \cap Department = {} /\ School \cap Programme = {}
  /\ School \cap Specialization = {} /\ Department \cap Programme = {}
  /\ Department \cap Specialization = {} /\ Programme \cap Specialization = {}
  /\ "absent" \notin School \cup Department \cup {None}

VARIABLES
  schools,          \* the schools there are
  phase,            \* phase_number of each department, 0: there is none
  school_of,        \* its school_id
  department_of,    \* department_id of each programme, None: there is none
  programme_of,     \* programme_id of each specialization
  staff,            \* what each staff account is assigned to, or "absent"
  student,          \* the profile of each applicant, or NoStudent
  rows,             \* what the rows of each application refer to
  deleting          \* the deletions that have passed their checks

tables == <<schools, phase, school_of, department_of, programme_of>>
vars == <<tables, staff, student, rows, deleting>>

(* account_school is User.school_id, which only the registration sets. *)
NoStudent == [account_school |-> None, school |-> None, department |-> None,
              programme |-> None, specialization |-> None]
NoRows == [office |-> None, hod |-> None, desks |-> {}, orphans |-> FALSE, created |-> FALSE]

departments == {d \in Department : phase[d] # 0}
programmes == {p \in Programme : department_of[p] # None}
specializations == {x \in Specialization : programme_of[x] # None}
Registered == {a \in Applicant : student[a] # NoStudent}

(* Every reference is NULL or to an entry there is.                        *)
TypeOK ==
  /\ schools \subseteq School
  /\ phase \in [Department -> Phase \cup {0}]
  /\ school_of \in [Department -> Ref(schools)]
  /\ department_of \in [Programme -> Ref(departments)]
  /\ programme_of \in [Specialization -> Ref(programmes)]
  /\ staff \in [Staff -> Ref(schools \cup departments) \cup {"absent"}]
  /\ student \in [Applicant -> [account_school : Ref(schools),
                                school : Ref(schools), department : Ref(departments),
                                programme : Ref(programmes),
                                specialization : Ref(specializations)]]
  /\ rows \in [Applicant -> [office : Ref(schools), hod : Ref(departments),
                             desks : SUBSET departments, orphans : BOOLEAN,
                             created : BOOLEAN]]
  /\ deleting \subseteq School \cup Department \cup Programme \cup Specialization

Init ==
  /\ schools = {}
  /\ phase = [d \in Department |-> 0]
  /\ school_of = [d \in Department |-> None]
  /\ department_of = [p \in Programme |-> None]
  /\ programme_of = [x \in Specialization |-> None]
  /\ staff = [u \in Staff |-> "absent"]
  /\ student = [a \in Applicant |-> NoStudent]
  /\ rows = [a \in Applicant |-> NoRows]
  /\ deleting = {}

(* A request of this kind may run between the two halves of a deletion.    *)
Beside(kind) == deleting = {} \/ kind \in Concurrent

------------------------------------------------------------------------------
(* Creations.  What a code resolved to must still be there at the commit.  *)

CreateSchool(s) ==
  /\ s \notin schools /\ deleting = {}
  /\ schools' = schools \cup {s}
  /\ UNCHANGED <<phase, school_of, department_of, programme_of, staff, student, rows, deleting>>

(* "Academic Departments (Phase 1) must be linked to a School."            *)
CreateDepartment(d, number, s) ==
  /\ d \notin departments /\ Beside("department")
  /\ s \in Ref(schools)
  /\ number = 1 => s # None
  /\ phase' = [phase EXCEPT ![d] = number]
  /\ school_of' = [school_of EXCEPT ![d] = s]
  /\ UNCHANGED <<schools, department_of, programme_of, staff, student, rows, deleting>>

CreateProgramme(p, d) ==
  /\ p \notin programmes /\ d \in departments /\ Beside("programme")
  /\ department_of' = [department_of EXCEPT ![p] = d]
  /\ UNCHANGED <<schools, phase, school_of, programme_of, staff, student, rows, deleting>>

CreateSpecialization(x, p) ==
  /\ x \notin specializations /\ p \in programmes /\ Beside("specialization")
  /\ programme_of' = [programme_of EXCEPT ![x] = p]
  /\ UNCHANGED <<schools, phase, school_of, department_of, staff, student, rows, deleting>>

(* register_user for staff: a school or a department, not both; heads and  *)
(* deans differ in nothing that matters here.                              *)
RegisterStaff(u, entry) ==
  /\ staff[u] = "absent" /\ Beside("staff")
  /\ entry \in schools \cup departments
  /\ staff' = [staff EXCEPT ![u] = entry]
  /\ UNCHANGED <<tables, student, rows, deleting>>

DeleteStaff(u) ==
  /\ staff[u] # "absent" /\ Beside("staff")
  /\ staff' = [staff EXCEPT ![u] = "absent"]
  /\ UNCHANGED <<tables, student, rows, deleting>>

(* create_student: the account and the profile, both with the school.      *)
RegisterStudent(a, s) ==
  /\ a \notin Registered /\ s \in schools /\ Beside("student")
  /\ student' = [student EXCEPT ![a] = [NoStudent EXCEPT !.account_school = s, !.school = s]]
  /\ UNCHANGED <<tables, staff, rows, deleting>>

(* update_student_profile: any school, any department or none; programme    *)
(* and specialization are not columns of the form and are ignored.         *)
UpdateProfile(a, s, d) ==
  /\ a \in Registered /\ Beside("profile")
  /\ s \in schools /\ d \in Ref(departments)
  /\ student' = [student EXCEPT ![a].school = s, ![a].department = d]
  /\ UNCHANGED <<tables, staff, rows, deleting>>

------------------------------------------------------------------------------
(* A code that is not sent leaves the student's reference alone.           *)
Sent(code, reference) == IF code = None THEN reference ELSE code

(* Mutant of Offered: the specialization is not compared with the          *)
(* programme. *)
OfferedSomewhere(st, d, p, x) ==
  /\ d # None => d \in departments
  /\ p # None =>
       /\ p \in programmes
       /\ Sent(d, st.department) # None => department_of[p] = Sent(d, st.department)
  /\ x # None => x \in specializations

(* The programme must be one of the department, the specialization one of  *)
(* the programme, if the student has one.                                  *)
Offered(st, d, p, x) ==
  /\ d # None => d \in departments
  /\ p # None =>
       /\ p \in programmes
       /\ Sent(d, st.department) # None => department_of[p] = Sent(d, st.department)
  /\ x # None =>
       /\ x \in specializations
       /\ Sent(p, st.programme) # None => programme_of[x] = Sent(p, st.programme)

Enrolled(st, d, p, x) ==
  [st EXCEPT !.department = Sent(d, @), !.programme = Sent(p, @),
             !.specialization = Sent(x, @)]

Form(p, x) == WholeForms => (p = None <=> x = None)

(* POST /api/applications/create, for an applicant without application;    *)
(* the rows are those of create_application_for_student.                   *)
Apply(a, d, p, x) ==
  /\ a \in Registered /\ ~rows[a].created /\ Beside("application")
  /\ Sent(d, student[a].department) # None
  /\ Form(p, x) /\ Offered(student[a], d, p, x)
  /\ student' = [student EXCEPT ![a] = Enrolled(@, d, p, x)]
  /\ rows' = [rows EXCEPT ![a] =
       [office |-> student[a].school, hod |-> Sent(d, student[a].department),
        desks |-> {e \in departments : phase[e] = 2}, orphans |-> FALSE, created |-> TRUE]]
  /\ UNCHANGED <<tables, staff, deleting>>

(* PATCH /resubmit, after a rejection: the profile changes, the rows keep  *)
(* their references.                                                       *)
Resubmit(a, d, p, x) ==
  /\ a \in Registered /\ rows[a].created /\ Beside("application")
  /\ Form(p, x) /\ Offered(student[a], d, p, x)
  /\ student' = [student EXCEPT ![a] = Enrolled(@, d, p, x)]
  /\ UNCHANGED <<tables, staff, rows, deleting>>

------------------------------------------------------------------------------
(* Deletions: the checks ...                                               *)

StaffOf(entry) == {u \in Staff : staff[u] = entry}
StudentsWith(entry) ==
  {a \in Registered : entry \in {student[a].department, student[a].programme,
                                 student[a].specialization}}
AccountsOf(s) == StaffOf(s) \cup {a \in Registered : student[a].account_school = s}

(* Mutant of Unlinked: only the departments are looked at. *)
UnlinkedFromDepartments(s) == \A d \in departments : school_of[d] # s

(* delete_school: no department and no account refers to it.               *)
Unlinked(s) ==
  /\ \A d \in departments : school_of[d] # s
  /\ AccountsOf(s) = {}

(* Mutant of Unused: students are not looked at. *)
UnusedByStaff(d) == StaffOf(d) = {}

(* delete_department: no student and no account refers to it.              *)
Unused(d) == StudentsWith(d) = {} /\ StaffOf(d) = {}

CheckSchool(s) == s \in schools /\ Unlinked(s)
CheckDepartment(d) == d \in departments /\ Unused(d)
CheckProgramme(p) ==
  /\ p \in programmes /\ StudentsWith(p) = {}
  /\ \A x \in specializations : programme_of[x] # p
CheckSpecialization(x) == x \in specializations /\ StudentsWith(x) = {}

(* One administrator deletes at a time.                                    *)
Check(entry) ==
  /\ deleting = {}
  /\ \/ entry \in School /\ CheckSchool(entry)
     \/ entry \in Department /\ CheckDepartment(entry)
     \/ entry \in Programme /\ CheckProgramme(entry)
     \/ entry \in Specialization /\ CheckSpecialization(entry)
  /\ deleting' = {entry}
  /\ UNCHANGED <<tables, staff, student, rows>>

(* ... and the commits.                                                    *)

(* What refers to the entry becomes unassigned.                            *)
Unassigned(entry) == [u \in Staff |-> IF staff[u] = entry THEN None ELSE staff[u]]

(* Student.school_id is NOT NULL; users, departments and stages lose the   *)
(* school.                                                                 *)
CommitSchool(s) ==
  /\ s \in deleting \cap schools
  /\ \A a \in Registered : student[a].school # s
  /\ schools' = schools \ {s}
  /\ school_of' = [d \in Department |-> IF school_of[d] = s THEN None ELSE school_of[d]]
  /\ staff' = Unassigned(s)
  /\ rows' = [a \in Applicant |->
                [rows[a] EXCEPT !.office = IF @ = s THEN None ELSE @]]
  /\ student' = [a \in Applicant |->
                   [student[a] EXCEPT !.account_school = IF @ = s THEN None ELSE @]]
  /\ deleting' = {}
  /\ UNCHANGED <<phase, department_of, programme_of>>

(* Mutant of RowsWithout: only the row of the head loses the department. *)
RowsWithoutHead(r, d) == [r EXCEPT !.hod = IF @ = d THEN None ELSE @]

RowsWithout(r, d) ==
  [r EXCEPT !.hod = IF @ = d THEN None ELSE @,
            !.desks = @ \ {d},
            !.orphans = @ \/ d \in r.desks]

(* Programme.department_id is NOT NULL; users, students and stages lose    *)
(* the department.                                                         *)
CommitDepartment(d) ==
  /\ d \in deleting \cap departments
  /\ \A p \in programmes : department_of[p] # d
  /\ phase' = [phase EXCEPT ![d] = 0]
  /\ school_of' = [school_of EXCEPT ![d] = None]
  /\ staff' = Unassigned(d)
  /\ student' = [a \in Applicant |->
                   [student[a] EXCEPT !.department = IF @ = d THEN None ELSE @]]
  /\ rows' = [a \in Applicant |-> RowsWithout(rows[a], d)]
  /\ deleting' = {}
  /\ UNCHANGED <<schools, department_of, programme_of>>

(* Specialization.programme_id is NOT NULL, and the foreign key of the     *)
(* students refuses the deletion.                                          *)
CommitProgramme(p) ==
  /\ p \in deleting \cap programmes
  /\ \A x \in specializations : programme_of[x] # p
  /\ StudentsWith(p) = {}
  /\ department_of' = [department_of EXCEPT ![p] = None]
  /\ deleting' = {}
  /\ UNCHANGED <<schools, phase, school_of, programme_of, staff, student, rows>>

CommitSpecialization(x) ==
  /\ x \in deleting \cap specializations
  /\ StudentsWith(x) = {}
  /\ programme_of' = [programme_of EXCEPT ![x] = None]
  /\ deleting' = {}
  /\ UNCHANGED <<schools, phase, school_of, department_of, staff, student, rows>>

(* The database refuses, or the request dies: rollback.                    *)
Rollback ==
  /\ deleting # {}
  /\ deleting' = {}
  /\ UNCHANGED <<tables, staff, student, rows>>

------------------------------------------------------------------------------
(* seed_all, at every start of a server: it creates what is missing and    *)
(* puts phases and schools of its departments right.  Programmes and       *)
(* specializations that exist stay where they are.                         *)

(* Mutant of SeededSchoolOf: departments that exist are not linked again. *)
SeededSchoolOfNew(numbers, links) ==
  [d \in Department |-> IF numbers[d] # 0 THEN links[d] ELSE Seeds.school[d]]

SeededSchoolOf(numbers, links) ==
  [d \in Department |-> IF Seeds.school[d] # None THEN Seeds.school[d] ELSE links[d]]

SeededProgrammes(parents) ==
  [p \in Programme |-> IF parents[p] = None THEN Seeds.programme[p] ELSE parents[p]]

Seed ==
  /\ Beside("seed")
  /\ schools' = School
  /\ phase' = Seeds.phase
  /\ school_of' = SeededSchoolOf(phase, school_of)
  /\ department_of' = SeededProgrammes(department_of)
  /\ programme_of' = [x \in Specialization |->
       IF programme_of[x] = None THEN Seeds.specialization[x] ELSE programme_of[x]]
  /\ UNCHANGED <<staff, student, rows, deleting>>

Next ==
  \/ \E s \in School : \/ CreateSchool(s) \/ CommitSchool(s)
                       \/ \E a \in Applicant : RegisterStudent(a, s)
  \/ \E d \in Department : \/ CommitDepartment(d)
                           \/ \E n \in Phase, s \in Ref(School) : CreateDepartment(d, n, s)
                           \/ \E p \in Programme : CreateProgramme(p, d)
  \/ \E p \in Programme : \/ CommitProgramme(p)
                          \/ \E x \in Specialization : CreateSpecialization(x, p)
  \/ \E x \in Specialization : CommitSpecialization(x)
  \/ \E entry \in School \cup Department \cup Programme \cup Specialization : Check(entry)
  \/ Rollback
  \/ \E u \in Staff : DeleteStaff(u) \/ \E e \in School \cup Department : RegisterStaff(u, e)
  \/ \E a \in Applicant, d \in Ref(Department) :
       \/ \E s \in School : UpdateProfile(a, s, d)
       \/ \E p \in Ref(Programme), x \in Ref(Specialization) :
            Apply(a, d, p, x) \/ Resubmit(a, d, p, x)
  \/ Seed

Spec == Init /\ [][Next]_vars

------------------------------------------------------------------------------
(* "Reassign or remove linked staff first": no deletion leaves an account  *)
(* without the school or department it works for.                          *)
StaffStayAssigned == \A u \in Staff : staff[u] # None

(* "Reassign or delete its departments first": an academic department      *)
(* always belongs to a school that exists.                                 *)
AcademicDepartmentsHaveSchools ==
  \A d \in departments : phase[d] = 1 => school_of[d] \in schools

(* The rows for the School Office, the dean and the head of department     *)
(* keep whom they wait for as long as the student is of that school and    *)
(* department: the checks on students protect the rows too, which no       *)
(* check looks at.                                                         *)
RowsFollowStudents ==
  [][\A a \in Registered :
       /\ rows[a].created /\ rows[a].office = student[a].school
            => rows'[a].office = rows[a].office
       /\ rows[a].created /\ rows[a].hod = student[a].department /\ rows[a].hod # None
            => rows'[a].hod = rows[a].hod]_vars

(* "Specialization MUST belong to the selected Programme": as long as the  *)
(* forms are whole, it does, however programmes are deleted, created again *)
(* under their code or seeded meanwhile.                                   *)
EnrolmentsHangTogether ==
  \A a \in Applicant : LET st == student[a] IN
    st.specialization # None /\ st.programme # None =>
      programme_of[st.specialization] = st.programme
==============================================================================
