-------------------------------- MODULE Intake --------------------------------
(***************************************************************************)
(* The applications of one student: creation in two commits, resubmission, *)
(* and the endpoints that look at the student's latest application.  What  *)
(* the reviewers do to an application is reduced to its status.            *)
(***************************************************************************)
EXTENDS Integers, Sequences, FiniteSets

CONSTANTS
  Request,   \* creations in flight
  Id,        \* display ids of this student: two random characters
  MaxApps,   \* bound: applications
  MaxDeaths  \* bound: requests that die

ASSUME IntakeAssumption ==
  /\ {MaxApps, MaxDeaths} \subseteq Nat
  /\ 0 \notin Id

VARIABLES
  apps,      \* the applications in the order of created_at
  requests,  \* what each creation is doing
  deaths,    \* how many died
  late,      \* history: the applications inserted when the look at those there
             \* are would have been refused by then
  reopened   \* history: the applications resubmitted behind a later one

histories == <<late, reopened>>
vars == <<apps, requests, deaths, histories>>

Status == {"pending", "in_progress", "rejected", "completed"}
Application == [status : Status, display_id : Id \cup {0}]
Idle == [at |-> "idle", id |-> 0, app |-> 0]

TypeOK ==
  /\ apps \in Seq(Application) /\ Len(apps) <= MaxApps
  /\ requests \in [Request -> [at : {"checked", "inserted"}, id : Id, app : 0..MaxApps] \cup {Idle}]
  /\ deaths \in 0..MaxDeaths
  /\ {late, reopened} \subseteq SUBSET (1..Len(apps))
  /\ \A i, j \in 1..Len(apps) :
       apps[i].display_id = apps[j].display_id => i = j \/ apps[i].display_id = 0

Init ==
  /\ apps = <<>>
  /\ requests = [r \in Request |-> Idle]
  /\ deaths = 0
  /\ late = {}
  /\ reopened = {}

Active(i) == apps[i].status \in {"pending", "in_progress"}

(* get_application_by_student, and the queries of /my, of /status, of the  *)
(* administrators' student page and of the creation: the first by          *)
(* created_at, descending.                                                 *)
Latest == Len(apps)

------------------------------------------------------------------------------
(* POST /api/applications/create.                                          *)

(* Mutant of MayApply: a completed application does not count. *)
MayApplyAgain == \A i \in 1..Len(apps) : i = Latest => ~Active(i)

(* create_application_for_student looks at the latest application only.    *)
MayApply == \A i \in 1..Len(apps) : i = Latest => apps[i].status = "rejected"

Taken == {apps[i].display_id : i \in 1..Len(apps)}

(* generate_display_id until no committed application has the id: another  *)
(* creation in flight may have drawn it too.                               *)
FreeIds == Id \ Taken

(* Up to the look at the existing applications.                            *)
Check(r) ==
  /\ requests[r] = Idle /\ MayApply /\ Len(apps) < MaxApps
  /\ \E id \in FreeIds :
       requests' = [requests EXCEPT ![r] = [at |-> "checked", id |-> id, app |-> 0]]
  /\ UNCHANGED <<apps, deaths, histories>>

(* The first commit: application and rows, without display_id.  What has   *)
(* become of the applications since the look does not matter.              *)
Insert(r) ==
  /\ requests[r].at = "checked" /\ Len(apps) < MaxApps
  /\ apps' = Append(apps, [status |-> "pending", display_id |-> 0])
  /\ requests' = [requests EXCEPT ![r] = [at |-> "inserted", id |-> @.id, app |-> Len(apps) + 1]]
  /\ late' = IF MayApply THEN late ELSE late \cup {Len(apps) + 1}
  /\ UNCHANGED <<deaths, reopened>>

(* Mutant of Linked: the row is written as it was created. *)
LinkedWhole(app, id) == [status |-> "pending", display_id |-> id]

(* The columns that the second commit writes.                              *)
Linked(app, id) == [app EXCEPT !.display_id = id]

(* The second commit; display_id is unique, and if it is taken by now the  *)
(* commit fails: the application stays as the first commit left it.        *)
Link(r) ==
  /\ requests[r].at = "inserted"
  /\ LET i == requests[r].app IN
       apps' = IF requests[r].id \in Taken THEN apps
               ELSE [apps EXCEPT ![i] = Linked(@, requests[r].id)]
  /\ requests' = [requests EXCEPT ![r] = Idle]
  /\ UNCHANGED <<deaths, histories>>

Die(r) ==
  /\ requests[r] # Idle /\ deaths < MaxDeaths
  /\ requests' = [requests EXCEPT ![r] = Idle]
  /\ deaths' = deaths + 1
  /\ UNCHANGED <<apps, histories>>

------------------------------------------------------------------------------
(* What becomes of an application.                                         *)

Becomes(i, status) ==
  /\ apps' = [apps EXCEPT ![i].status = status]
  /\ UNCHANGED <<requests, deaths, late>>

(* Approvals and rejections of reviewers.                                  *)
Review(i) ==
  /\ \/ apps[i].status = "pending" /\ Becomes(i, "in_progress")
     \/ Active(i) /\ Becomes(i, "rejected")
     \/ apps[i].status = "in_progress" /\ Becomes(i, "completed")
  /\ UNCHANGED reopened

(* An administrator rejects a row of a completed application.              *)
OverrideReject(i) ==
  apps[i].status = "completed" /\ Becomes(i, "rejected") /\ UNCHANGED reopened

Rejected(i) == apps[i].status = "rejected"

(* resubmit_application, or an administrator approves the rejected rows:   *)
(* of any application, the latest or not.                                  *)
Resubmit(i) ==
  /\ Rejected(i) /\ Becomes(i, "in_progress")
  /\ reopened' = IF i = Latest THEN reopened ELSE reopened \cup {i}

Next ==
  \/ \E r \in Request : Check(r) \/ Insert(r) \/ Link(r) \/ Die(r)
  \/ \E i \in 1..Len(apps) : Review(i) \/ OverrideReject(i) \/ Resubmit(i)

Spec == Init /\ [][Next]_vars

------------------------------------------------------------------------------
(* "You already have an active application", "You have already received   *)
(* your No Dues certificate": behind the latest application, the one the   *)
(* student's pages show, none is active or completed, unless one of two    *)
(* things happened: a later application was inserted although the look at  *)
(* the others was outdated by then, or the student took up an old one      *)
(* behind a later one.  No sequence of decisions, overrides, deaths and    *)
(* resubmissions of the latest application leads there.                    *)
OnlyRacesHide ==
  \A i \in 1..Len(apps) :
    i # Latest /\ ~Rejected(i) => i \in reopened \/ \E j \in late : j > i

(* Nothing about a creation that is still running undoes a decision: an    *)
(* application is pending until somebody decides, and never again.         *)
DecisionsOutliveCreation ==
  [][\A i \in 1..Len(apps) : apps'[i].status = "pending" => apps[i].status = "pending"]_vars
==============================================================================
