----------------------------- MODULE Intake_proofs -----------------------------
(***************************************************************************)
(* One student's applications, for any number of requests, ids and         *)
(* applications, whatever overlaps and dies: only an outdated look or the  *)
(* resubmission of an old application puts a live one behind the latest,   *)
(* and no creation undoes a decision.                                      *)
(***************************************************************************)
EXTENDS Intake, SequenceTheorems, TLAPS

(* What a step does to the applications that are there.                    *)
LEMMA OneChanges ==
  ASSUME apps \in Seq(Application), NEW i \in 1..Len(apps), NEW a \in Application,
         apps' = [apps EXCEPT ![i] = a]
  PROVE  /\ apps' \in Seq(Application)
         /\ Len(apps') = Len(apps)
         /\ apps'[i] = a
         /\ \A j \in 1..Len(apps) : j # i => apps'[j] = apps[j]
<1>1. apps' \in Seq(Application) /\ Len(apps') = Len(apps)
  BY ExceptSeq
<1>2. QED
  BY ExceptSeq, <1>1

LEMMA BecomesFacts ==
  ASSUME apps \in Seq(Application), NEW i \in 1..Len(apps), NEW s \in Status, Becomes(i, s)
  PROVE  /\ apps' \in Seq(Application)
         /\ Len(apps') = Len(apps)
         /\ apps'[i] = [status |-> s, display_id |-> apps[i].display_id]
         /\ \A j \in 1..Len(apps) : j # i => apps'[j] = apps[j]
         /\ UNCHANGED <<requests, deaths, late>>
<1> DEFINE a == [status |-> s, display_id |-> apps[i].display_id]
<1>1. apps[i] \in Application
  BY ElementOfSeq
<1>2. a \in Application /\ [apps[i] EXCEPT !.status = s] = a
  BY <1>1 DEF Application
<1>3. apps' = [apps EXCEPT ![i] = a]
  BY <1>2 DEF Becomes
<1> HIDE DEF a
<1>4. /\ apps' \in Seq(Application) /\ Len(apps') = Len(apps) /\ apps'[i] = a
      /\ \A j \in 1..Len(apps) : j # i => apps'[j] = apps[j]
  BY <1>2, <1>3, OneChanges
<1>5. QED
  BY <1>4 DEF a, Becomes

------------------------------------------------------------------------------
(* The type invariant, without the bounds TLC needs; a creation past its   *)
(* insert knows its application.                                           *)
Shape ==
  /\ apps \in Seq(Application)
  /\ requests \in [Request -> [at : {"idle", "checked", "inserted"}, id : Id \cup {0},
                               app : Nat]]
  /\ \A r \in Request :
       requests[r].at = "inserted" => requests[r].id \in Id /\ requests[r].app \in 1..Len(apps)
  /\ \A r \in Request : requests[r].at = "checked" => requests[r].id \in Id

(* No status returns to pending.                                           *)
NeverPendingAgain ==
  \A i \in 1..Len(apps) : apps'[i].status = "pending" => apps[i].status = "pending"

IntakeInv == Shape /\ OnlyRacesHide

(* Steps that leave the statuses alone, and give one request another       *)
(* state.                                                                  *)
LEMMA SameStatuses ==
  ASSUME IntakeInv, NEW r \in Request, NEW f, requests' = [requests EXCEPT ![r] = f],
         f \in [at : {"idle", "checked", "inserted"}, id : Id \cup {0}, app : Nat],
         f.at # "idle" => f.id \in Id,
         f.at # "inserted",
         apps' \in Seq(Application), Len(apps') = Len(apps),
         \A i \in 1..Len(apps) : apps'[i].status = apps[i].status,
         UNCHANGED histories
  PROVE  IntakeInv' /\ NeverPendingAgain
<1>1. \A q \in Request : requests'[q] = IF q = r THEN f ELSE requests[q]
  BY DEF IntakeInv, Shape
<1>2. Shape'
  BY <1>1 DEF IntakeInv, Shape
<1>3. OnlyRacesHide'
  BY DEF IntakeInv, OnlyRacesHide, Rejected, Latest, histories
<1>4. QED
  BY <1>2, <1>3 DEF IntakeInv, NeverPendingAgain

LEMMA IdleRequest ==
  /\ Idle \in [at : {"idle", "checked", "inserted"}, id : Id \cup {0}, app : Nat]
  /\ Idle.at = "idle"
BY DEF Idle

LEMMA CheckKeeps ==
  ASSUME IntakeInv, NEW r \in Request, Check(r)
  PROVE  IntakeInv' /\ NeverPendingAgain
<1>1. PICK id \in FreeIds :
        requests' = [requests EXCEPT ![r] = [at |-> "checked", id |-> id, app |-> 0]]
  BY DEF Check
<1>2. id \in Id /\ UNCHANGED <<apps, histories>>
  BY DEF FreeIds, Check
<1>3. apps \in Seq(Application)
  BY DEF IntakeInv, Shape
<1> DEFINE f == [at |-> "checked", id |-> id, app |-> 0]
<1>4. /\ f \in [at : {"idle", "checked", "inserted"}, id : Id \cup {0}, app : Nat]
      /\ f.at = "checked" /\ f.id = id /\ requests' = [requests EXCEPT ![r] = f]
  BY <1>1, <1>2
<1> HIDE DEF f
<1>5. QED
  BY <1>2, <1>3, <1>4, SameStatuses

(* The insert is where an outdated look shows: if the latest application   *)
(* is not rejected any more, the new one is late, and accounts for all     *)
(* that come before it.                                                    *)
LEMMA InsertKeeps ==
  ASSUME IntakeInv, NEW r \in Request, Insert(r)
  PROVE  IntakeInv' /\ NeverPendingAgain
<1> DEFINE new == [status |-> "pending", display_id |-> 0]
           n == Len(apps) + 1
           f == [at |-> "inserted", id |-> requests[r].id, app |-> n]
<1>1. new \in Application
  BY DEF Application, Status
<1>2. /\ apps' = Append(apps, new) /\ requests' = [requests EXCEPT ![r] = f]
      /\ requests[r].at = "checked" /\ requests[r].id \in Id
  BY DEF Insert, IntakeInv, Shape
<1>3. late' = (IF MayApply THEN late ELSE late \cup {n}) /\ reopened' = reopened
  BY DEF Insert
<1> HIDE DEF new
<1>4. /\ apps' \in Seq(Application)
      /\ Len(apps) \in Nat /\ Len(apps') = n
      /\ \A i \in 1..Len(apps) : apps'[i] = apps[i]
  BY <1>1, <1>2, AppendProperties, LenProperties DEF IntakeInv, Shape
<1>5. Shape'
  <2>1. f \in [at : {"idle", "checked", "inserted"}, id : Id \cup {0}, app : Nat]
        /\ f.at = "inserted" /\ f.id \in Id /\ f.app = n
    BY <1>2, <1>4
  <2> HIDE DEF f
  <2>2. \A q \in Request : requests'[q] = IF q = r THEN f ELSE requests[q]
    BY <1>2 DEF IntakeInv, Shape
  <2>3. requests' \in [Request -> [at : {"idle", "checked", "inserted"}, id : Id \cup {0},
                                   app : Nat]]
    BY <1>2, <2>1 DEF IntakeInv, Shape
  <2>4. QED
    <3>1. \A q \in Request : q # r /\ requests[q].at = "inserted" => requests[q].app \in 1..n
      BY <1>4 DEF IntakeInv, Shape
    <3>2. n \in 1..n
      BY <1>4
    <3>3. \A q \in Request : requests'[q].at = "inserted" =>
            requests'[q].id \in Id /\ requests'[q].app \in 1..Len(apps')
      BY <1>4, <2>1, <2>2, <3>1, <3>2 DEF IntakeInv, Shape
    <3>4. \A q \in Request : requests'[q].at = "checked" => requests'[q].id \in Id
      BY <2>1, <2>2 DEF IntakeInv, Shape
    <3>5. QED
      BY <1>4, <2>3, <3>3, <3>4 DEF Shape
<1>6. OnlyRacesHide'
  <2> SUFFICES ASSUME NEW i \in 1..Len(apps'), i # Len(apps'), apps'[i].status # "rejected"
               PROVE  i \in reopened' \/ \E j \in late' : j > i
    BY DEF OnlyRacesHide, Latest, Rejected
  <2>1. i \in 1..Len(apps) /\ n > i /\ apps[i].status # "rejected"
    BY <1>4
  <2>2. CASE MayApply
    <3>1. i # Len(apps)
      BY <2>1, <2>2 DEF MayApply, Latest
    <3>2. QED
      BY <1>3, <2>1, <2>2, <3>1 DEF IntakeInv, OnlyRacesHide, Latest, Rejected
  <2>3. CASE ~MayApply
    BY <1>3, <2>1, <2>3
  <2>4. QED
    BY <2>2, <2>3
<1>7. NeverPendingAgain
  BY <1>4 DEF NeverPendingAgain
<1>8. QED
  BY <1>5, <1>6, <1>7 DEF IntakeInv

(* The second commit writes the id, whatever has become of the status.     *)
LEMMA LinkKeeps ==
  ASSUME IntakeInv, NEW r \in Request, Link(r)
  PROVE  IntakeInv' /\ NeverPendingAgain
<1> DEFINE i == requests[r].app
           a == [status |-> apps[i].status, display_id |-> requests[r].id]
<1>1. /\ i \in 1..Len(apps) /\ requests[r].id \in Id
      /\ requests' = [requests EXCEPT ![r] = Idle] /\ UNCHANGED histories
      /\ apps \in Seq(Application)
  BY DEF Link, IntakeInv, Shape
<1>2. a \in Application /\ Linked(apps[i], requests[r].id) = a
  <2>1. apps[i] \in Application
    BY <1>1, ElementOfSeq
  <2>2. QED
    BY <1>1, <2>1 DEF Linked, Application
<1>3. apps' = apps \/ apps' = [apps EXCEPT ![i] = a]
  BY <1>2 DEF Link
<1>4. a.status = apps[i].status
  OBVIOUS
<1> HIDE DEF a
<1>5. /\ apps' \in Seq(Application) /\ Len(apps') = Len(apps)
      /\ \A j \in 1..Len(apps) : apps'[j].status = apps[j].status
  <2>1. CASE apps' = [apps EXCEPT ![i] = a]
    <3>1. /\ apps' \in Seq(Application) /\ Len(apps') = Len(apps) /\ apps'[i] = a
          /\ \A j \in 1..Len(apps) : j # i => apps'[j] = apps[j]
      BY <1>1, <1>2, <2>1, OneChanges
    <3>2. QED
      BY <1>4, <3>1
  <2>2. QED
    BY <1>1, <1>3, <2>1
<1>6. QED
  BY <1>1, <1>5, IdleRequest, SameStatuses

LEMMA DieKeeps ==
  ASSUME IntakeInv, NEW r \in Request, Die(r)
  PROVE  IntakeInv' /\ NeverPendingAgain
<1>1. requests' = [requests EXCEPT ![r] = Idle] /\ UNCHANGED <<apps, histories>>
  BY DEF Die
<1>2. apps \in Seq(Application)
  BY DEF IntakeInv, Shape
<1>3. QED
  BY <1>1, <1>2, IdleRequest, SameStatuses

(* Decisions concern applications that are not rejected; resubmissions of  *)
(* rejected ones are remembered unless they are the latest.                *)
LEMMA DecisionKeeps ==
  ASSUME IntakeInv, NEW i \in 1..Len(apps), Review(i) \/ OverrideReject(i) \/ Resubmit(i)
  PROVE  IntakeInv' /\ NeverPendingAgain
<1>1. PICK s \in Status \ {"pending"} : Becomes(i, s)
  BY DEF Review, OverrideReject, Resubmit, Status
<1>2. /\ apps' \in Seq(Application) /\ Len(apps') = Len(apps)
      /\ apps'[i] = [status |-> s, display_id |-> apps[i].display_id]
      /\ \A j \in 1..Len(apps) : j # i => apps'[j] = apps[j]
      /\ UNCHANGED <<requests, late>>
  BY <1>1, BecomesFacts DEF IntakeInv, Shape
<1>3. Shape'
  BY <1>2 DEF IntakeInv, Shape
<1>4. reopened \subseteq reopened'
  BY DEF Review, OverrideReject, Resubmit
<1>5. ~Rejected(i) \/ i = Len(apps) \/ i \in reopened'
  BY DEF Review, OverrideReject, Resubmit, Active, Rejected, Latest
<1>6. OnlyRacesHide'
  <2> SUFFICES ASSUME NEW j \in 1..Len(apps), j # Len(apps), apps'[j].status # "rejected"
               PROVE  j \in reopened' \/ \E k \in late : k > j
    BY <1>2 DEF OnlyRacesHide, Latest, Rejected
  <2>1. CASE j = i
    BY <1>4, <1>5, <2>1 DEF IntakeInv, OnlyRacesHide, Latest
  <2>2. CASE j # i
    BY <1>2, <1>4, <2>2 DEF IntakeInv, OnlyRacesHide, Latest, Rejected
  <2>3. QED
    BY <2>1, <2>2
<1>7. NeverPendingAgain
  BY <1>1, <1>2 DEF NeverPendingAgain
<1>8. QED
  BY <1>3, <1>6, <1>7 DEF IntakeInv

LEMMA StepKeepsIntakeInv ==
  ASSUME IntakeInv, [Next]_vars
  PROVE  IntakeInv' /\ [NeverPendingAgain]_vars
<1>1. ASSUME NEW r \in Request, Check(r) \/ Insert(r) \/ Link(r) \/ Die(r)
      PROVE  IntakeInv' /\ NeverPendingAgain
  BY <1>1, CheckKeeps, InsertKeeps, LinkKeeps, DieKeeps
<1>2. ASSUME NEW i \in 1..Len(apps), Review(i) \/ OverrideReject(i) \/ Resubmit(i)
      PROVE  IntakeInv' /\ NeverPendingAgain
  BY <1>2, DecisionKeeps
<1>3. CASE UNCHANGED vars
  BY <1>3 DEF vars, histories, IntakeInv, Shape, OnlyRacesHide, Rejected, Latest
<1>4. QED
  BY <1>1, <1>2, <1>3 DEF Next

LEMMA InitIntakeInv == Init => IntakeInv
<1> SUFFICES ASSUME Init
             PROVE  IntakeInv
  OBVIOUS
<1>1. apps \in Seq(Application) /\ Len(apps) = 0
  BY EmptySeq DEF Init
<1>2. QED
  BY <1>1, IdleRequest DEF Init, IntakeInv, Shape, OnlyRacesHide

(* Behind the latest application none is active or completed, unless a     *)
(* later one was inserted after an outdated look, or the student took up   *)
(* an old one: whatever else happens, in any order and with any deaths.    *)
THEOREM WhatHidesApplications == Spec => []OnlyRacesHide
<1>1. IntakeInv /\ [Next]_vars => IntakeInv'
  BY StepKeepsIntakeInv
<1>2. IntakeInv => OnlyRacesHide
  BY DEF IntakeInv
<1>3. QED
  BY <1>1, <1>2, InitIntakeInv, PTL DEF Spec

(* The second commit of a creation undoes no decision that came before it, *)
(* however late it comes, and also if it fails.                            *)
THEOREM CreationUndoesNothing == Spec => DecisionsOutliveCreation
<1>1. IntakeInv /\ [Next]_vars => IntakeInv' /\ [NeverPendingAgain]_vars
  BY StepKeepsIntakeInv
<1>2. QED
  BY <1>1, InitIntakeInv, PTL DEF Spec, DecisionsOutliveCreation, NeverPendingAgain
==============================================================================
