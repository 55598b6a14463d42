-------------------------------- MODULE NoDues --------------------------------
(***************************************************************************)
(* The life of one no-dues application, from the commit that created it:   *)
(* decisions of verifiers and administrators, resubmission by the student  *)
(* and the certificate.  One action per endpoint; each request runs alone, *)
(* from its first read to its last commit (ApprovalTx takes requests       *)
(* apart).                                                                 *)
(***************************************************************************)
EXTENDS Waterfall

CONSTANTS
  Hostel,         \* the row of department HST, if that department exists
  Exempt,         \* phase-2 rows a school without lab clearance does not get
  AdminActs,      \* whether administrators decide on stages
  HostelChanges   \* where a student changes is_hosteller: "resubmission", "profile"

ASSUME HostelAssumption ==
  /\ Hostel \subseteq Stages
  /\ \A s, t \in Hostel : s = t
  /\ \A s \in Hostel : LevelOf[s] = 4
ASSUME ExemptAssumption == Exempt \subseteq Stages \ Hostel
(* The School Office row is generated for every application. *)
ASSUME OfficeAssumption ==
  \E s \in Stages \ (Hostel \cup Exempt) : LevelOf[s] = 1
ASSUME SwitchAssumption ==
  AdminActs \in BOOLEAN /\ HostelChanges \subseteq {"resubmission", "profile"}

VARIABLES
  stage,                \* ApplicationStage.status of each row
  verified_by,          \* who ApplicationStage.verified_by refers to
  status,               \* Application.status
  current_stage_order,  \* Application.current_stage_order
  is_completed,         \* Application.is_completed
  is_hosteller,         \* Student.is_hosteller
  certificate           \* Certificate row: "none", or what its pdf_url is

app == <<status, current_stage_order, is_completed>>
vars == <<stage, verified_by, app, is_hosteller, certificate>>

Signatory == {"none", "verifier", "admin"}

TypeOK ==
  /\ stage \in [Stages -> StageStatus]
  /\ verified_by \in [Stages -> Signatory]
  /\ status \in AppStatus
  /\ current_stage_order \in Level \cup {DONE}
  /\ is_completed \in BOOLEAN
  /\ is_hosteller \in BOOLEAN
  /\ certificate \in {"none", "empty_url", "stored"}

------------------------------------------------------------------------------
(* The rows create_application_for_student generates: all of them pending, *)
(* without the hostel for a student who is not a hosteller and without the *)
(* exempted laboratory.                                                    *)
Init ==
  /\ is_hosteller \in BOOLEAN
  /\ \E exempt \in BOOLEAN :
       stage = [s \in Stages |-> IF \/ s \in Hostel /\ ~is_hosteller
                                    \/ s \in Exempt /\ exempt
                                 THEN "absent" ELSE "pending"]
  /\ verified_by = [s \in Stages |-> "none"]
  /\ status = "pending"
  /\ current_stage_order = 1
  /\ is_completed = FALSE
  /\ certificate = "none"

------------------------------------------------------------------------------
(* generate_certificate_pdf: rendering fails or the PDF is too large (the  *)
(* row stays as it was), the upload fails (an empty URL is saved), or all  *)
(* goes well.  Calling it twice in a request gives no other outcomes.      *)
Generate(cert) == {cert, "empty_url", "stored"}

Row(from) == [status |-> from, order |-> current_stage_order,
              is_completed |-> is_completed]

SetRow(row) ==
  /\ status' = row.status
  /\ current_stage_order' = row.order
  /\ is_completed' = row.is_completed

(* Mutant of Decide: the row is not flushed before the waterfall reads it. *)
DecideWithoutFlush(s, decision, who, from) ==
  /\ stage' = [stage EXCEPT ![s] = decision]
  /\ verified_by' = [verified_by EXCEPT ![s] = who]
  /\ SetRow(Advance(Row(from), stage))
  /\ UNCHANGED is_hosteller

(* A decision on row s is written and flushed, and the waterfall run on    *)
(* the rows as they are then; from is the status the application row       *)
(* brings to it.                                                           *)
Decide(s, decision, who, from) ==
  /\ stage' = [stage EXCEPT ![s] = decision]
  /\ verified_by' = [verified_by EXCEPT ![s] = who]
  /\ SetRow(Advance(Row(from), stage'))
  /\ UNCHANGED is_hosteller

(* The certificate of an application that ends the request completed.      *)
CertifyIf(completes) ==
  certificate' \in IF completes THEN Generate(certificate) ELSE {certificate}

(* Mutant of AtCurrentLevel: a verifier may be ahead of the application. *)
AtCurrentLevelOrAbove(s) == LevelOf[s] >= current_stage_order

(* "CRITICAL CHECK: Ensure application is actually AT this level".         *)
AtCurrentLevel(s) == LevelOf[s] = current_stage_order

------------------------------------------------------------------------------
(* approve_stage, called by a verifier through POST /{stage_id}/approve.   *)
(* Nothing asks for the row to be pending: a rejected row can be approved. *)
ApproveStage(s) ==
  /\ stage[s] \in {"pending", "rejected"}
  /\ AtCurrentLevel(s)
  /\ Decide(s, "approved", "verifier", status)
  /\ CertifyIf(status' = "completed")

(* reject_stage, through POST /{stage_id}/reject: the row may have any     *)
(* status, so an approval on the current level can be withdrawn.           *)
RejectStage(s) ==
  /\ stage[s] # "absent"
  /\ AtCurrentLevel(s)
  /\ Decide(s, "rejected", "verifier", status)
  /\ UNCHANGED certificate

(* The administrator's branch of POST /{stage_id}/approve: any level.      *)
AdminApprove(s) ==
  /\ AdminActs
  /\ stage[s] = "pending"
  /\ Decide(s, "approved", "admin", status)
  /\ CertifyIf(status' = "completed")

(* An administrator's rejection writes the application's status itself and *)
(* does not run the waterfall.                                             *)
RejectApplication(s) ==
  /\ stage' = [stage EXCEPT ![s] = "rejected"]
  /\ verified_by' = [verified_by EXCEPT ![s] = "admin"]
  /\ status' = "rejected"
  /\ UNCHANGED <<current_stage_order, is_completed, is_hosteller, certificate>>

(* The administrator's branch of POST /{stage_id}/reject: any level.       *)
AdminReject(s) ==
  /\ AdminActs
  /\ stage[s] = "pending"
  /\ RejectApplication(s)

(* POST /admin/override-stage, approve: any row in any status.  A rejected *)
(* application is revived first.  Only a completion the waterfall brings   *)
(* about generates a certificate.                                          *)
OverrideApprove(s) ==
  /\ AdminActs
  /\ stage[s] # "absent"
  /\ Decide(s, "approved", "admin", IF status = "rejected" THEN "pending" ELSE status)
  /\ CertifyIf(status' = "completed" /\ status # "completed")

(* POST /admin/override-stage, reject: any row in any status, of any       *)
(* application, completed ones included.                                   *)
OverrideReject(s) ==
  /\ AdminActs
  /\ stage[s] # "absent"
  /\ RejectApplication(s)

------------------------------------------------------------------------------
Blocked == RejectedAt(stage, current_stage_order)

(* The hostel row is injected or deleted after the hosteller flag.         *)
Injected(hosteller) == {s \in Hostel : hosteller /\ stage[s] = "absent"}

(* session.add(blocked_stage) takes the deletion of that same row back.    *)
Removed(hosteller) == {s \in Hostel \ Blocked : ~hosteller}

(* Mutant of Reopened: the whole level starts again. *)
ReopenedLevel(hosteller) ==
  {s \in Stages : stage[s] # "absent" /\ AtCurrentLevel(s)} \cup Injected(hosteller)

Reopened(hosteller) == Blocked \cup Injected(hosteller)

(* Mutant of Unsigned: the signature under the rejection is kept. *)
UnsignedHostelOnly(hosteller) == Injected(hosteller) \cup Removed(hosteller)

Unsigned(hosteller) == Reopened(hosteller) \cup Removed(hosteller)

(* PATCH /{application_id}/resubmit, with the is_hosteller of the payload  *)
(* (absent in the payload: unchanged).  Two rejected rows on the current   *)
(* level make scalar_one_or_none() raise, and the request fails.  The      *)
(* waterfall is not run.                                                   *)
Resubmit(hosteller) ==
  /\ \A s, t \in Blocked : s = t
  /\ status = "rejected" \/ Blocked # {}
  /\ "resubmission" \in HostelChanges \/ hosteller = is_hosteller
  /\ stage' = [s \in Stages |-> IF s \in Reopened(hosteller) THEN "pending"
                               ELSE IF s \in Removed(hosteller) THEN "absent"
                               ELSE stage[s]]
  /\ verified_by' = [s \in Stages |-> IF s \in Unsigned(hosteller) THEN "none"
                                     ELSE verified_by[s]]
  /\ status' = "in_progress"
  /\ is_hosteller' = hosteller
  /\ UNCHANGED <<current_stage_order, is_completed, certificate>>

(* PATCH /api/students/update: the profile is free to change at any time;  *)
(* the rows of the application stay as they are.                           *)
UpdateProfile(hosteller) ==
  /\ "profile" \in HostelChanges
  /\ is_hosteller' = hosteller
  /\ UNCHANGED <<stage, verified_by, app, certificate>>

(* GET /{application_id}/certificate: a stored file is served; otherwise a *)
(* certificate is generated, whatever the status of the application.       *)
DownloadCertificate ==
  /\ certificate # "stored"
  /\ certificate' \in Generate(certificate)
  /\ UNCHANGED <<stage, verified_by, app, is_hosteller>>

(* delete_user_by_id on the account of a reviewer: the ORM sets            *)
(* verified_by to NULL in every row the account had signed.                *)
DeleteReviewer(signed) ==
  /\ signed # {}
  /\ \E who \in Signatory \ {"none"} : \A s \in signed : verified_by[s] = who
  /\ verified_by' = [s \in Stages |-> IF s \in signed THEN "none"
                                      ELSE verified_by[s]]
  /\ UNCHANGED <<stage, app, is_hosteller, certificate>>

Next ==
  \/ \E s \in Stages : \/ ApproveStage(s) \/ RejectStage(s)
                       \/ AdminApprove(s) \/ AdminReject(s)
                       \/ OverrideApprove(s) \/ OverrideReject(s)
  \/ \E hosteller \in BOOLEAN : Resubmit(hosteller) \/ UpdateProfile(hosteller)
  \/ DownloadCertificate
  \/ \E signed \in SUBSET Stages : DeleteReviewer(signed)

Spec == Init /\ [][Next]_vars

------------------------------------------------------------------------------
(* What holds whoever acts.                                                *)

(* is_completed, the 999 marker and the status agree: the marker and the   *)
(* flag are set together by the waterfall and no later rejection or        *)
(* resubmission (which rewrite the status only) separates them.            *)
CompletionMarkersAgree ==
  /\ is_completed <=> current_stage_order = DONE
  /\ status = "completed" => is_completed

(* An application the student sees as rejected owns a rejected row, whose  *)
(* remarks tell the student why: no sequence of approvals, overrides and   *)
(* hostel changes leaves the rejection standing without its reason.        *)
RejectedHasReason == status = "rejected" => \E s \in Stages : stage[s] = "rejected"

(* A row that waits for a decision carries no signature of an earlier one: *)
(* resubmission clears verified_by with the status, for the hostel row it  *)
(* deletes and injects again too.                                          *)
PendingIsUnsigned ==
  \A s \in Stages : stage[s] \in {"absent", "pending"} => verified_by[s] = "none"

(* No verifier is ever ahead of the application ("This prevents HOD from   *)
(* approving before Office is done"): a row a verifier decided is on the   *)
(* current level or below, however the level got there.                    *)
NoVerifierAhead ==
  \A s \in Stages : verified_by[s] = "verifier" => LevelOf[s] <= current_stage_order

(* No request takes an application back to a lower level.                  *)
LevelNeverDecreases == [][current_stage_order' >= current_stage_order]_vars

(* Nobody has to approve twice because of a resubmission: an approved row  *)
(* stays approved until somebody rejects it (a hostel row may be removed). *)
ApprovalsOutliveResubmission ==
  [][\A s \in Stages \ Hostel :
       stage[s] = "approved" => stage'[s] \in {"approved", "rejected"}]_vars

------------------------------------------------------------------------------
(* What holds as long as administrators do not decide stages and students  *)
(* do not move in or out of the hostel between resubmissions.              *)

BelowApproved ==
  \A s \in Stages : LevelOf[s] < current_stage_order => stage[s] \in {"approved", "absent"}

AboveUntouched ==
  \A s \in Stages : LevelOf[s] > current_stage_order => stage[s] \in {"pending", "absent"}

(* A level is opened only when every row below it is approved, and no row  *)
(* above the open level has been touched: the two halves of the waterfall. *)
LevelsInOrder == BelowApproved /\ AboveUntouched

(* "COMPLETED: All stages done (Certificate issued)".                      *)
CompletedMeansCleared ==
  status = "completed" => \A s \in Stages : stage[s] \in {"approved", "absent"}

(* The application is rejected exactly when a row of its level is.         *)
RejectedIffBlocked == status = "rejected" <=> Blocked # {}

(* Somebody's decision on the current level is still missing or negative.  *)
SomeoneCanAct ==
  \E s \in Stages : stage[s] \in {"pending", "rejected"} /\ LevelOf[s] = current_stage_order

(* "IN_PROGRESS: Being verified by departments": an application that is    *)
(* not completed waits for a verifier whose approval would be accepted; it *)
(* is never stuck on a level with nothing left to decide.                  *)
NeverStuck == status # "completed" => SomeoneCanAct

(* list_pending_stages: the pending rows whose lower levels are approved.  *)
Listed(s) ==
  /\ stage[s] = "pending"
  /\ \A t \in Stages : LevelOf[t] < LevelOf[s] => stage[t] \in {"approved", "absent"}

(* A row in a verifier's task list is one whose approval approve_stage     *)
(* accepts: the list asks for the lower rows, the approval for the level.  *)
ListedCanBeApproved ==
  \A s \in Stages : Listed(s) => LevelOf[s] = current_stage_order

(* "REJECTED: Returned to student (Paused)": a rejected application stays  *)
(* rejected until a row it was rejected on is decided anew or resubmitted; *)
(* the approval of a parallel department does not set it in motion.        *)
PausedUntilReconsidered ==
  [][status = "rejected" /\ status' # "rejected" =>
       \E s \in Blocked : stage'[s] # "rejected"]_vars

------------------------------------------------------------------------------
(* What the repository says and the code does not keep.                    *)

(* The student of a rejected application can resubmit it.                  *)
RejectedCanBeResubmitted == status = "rejected" => \A s, t \in Blocked : s = t
==============================================================================
