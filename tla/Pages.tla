-------------------------------- MODULE Pages --------------------------------
(***************************************************************************)
(* What the pages say of the application of NoDues: the progress and the   *)
(* flags of the student's GET /my, the place the application is at by GET  *)
(* /status, and the place by the reviewers' overview.  All of it is        *)
(* computed from the rows, by a rule of its own on each page.              *)
(***************************************************************************)
EXTENDS NoDues

Rows == {s \in Stages : stage[s] # "absent"}
RowsIn(st) == {s \in Rows : stage[s] = st}
Here == {s \in Rows : AtCurrentLevel(s)}

(* Mutant of Progress: every decision counts as progress. *)
ProgressOfDecided ==
  IF status = "completed" THEN 100
  ELSE (100 * Cardinality(Rows \ RowsIn("pending"))) \div Cardinality(Rows)

(* progress_percentage of get_my_application.                              *)
Progress ==
  IF status = "completed" THEN 100
  ELSE (100 * Cardinality(RowsIn("approved"))) \div Cardinality(Rows)

(* Its flag is_rejected, by which rejection_details are shown.             *)
FlaggedRejected == RowsIn("rejected") # {}

(* current_location of get_application_status: every rejected row, or the  *)
(* pending rows of the current level.                                      *)
Place ==
  CASE status = "rejected" -> [kind |-> "rejected", rows |-> RowsIn("rejected")]
    [] status = "completed" -> [kind |-> "certificate", rows |-> {}]
    [] OTHER -> [kind |-> "pending", rows |-> RowsIn("pending") \cap Here]

(* current_location of list_all_applications: what the rows of the current *)
(* level say, unless the application is completed.                         *)
OverviewPlace ==
  LET shown == IF status = "completed" THEN {} ELSE Here IN
  [rejected |-> RowsIn("rejected") \cap shown, pending |-> RowsIn("pending") \cap shown]

------------------------------------------------------------------------------
(* The pages never contradict each other: /my flags a rejection exactly    *)
(* when /status names the rows that rejected, shows 100 percent exactly    *)
(* when /status announces the certificate, and at any other time /status   *)
(* names somebody the application waits for, whose approval approve_stage  *)
(* accepts; the overview names the same rows to the reviewers.             *)
PagesAgree ==
  /\ FlaggedRejected <=> Place.kind = "rejected"
  /\ Progress = 100 <=> Place.kind = "certificate"
  /\ Place.kind # "certificate" => Place.rows # {}
  /\ Place.rows = IF Place.kind = "rejected" THEN OverviewPlace.rejected
                  ELSE OverviewPlace.pending
==============================================================================
