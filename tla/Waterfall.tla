------------------------------ MODULE Waterfall ------------------------------
(***************************************************************************)
(* The data every request on a no-dues application works on, and what      *)
(* _update_application_status (services/approval_service.py) makes of it.  *)
(*                                                                         *)
(* An application owns stage rows.  Each row has a fixed sequence_order    *)
(* (its level) and a status.  After a decision the "waterfall" lifts the   *)
(* application over every level on which nothing is left to decide.  The   *)
(* operators here give the result of the whole loop at once; the module    *)
(* WaterfallLoop runs the loop iteration by iteration and is compared with *)
(* them.                                                                   *)
(***************************************************************************)
EXTENDS Integers, FiniteSetsExt

CONSTANTS
  Stages,    \* the stage rows an application can own
  LevelOf    \* sequence_order of each of them

(* 1 School Office, 2 HOD, 3 Dean, 4 administrative departments in         *)
(* parallel, 5 Accounts: the only sequence_orders the code ever creates.   *)
Level == 1..5
DONE == 999  \* current_stage_order of a completed application

ASSUME LevelAssumption == LevelOf \in [Stages -> Level]

(* "absent": the application owns no such row. *)
StageStatus == {"absent", "pending", "approved", "rejected"}
AppStatus == {"pending", "in_progress", "rejected", "completed"}

(* The columns of an application row the waterfall reads and writes. *)
AppRow == [status : AppStatus, order : Level \cup {DONE}, is_completed : BOOLEAN]

(* Mutant of Blocking: "greater than" for the current level. *)
BlockingAboveOnly(st, l) ==
  {s \in Stages : st[s] \in {"pending", "rejected"} /\ LevelOf[s] > l}

(* Mutant of Blocking: the scan starts at the first level again. *)
BlockingFromFirstLevel(st, l) == {s \in Stages : st[s] \in {"pending", "rejected"}}

(* Mutant of Blocking: a level with no pending row left counts as done. *)
BlockingWhilePending(st, l) ==
  {s \in Stages : LevelOf[s] >= l /\ \E t \in Stages : LevelOf[t] = LevelOf[s] /\ st[t] = "pending"}

(* Rows at or above level l on which a decision is still missing or        *)
(* negative: the loop cannot pass the level of any of them.                *)
Blocking(st, l) ==
  {s \in Stages : st[s] \in {"pending", "rejected"} /\ LevelOf[s] >= l}

StopLevel(st, l) == Min({LevelOf[s] : s \in Blocking(st, l)})

RejectedAt(st, l) == {s \in Stages : st[s] = "rejected" /\ LevelOf[s] = l}

(* Mutant of Completed: the level after the last one instead of the marker. *)
CompletedAtNextLevel == [status |-> "completed", order |-> 6, is_completed |-> TRUE]

(* Mutant of Completed: the flag is forgotten. *)
CompletedWithoutFlag == [status |-> "completed", order |-> DONE, is_completed |-> FALSE]

Completed == [status |-> "completed", order |-> DONE, is_completed |-> TRUE]

(* Mutant of Advance: the status is not synchronised on a pending level. *)
AdvanceKeepingStatus(app, st) ==
  IF app.status = "completed" THEN app
  ELSE IF Blocking(st, app.order) = {} THEN Completed
  ELSE LET l == StopLevel(st, app.order)
       IN [app EXCEPT !.order = l,
                      !.status = IF RejectedAt(st, l) # {} THEN "rejected" ELSE @]

(* _update_application_status: a completed application is left alone; any  *)
(* other moves to the lowest level that blocks it, and is rejected if a    *)
(* row of that level is, or completes if no level blocks it.               *)
Advance(app, st) ==
  IF app.status = "completed" THEN app
  ELSE IF Blocking(st, app.order) = {} THEN Completed
  ELSE LET l == StopLevel(st, app.order)
       IN [app EXCEPT !.order = l,
                      !.status = IF RejectedAt(st, l) # {} THEN "rejected"
                                                           ELSE "in_progress"]
==============================================================================
