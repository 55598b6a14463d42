---------------------------- MODULE WaterfallLoop ----------------------------
(***************************************************************************)
(* The while loop of _update_application_status, one iteration per step,   *)
(* started from every application row and every assignment of statuses to  *)
(* its stage rows.                                                         *)
(***************************************************************************)
EXTENDS Waterfall

VARIABLES
  stage,    \* status of each stage row; the loop never writes it
  app0,     \* the application row when the loop starts
  app,      \* the row as the loop leaves it after each iteration
  running   \* FALSE once the loop hit a break

vars == <<stage, app0, app, running>>

At(l) == {s \in Stages : stage[s] # "absent" /\ LevelOf[s] = l}

(* Mutant of Above: the next level but one. *)
AboveNext(l) == {s \in Stages : stage[s] # "absent" /\ LevelOf[s] > l + 1}

(* Mutant of Above: the current level is found again. *)
AboveOrAt(l) == {s \in Stages : stage[s] # "absent" /\ LevelOf[s] >= l}

Above(l) == {s \in Stages : stage[s] # "absent" /\ LevelOf[s] > l}

Init ==
  /\ stage \in [Stages -> StageStatus]
  /\ app0 \in AppRow
  /\ app = app0
  /\ running = TRUE

Stop == running' = FALSE /\ UNCHANGED <<stage, app0>>
Go   == UNCHANGED <<stage, app0, running>>

(* "Stop if already completed" *)
AlreadyCompleted ==
  /\ running /\ app.status = "completed"
  /\ UNCHANGED app /\ Stop

(* B. a rejected row on the current level *)
HitRejection ==
  /\ running /\ app.status # "completed"
  /\ \E s \in At(app.order) : stage[s] = "rejected"
  /\ app' = [app EXCEPT !.status = "rejected"] /\ Stop

(* C. a pending row on the current level *)
HitPending ==
  /\ running /\ app.status # "completed"
  /\ \A s \in At(app.order) : stage[s] # "rejected"
  /\ \E s \in At(app.order) : stage[s] = "pending"
  /\ app' = [app EXCEPT !.status = "in_progress"] /\ Stop

LevelCleared ==
  /\ running /\ app.status # "completed"
  /\ \A s \in At(app.order) : stage[s] \notin {"rejected", "pending"}

(* D. move to the next level that has a row, and go round again *)
MoveUp ==
  /\ LevelCleared /\ Above(app.order) # {}
  /\ app' = [app EXCEPT !.order = Min({LevelOf[s] : s \in Above(app.order)}),
                        !.status = "in_progress"]
  /\ Go

(* D. no next level: the application is complete *)
Finish ==
  /\ LevelCleared /\ Above(app.order) = {}
  /\ app' = Completed /\ Stop

Next == AlreadyCompleted \/ HitRejection \/ HitPending \/ MoveUp \/ Finish

(* The loop awaits only the database; nothing but its own iterations       *)
(* decides whether it goes on.                                             *)
Spec == Init /\ [][Next]_vars /\ WF_vars(Next)

TypeOK ==
  /\ stage \in [Stages -> StageStatus]
  /\ app0 \in AppRow
  /\ app \in AppRow
  /\ running \in BOOLEAN

(* Loop invariant: what the rest of the loop will make of the row is what  *)
(* Advance says of the row it started from; when the loop is left, that is *)
(* what the row has become, whatever mixture of statuses its stages had.   *)
LoopInvariant ==
  IF running THEN Advance(app, stage) = Advance(app0, stage)
             ELSE app = Advance(app0, stage)

(* _update_application_status always leaves its loop.                      *)
LoopEnds == <>(~running)
==============================================================================
