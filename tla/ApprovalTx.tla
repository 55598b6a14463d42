------------------------------ MODULE ApprovalTx ------------------------------
(***************************************************************************)
(* Requests on one application as database transactions.  NoDues lets each *)
(* request run alone; here verifiers' decisions and resubmissions overlap, *)
(* at the points where a request reads, flushes and commits:               *)
(*                                                                         *)
(*   - the row and the application are read once, at the beginning, and    *)
(*     stay in the session's identity map: SELECT ... FOR UPDATE locks the *)
(*     application but does not refresh the object already loaded;         *)
(*   - the flush takes the lock of the stage row;                          *)
(*   - the waterfall reads the other rows: as of the first read on MySQL   *)
(*     (REPEATABLE READ), as committed by now on PostgreSQL (READ          *)
(*     COMMITTED).  It and the commit are one step: whoever commits a      *)
(*     status writes the application too, so nobody does under its lock;   *)
(*   - a commit writes only the columns that differ from the loaded ones.  *)
(***************************************************************************)
EXTENDS Waterfall

CONSTANTS
  Request,          \* the requests in flight at the same time
  RepeatableRead,   \* isolation: REPEATABLE READ, or else READ COMMITTED
  Habits            \* what people do not do, out of AllHabits

(* Reviewers decide pending rows only; a row has one request at a time; a  *)
(* student resubmits when no decision is being taken.                      *)
AllHabits == {"pending_only", "one_per_row", "resubmit_alone"}

ASSUME TxAssumption == RepeatableRead \in BOOLEAN /\ Habits \subseteq AllHabits

(* The School Office row is generated for every application. *)
ASSUME OfficeAssumption == \E s \in Stages : LevelOf[s] = 1

VARIABLES
  stage,     \* committed status of each stage row
  app,       \* committed application row
  pc,        \* how far each request is
  kind,      \* what it does
  rows,      \* the stage rows it writes
  snapshot,  \* the stage rows as of its first read
  loaded     \* its Application object, as read from the database

session == <<kind, rows, snapshot, loaded>>
vars == <<stage, app, pc, session>>

Kind == {"approve", "reject", "resubmit"}

TypeOK ==
  /\ stage \in [Stages -> StageStatus]
  /\ app \in AppRow
  /\ pc \in [Request -> {"idle", "loaded", "flushed"}]
  /\ kind \in [Request -> Kind]
  /\ rows \in [Request -> SUBSET Stages]
  /\ snapshot \in [Request -> [Stages -> StageStatus]]
  /\ loaded \in [Request -> AppRow]

(* create_application_for_student; which rows it generates is NoDues's     *)
(* concern: here all of Stages.                                            *)
NewStages == [s \in Stages |-> "pending"]
NewApp == [status |-> "pending", order |-> 1, is_completed |-> FALSE]

Init ==
  /\ stage = NewStages
  /\ app = NewApp
  /\ pc = [r \in Request |-> "idle"]
  /\ kind = [r \in Request |-> "approve"]
  /\ rows = [r \in Request |-> {}]
  /\ snapshot = [r \in Request |-> NewStages]
  /\ loaded = [r \in Request |-> NewApp]

------------------------------------------------------------------------------
InFlight == {r \in Request : pc[r] # "idle"}

(* The first read of a request; it finds what was committed by then.       *)
Load(r, what, own) ==
  /\ pc[r] = "idle"
  /\ "one_per_row" \in Habits => \A q \in InFlight : rows[q] \cap own = {}
  /\ pc' = [pc EXCEPT ![r] = "loaded"]
  /\ kind' = [kind EXCEPT ![r] = what]
  /\ rows' = [rows EXCEPT ![r] = own]
  /\ snapshot' = [snapshot EXCEPT ![r] = stage]
  /\ loaded' = [loaded EXCEPT ![r] = app]
  /\ UNCHANGED <<stage, app>>

ByHabit(s) ==
  /\ "pending_only" \in Habits => stage[s] = "pending"
  /\ "resubmit_alone" \in Habits => \A q \in InFlight : kind[q] # "resubmit"

(* approve_stage up to its checks, which the request never repeats.        *)
LoadApproval(r, s) ==
  /\ ByHabit(s)
  /\ stage[s] # "approved"
  /\ LevelOf[s] = app.order
  /\ Load(r, "approve", {s})

(* reject_stage up to its check.                                           *)
LoadRejection(r, s) ==
  /\ ByHabit(s)
  /\ LevelOf[s] = app.order
  /\ Load(r, "reject", {s})

(* resubmit_application up to its check: the rejected row of the level.    *)
LoadResubmission(r) ==
  LET blocked == RejectedAt(stage, app.order)
  IN /\ "resubmit_alone" \in Habits => InFlight = {}
     /\ \A s, t \in blocked : s = t
     /\ app.status = "rejected" \/ blocked # {}
     /\ Load(r, "resubmit", blocked)

(* The row locks a request holds; another flush of the row waits for them. *)
Unlocked(own) == \A q \in Request : pc[q] = "flushed" => rows[q] \cap own = {}

(* session.flush() in approve_stage and reject_stage.                      *)
Flush(r) ==
  /\ pc[r] = "loaded" /\ kind[r] # "resubmit"
  /\ Unlocked(rows[r])
  /\ pc' = [pc EXCEPT ![r] = "flushed"]
  /\ UNCHANGED <<stage, app, session>>

Decision(r) == IF kind[r] = "approve" THEN "approved" ELSE "rejected"

(* Mutant of Seen: REPEATABLE READ whatever the database.                  *)
SeenAtFirstRead(r) ==
  [s \in Stages |-> IF s \in rows[r] THEN Decision(r) ELSE snapshot[r][s]]

(* Mutant of Seen: the waterfall does not see the request's own decision.  *)
SeenWithoutOwn(r) == IF RepeatableRead THEN snapshot[r] ELSE stage

(* The stage rows as the queries of the waterfall return them.             *)
Seen(r) ==
  [s \in Stages |-> IF s \in rows[r] THEN Decision(r)
                    ELSE IF RepeatableRead THEN snapshot[r][s] ELSE stage[s]]

(* session.close(): what the session has loaded is forgotten.              *)
Close(r) ==
  /\ pc' = [pc EXCEPT ![r] = "idle"]
  /\ kind' = [kind EXCEPT ![r] = "approve"]
  /\ rows' = [rows EXCEPT ![r] = {}]
  /\ snapshot' = [snapshot EXCEPT ![r] = NewStages]
  /\ loaded' = [loaded EXCEPT ![r] = NewApp]

(* A column is written if the object's value is not the loaded one.        *)
Dirty(new, old, stored) == IF new # old THEN new ELSE stored

Save(r, to, row) ==
  /\ stage' = [s \in Stages |-> IF s \in rows[r] THEN Dirty(to, snapshot[r][s], stage[s])
                               ELSE stage[s]]
  /\ app' = [status |-> Dirty(row.status, loaded[r].status, app.status),
             order |-> Dirty(row.order, loaded[r].order, app.order),
             is_completed |-> Dirty(row.is_completed, loaded[r].is_completed, app.is_completed)]
  /\ Close(r)

(* _update_application_status on the loaded object, and the commit.        *)
CommitDecision(r) ==
  /\ pc[r] = "flushed"
  /\ Save(r, Decision(r), Advance(loaded[r], Seen(r)))

(* The end of resubmit_application: application and row are written        *)
(* together at the commit, without another look at either.                 *)
CommitResubmission(r) ==
  /\ pc[r] = "loaded" /\ kind[r] = "resubmit"
  /\ Unlocked(rows[r])
  /\ Save(r, "pending", [loaded[r] EXCEPT !.status = "in_progress"])

(* A request dies before its commit (deadlock victim, lock wait timeout,   *)
(* lost connection): get_db_session rolls everything back.                 *)
Abort(r) ==
  /\ pc[r] # "idle"
  /\ Close(r)
  /\ UNCHANGED <<stage, app>>

Next ==
  \E r \in Request :
    \/ \E s \in Stages : LoadApproval(r, s) \/ LoadRejection(r, s)
    \/ LoadResubmission(r)
    \/ Flush(r)
    \/ CommitDecision(r) \/ CommitResubmission(r)
    \/ Abort(r)

Spec == Init /\ [][Next]_vars

------------------------------------------------------------------------------
(* Each commit is a step NoDues allows a request that runs alone.          *)
Serial == INSTANCE NoDues WITH
  Hostel <- {}, Exempt <- {}, AdminActs <- FALSE, HostelChanges <- {},
  status <- app.status, current_stage_order <- app.order,
  is_completed <- app.is_completed, is_hosteller <- FALSE, certificate <- "none",
  verified_by <- [s \in Stages |-> IF stage[s] \in {"approved", "rejected"}
                                   THEN "verifier" ELSE "none"]

(* "This uses the LOCK to prevent race conditions": whatever overlaps, the *)
(* database goes through states a sequence of lone requests could produce. *)
Serializable == Serial!Spec

(* With no request under way, an application that is not completed has a   *)
(* row somebody can decide.                                                *)
NotStuckAtRest == InFlight = {} => Serial!NeverStuck
==============================================================================
