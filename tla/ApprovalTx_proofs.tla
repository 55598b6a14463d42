--------------------------- MODULE ApprovalTx_proofs ---------------------------
(***************************************************************************)
(* On READ COMMITTED, overlapping requests of people with good habits have *)
(* the effect of lone requests one after the other: the refinement of      *)
(* NoDues, for any rows and any number of requests.                        *)
(***************************************************************************)
EXTENDS ApprovalTx, TLAPS

(* What is proved of lone requests, about the committed rows.              *)
SP == INSTANCE NoDues_proofs WITH
  Hostel <- {}, Exempt <- {}, AdminActs <- FALSE, HostelChanges <- {},
  status <- app.status, current_stage_order <- app.order,
  is_completed <- app.is_completed, is_hosteller <- FALSE, certificate <- "none",
  verified_by <- [s \in Stages |-> IF stage[s] \in {"approved", "rejected"}
                                   THEN "verifier" ELSE "none"]

(* A decision in flight: its row is still pending on the level of the      *)
(* application, which has not moved and is not completed; of what it has   *)
(* loaded only the status can be old.                                      *)
DecisionInFlight(r) ==
  \E s \in Stages :
    /\ rows[r] = {s}
    /\ stage[s] = "pending" /\ snapshot[r][s] = "pending"
    /\ LevelOf[s] = app.order
    /\ loaded[r].order = app.order
    /\ loaded[r].is_completed = app.is_completed
    /\ loaded[r].status # "completed" /\ app.status # "completed"
    /\ loaded[r].status = "rejected" => app.status = "rejected"
    /\ loaded[r].status = "in_progress" => app.status \in {"in_progress", "rejected"}

(* A resubmission in flight is alone: nothing it has loaded is old.        *)
ResubmissionInFlight(r) ==
  /\ pc[r] = "loaded" /\ InFlight = {r}
  /\ loaded[r] = app /\ snapshot[r] = stage
  /\ rows[r] = RejectedAt(stage, app.order)
  /\ \A s, t \in rows[r] : s = t
  /\ app.status = "rejected" \/ rows[r] # {}

FlightInv ==
  /\ \A r \in InFlight : IF kind[r] = "resubmit" THEN ResubmissionInFlight(r)
                                                 ELSE DecisionInFlight(r)
  /\ \A q, r \in InFlight : q # r => rows[q] \cap rows[r] = {}

(* The hypotheses of NoDues_proofs hold of the substituted constants.      *)
LEMMA SerialConstants ==
  /\ LevelOf \in [Stages -> SP!Level]
  /\ {} \subseteq Stages /\ {} \subseteq Stages \ {}
  /\ \E s \in Stages \ ({} \cup {}) : LevelOf[s] = 1
  /\ FALSE \in BOOLEAN /\ {} \subseteq {"resubmission", "profile"}
BY LevelAssumption, OfficeAssumption DEF Level, SP!Level

LEMMA SerialType ==
  ASSUME TypeOK
  PROVE  SP!TypeOK
BY DEF TypeOK, AppRow, AppStatus, Level, DONE, StageStatus, SP!TypeOK, SP!StageStatus,
   SP!Signatory, SP!AppStatus, SP!Level, SP!DONE

LEMMA SerialStep ==
  ASSUME TypeOK, SP!VerifiersInv, [SP!Next]_(SP!vars)
  PROVE  SP!VerifiersInv'
BY SerialConstants, SerialType, SP!StepKeepsVerifiersInv

LEMMA SerialDecides ==
  ASSUME TypeOK, SP!VerifiersInv, NEW s \in Stages, SP!Decision(s)
  PROVE  /\ \A t \in Stages \ {s} : stage'[t] = stage[t]
         /\ SP!GetsCompleted(app.status) \/ SP!GetsBlocked(app.status)
BY SerialConstants, SerialType, SP!VerifierDecides

(* The waterfall of Waterfall is the one of NoDues.                        *)
LEMMA SameAdvance ==
  ASSUME NEW row, NEW st
  PROVE  Advance(row, st) = SP!Advance(row, st) /\ Advance(row, st) = Serial!Advance(row, st)
BY DEF Advance, Blocking, StopLevel, RejectedAt, Completed, DONE, Min,
   SP!Advance, SP!Blocking, SP!StopLevel, SP!RejectedAt, SP!Completed, SP!DONE, SP!Min,
   Serial!Advance, Serial!Blocking, Serial!StopLevel, Serial!RejectedAt, Serial!Completed,
   Serial!DONE, Serial!Min

(* A row that is decided while it is pending on the current level, and an  *)
(* application that follows: a lone verifier's approval or rejection.      *)
LEMMA SerialDecision ==
  ASSUME TypeOK, NEW s \in Stages, NEW decision \in {"approved", "rejected"},
         stage[s] = "pending", LevelOf[s] = app.order,
         stage' = [stage EXCEPT ![s] = decision],
         app' = Advance(app, stage'), app' \in AppRow
  PROVE  SP!Decision(s) /\ Serial!Next
<1> DEFINE signed == [t \in Stages |-> IF stage[t] \in {"approved", "rejected"}
                                       THEN "verifier" ELSE "none"]
<1>1. signed' = [signed EXCEPT ![s] = "verifier"]
  BY DEF TypeOK
<1>2. app = [status |-> app.status, order |-> app.order, is_completed |-> app.is_completed]
  BY DEF TypeOK, AppRow
<1>3. SP!Decide(s, decision, "verifier", app.status)
  BY <1>1, <1>2, SameAdvance DEF SP!Decide, SP!SetRow, SP!Row
<1>4. Serial!Decide(s, decision, "verifier", app.status)
  BY <1>1, <1>2, SameAdvance DEF Serial!Decide, Serial!SetRow, Serial!Row
<1>5. SP!Decision(s)
  BY <1>3 DEF SP!Decision, SP!ApproveStage, SP!RejectStage, SP!AtCurrentLevel, SP!CertifyIf,
     SP!Generate
<1>6. Serial!ApproveStage(s) \/ Serial!RejectStage(s)
  BY <1>4 DEF Serial!ApproveStage, Serial!RejectStage, Serial!AtCurrentLevel,
     Serial!CertifyIf, Serial!Generate
<1>7. QED
  BY <1>5, <1>6 DEF Serial!Next

(* What AdvanceFacts says, in the words of this module.                    *)
LEMMA WaterfallFacts ==
  ASSUME NEW st, NEW row \in AppRow, row.status # "completed"
  PROVE  /\ Advance(row, st) \in AppRow
         /\ Advance(row, st) = Completed \/
              /\ Advance(row, st).status \in {"rejected", "in_progress"}
              /\ (\E t \in Stages : st[t] = "rejected" /\ LevelOf[t] = row.order)
                   => Advance(row, st).status = "rejected"
<1> DEFINE next == SP!Advance(row, st)
<1>1. row \in SP!AppRow
  BY DEF AppRow, AppStatus, Level, DONE, SP!AppRow, SP!AppStatus, SP!Level, SP!DONE
<1>2. /\ next \in SP!AppRow
      /\ SP!Blocking(st, row.order) = {} => next = SP!Completed
  BY <1>1, SerialConstants, SP!AdvanceFacts
<1>3. ASSUME SP!Blocking(st, row.order) # {}
      PROVE  /\ next.order \in SP!Level /\ next.order >= row.order
             /\ next.status =
                  IF SP!RejectedAt(st, next.order) # {} THEN "rejected" ELSE "in_progress"
             /\ \A t \in Stages :
                  row.order <= LevelOf[t] /\ LevelOf[t] < next.order
                    => st[t] \notin {"pending", "rejected"}
  BY <1>1, <1>3, SerialConstants, SP!AdvanceFacts
<1>4. Advance(row, st) = next
  BY SameAdvance
<1> HIDE DEF next
<1>5. next \in AppRow
  BY <1>2 DEF AppRow, AppStatus, Level, DONE, SP!AppRow, SP!AppStatus, SP!Level, SP!DONE
<1>6. CASE SP!Blocking(st, row.order) = {}
  BY <1>2, <1>4, <1>5, <1>6 DEF Completed, DONE, SP!Completed, SP!DONE
<1>7. CASE SP!Blocking(st, row.order) # {}
  <2>1. ASSUME NEW t \in Stages, st[t] = "rejected", LevelOf[t] = row.order
        PROVE  next.status = "rejected"
    <3>1. next.order = row.order
      BY <1>3, <1>7, <2>1, LevelAssumption DEF Level, SP!Level
    <3>2. t \in SP!RejectedAt(st, next.order)
      BY <2>1, <3>1 DEF SP!RejectedAt
    <3>3. QED
      BY <1>3, <1>7, <3>2
  <2>2. next.status \in {"rejected", "in_progress"}
    BY <1>3, <1>7
  <2>3. QED
    BY <1>4, <1>5, <2>1, <2>2
<1>8. QED
  BY <1>6, <1>7

(* Of the row it is given the waterfall keeps the order and the flag only. *)
LEMMA AdvanceIgnoresStatus ==
  ASSUME NEW st, NEW a \in AppRow, NEW b \in AppRow,
         a.status # "completed", b.status # "completed",
         a.order = b.order, a.is_completed = b.is_completed
  PROVE  Advance(a, st) = Advance(b, st)
BY DEF Advance, AppRow

(* A decision that commits: whatever was loaded, the database gets the     *)
(* decision and what the waterfall makes of the rows as they are now.      *)
LEMMA CommittedDecision ==
  ASSUME TypeOK, SP!VerifiersInv, ~RepeatableRead,
         NEW r \in Request, DecisionInFlight(r), CommitDecision(r)
  PROVE  \E s \in Stages, decision \in {"approved", "rejected"} :
           /\ rows[r] = {s}
           /\ stage[s] = "pending" /\ LevelOf[s] = app.order
           /\ stage' = [stage EXCEPT ![s] = decision]
           /\ app' = Advance(app, stage') /\ app' \in AppRow
<1>1. PICK s \in Stages :
        /\ rows[r] = {s}
        /\ stage[s] = "pending" /\ snapshot[r][s] = "pending"
        /\ LevelOf[s] = app.order
        /\ loaded[r].order = app.order
        /\ loaded[r].is_completed = app.is_completed
        /\ loaded[r].status # "completed" /\ app.status # "completed"
        /\ loaded[r].status = "rejected" => app.status = "rejected"
        /\ loaded[r].status = "in_progress" => app.status \in {"in_progress", "rejected"}
  BY DEF DecisionInFlight
<1> DEFINE st == [stage EXCEPT ![s] = Decision(r)]
           row == Advance(loaded[r], st)
<1>2. Decision(r) \in {"approved", "rejected"}
  BY DEF Decision
<1>3. Seen(r) = st
  BY <1>1 DEF Seen, TypeOK
<1>4. stage' = st
  BY <1>1, <1>2 DEF CommitDecision, Save, Dirty, TypeOK
<1>5. app' = [status |-> Dirty(row.status, loaded[r].status, app.status),
              order |-> Dirty(row.order, loaded[r].order, app.order),
              is_completed |-> Dirty(row.is_completed, loaded[r].is_completed, app.is_completed)]
  BY <1>3 DEF CommitDecision, Save
<1>6. loaded[r] \in AppRow /\ app \in AppRow
  BY DEF TypeOK
<1>7. row = Advance(app, st) /\ row \in AppRow
  BY <1>1, <1>6, AdvanceIgnoresStatus, WaterfallFacts
<1>8. row.status = loaded[r].status => app.status = row.status
  <2> SUFFICES ASSUME row.status = loaded[r].status
               PROVE  app.status = row.status
    OBVIOUS
  <2>1. row # Completed
    BY <1>1 DEF Completed
  <2>2. /\ row.status \in {"rejected", "in_progress"}
        /\ (\E t \in Stages : st[t] = "rejected" /\ LevelOf[t] = app.order)
             => row.status = "rejected"
    BY <1>1, <1>6, <1>7, <2>1, WaterfallFacts
  <2>3. app.status = "rejected" => \E t \in Stages : stage[t] = "rejected" /\ LevelOf[t] = app.order
    BY DEF SP!VerifiersInv, SP!RejectedIffBlocked, SP!Blocked, SP!RejectedAt
  <2>4. app.status = "rejected" => \E t \in Stages : st[t] = "rejected" /\ LevelOf[t] = app.order
    BY <1>1, <2>3 DEF TypeOK
  <2>5. QED
    BY <1>1, <2>2, <2>4
<1>9. app' = row
  <2> HIDE DEF row
  <2>1. /\ Dirty(row.status, loaded[r].status, app.status) = row.status
        /\ Dirty(row.order, loaded[r].order, app.order) = row.order
        /\ Dirty(row.is_completed, loaded[r].is_completed, app.is_completed) = row.is_completed
    BY <1>1, <1>8 DEF Dirty
  <2>2. QED
    BY <1>5, <1>7, <2>1 DEF AppRow
<1>10. QED
  BY <1>1, <1>2, <1>4, <1>7, <1>9

(* A resubmission that commits does what a lone one would: nothing has     *)
(* happened since it looked.                                               *)
LEMMA CommittedResubmission ==
  ASSUME TypeOK, NEW r \in Request, ResubmissionInFlight(r), CommitResubmission(r)
  PROVE  /\ stage' \in [Stages -> StageStatus] /\ app' \in AppRow
         /\ SP!Next /\ Serial!Next
<1> DEFINE signed == [s \in Stages |-> IF stage[s] \in {"approved", "rejected"}
                                       THEN "verifier" ELSE "none"]
           blocked == RejectedAt(stage, app.order)
<1>1. stage' = [s \in Stages |-> IF s \in blocked THEN "pending" ELSE stage[s]]
  BY DEF ResubmissionInFlight, CommitResubmission, Save, Dirty, TypeOK
<1>2. app' = [status |-> "in_progress", order |-> app.order, is_completed |-> app.is_completed]
  BY DEF ResubmissionInFlight, CommitResubmission, Save, Dirty, TypeOK, AppRow
<1>3. signed' = [s \in Stages |-> IF s \in blocked THEN "none" ELSE signed[s]]
  BY <1>1
<1>4. /\ \A s, t \in blocked : s = t
      /\ app.status = "rejected" \/ blocked # {}
  BY DEF ResubmissionInFlight
<1>5. SP!Resubmit(FALSE)
  <2>1. SP!Blocked = blocked
    BY DEF SP!Blocked, SP!RejectedAt, RejectedAt
  <2>2. SP!Injected(FALSE) = {} /\ SP!Removed(FALSE) = {}
    BY DEF SP!Injected, SP!Removed
  <2>3. SP!Reopened(FALSE) = blocked /\ SP!Unsigned(FALSE) = blocked
    BY <2>1, <2>2 DEF SP!Reopened, SP!Unsigned
  <2>4. QED
    BY <1>1, <1>2, <1>3, <1>4, <2>1, <2>2, <2>3 DEF SP!Resubmit
<1>6. Serial!Resubmit(FALSE)
  <2>1. Serial!Blocked = blocked
    BY DEF Serial!Blocked, Serial!RejectedAt, RejectedAt
  <2>2. Serial!Injected(FALSE) = {} /\ Serial!Removed(FALSE) = {}
    BY DEF Serial!Injected, Serial!Removed
  <2>3. Serial!Reopened(FALSE) = blocked /\ Serial!Unsigned(FALSE) = blocked
    BY <2>1, <2>2 DEF Serial!Reopened, Serial!Unsigned
  <2>4. QED
    BY <1>1, <1>2, <1>3, <1>4, <2>1, <2>2, <2>3 DEF Serial!Resubmit
<1>7. stage' \in [Stages -> StageStatus] /\ app' \in AppRow
  BY <1>1, <1>2 DEF TypeOK, StageStatus, AppRow, AppStatus
<1>8. QED
  BY <1>5, <1>6, <1>7 DEF SP!Next, Serial!Next

(* A request that leaves, by a commit or by dying.                         *)
LEMMA Leaves ==
  ASSUME TypeOK, NEW r \in Request, Close(r)
  PROVE  /\ pc' \in [Request -> {"idle", "loaded", "flushed"}]
         /\ kind' \in [Request -> Kind] /\ rows' \in [Request -> SUBSET Stages]
         /\ snapshot' \in [Request -> [Stages -> StageStatus]]
         /\ loaded' \in [Request -> AppRow]
         /\ InFlight' = InFlight \ {r}
         /\ \A q \in InFlight' : /\ pc'[q] = pc[q] /\ kind'[q] = kind[q] /\ rows'[q] = rows[q]
                                 /\ snapshot'[q] = snapshot[q] /\ loaded'[q] = loaded[q]
<1>1. NewStages \in [Stages -> StageStatus] /\ NewApp \in AppRow /\ "approve" \in Kind
  BY DEF NewStages, NewApp, StageStatus, AppRow, AppStatus, Level, Kind
<1>2. QED
  BY <1>1 DEF Close, TypeOK, InFlight

(* A request that begins.                                                  *)
LEMMA Begins ==
  ASSUME TypeOK, NEW r \in Request, NEW what \in Kind, NEW own \in SUBSET Stages,
         Load(r, what, own), AllHabits \subseteq Habits
  PROVE  /\ TypeOK' /\ UNCHANGED <<stage, app>>
         /\ r \notin InFlight /\ InFlight' = InFlight \cup {r}
         /\ kind'[r] = what /\ rows'[r] = own /\ snapshot'[r] = stage /\ loaded'[r] = app
         /\ pc'[r] = "loaded"
         /\ \A q \in InFlight : /\ pc'[q] = pc[q] /\ kind'[q] = kind[q] /\ rows'[q] = rows[q]
                                /\ snapshot'[q] = snapshot[q] /\ loaded'[q] = loaded[q]
                                /\ rows[q] \cap own = {}
BY DEF Load, TypeOK, InFlight, AllHabits

(* Requests in flight that nobody interferes with stay as they are.        *)
LEMMA FlightStays ==
  ASSUME FlightInv, UNCHANGED <<stage, app>>, NEW q \in InFlight,
         kind'[q] = kind[q], rows'[q] = rows[q],
         snapshot'[q] = snapshot[q], loaded'[q] = loaded[q],
         kind[q] = "resubmit" => pc'[q] = pc[q] /\ InFlight' = InFlight
  PROVE  IF kind'[q] = "resubmit" THEN ResubmissionInFlight(q)' ELSE DecisionInFlight(q)'
<1>1. CASE kind[q] = "resubmit"
  BY <1>1 DEF FlightInv, ResubmissionInFlight
<1>2. CASE kind[q] # "resubmit"
  <2>1. PICK s \in Stages :
          /\ rows[q] = {s}
          /\ stage[s] = "pending" /\ snapshot[q][s] = "pending"
          /\ LevelOf[s] = app.order
          /\ loaded[q].order = app.order
          /\ loaded[q].is_completed = app.is_completed
          /\ loaded[q].status # "completed" /\ app.status # "completed"
          /\ loaded[q].status = "rejected" => app.status = "rejected"
          /\ loaded[q].status = "in_progress" => app.status \in {"in_progress", "rejected"}
    BY <1>2 DEF FlightInv, DecisionInFlight
  <2>2. DecisionInFlight(q)'
    BY <2>1 DEF DecisionInFlight
  <2>3. QED
    BY <1>2, <2>2
<1>3. QED
  BY <1>1, <1>2

TxInv == TypeOK /\ SP!VerifiersInv /\ FlightInv

(* Whoever starts a decision finds a pending row on the level of an        *)
(* application that is not completed.                                      *)
LEMMA DecisionBegins ==
  ASSUME TxInv, AllHabits \subseteq Habits, NEW r \in Request, NEW s \in Stages,
         LoadApproval(r, s) \/ LoadRejection(r, s)
  PROVE  TypeOK' /\ UNCHANGED <<stage, app>> /\ FlightInv'
<1>1. PICK what \in Kind \ {"resubmit"} : Load(r, what, {s})
  BY DEF LoadApproval, LoadRejection, Kind
<1>2. /\ stage[s] = "pending" /\ LevelOf[s] = app.order
      /\ \A q \in InFlight : kind[q] # "resubmit"
  BY DEF LoadApproval, LoadRejection, ByHabit, AllHabits
<1>3. /\ TypeOK' /\ UNCHANGED <<stage, app>>
      /\ r \notin InFlight /\ InFlight' = InFlight \cup {r}
      /\ kind'[r] = what /\ rows'[r] = {s} /\ snapshot'[r] = stage /\ loaded'[r] = app
      /\ \A q \in InFlight : /\ kind'[q] = kind[q] /\ rows'[q] = rows[q]
                             /\ snapshot'[q] = snapshot[q] /\ loaded'[q] = loaded[q]
                             /\ rows[q] \cap {s} = {}
  BY <1>1, Begins DEF TxInv
<1>4. app.status # "completed"
  BY <1>2 DEF TxInv, SP!VerifiersInv, SP!CompletedMeansCleared
<1>5. DecisionInFlight(r)'
  BY <1>2, <1>3, <1>4 DEF DecisionInFlight
<1>6. \A q \in InFlight : DecisionInFlight(q)' /\ kind'[q] # "resubmit"
  BY <1>2, <1>3, FlightStays DEF TxInv
<1>7. \A p, q \in InFlight' : p # q => rows'[p] \cap rows'[q] = {}
  BY <1>3 DEF TxInv, FlightInv
<1>8. QED
  BY <1>3, <1>5, <1>6, <1>7 DEF FlightInv

LEMMA ResubmissionBegins ==
  ASSUME TxInv, AllHabits \subseteq Habits, NEW r \in Request, LoadResubmission(r)
  PROVE  TypeOK' /\ UNCHANGED <<stage, app>> /\ FlightInv'
<1> DEFINE blocked == RejectedAt(stage, app.order)
<1>1. Load(r, "resubmit", blocked) /\ blocked \in SUBSET Stages /\ "resubmit" \in Kind
  BY DEF LoadResubmission, RejectedAt, Kind
<1>2. /\ InFlight = {} /\ \A s, t \in blocked : s = t
      /\ app.status = "rejected" \/ blocked # {}
  BY DEF LoadResubmission, AllHabits
<1> HIDE DEF blocked
<1>3. /\ TypeOK' /\ UNCHANGED <<stage, app>> /\ InFlight' = {r} /\ pc'[r] = "loaded"
      /\ kind'[r] = "resubmit" /\ rows'[r] = blocked /\ snapshot'[r] = stage /\ loaded'[r] = app
  BY <1>1, <1>2, Begins DEF TxInv
<1>4. ResubmissionInFlight(r)'
  BY <1>2, <1>3 DEF ResubmissionInFlight, blocked
<1>5. QED
  BY <1>3, <1>4 DEF FlightInv

(* A decision that commits moves the application for nobody else: the rows *)
(* of the others still block its level.                                    *)
LEMMA DecisionEnds ==
  ASSUME TxInv, ~RepeatableRead, NEW r \in Request, CommitDecision(r)
  PROVE  TypeOK' /\ SP!VerifiersInv' /\ Serial!Next /\ FlightInv'
<1>1. Close(r) /\ r \in InFlight /\ pc[r] = "flushed"
  BY DEF CommitDecision, Save, InFlight
<1>2. DecisionInFlight(r)
  BY <1>1 DEF TxInv, FlightInv, ResubmissionInFlight
<1>3. PICK s \in Stages, decision \in {"approved", "rejected"} :
        /\ rows[r] = {s}
        /\ stage[s] = "pending" /\ LevelOf[s] = app.order
        /\ stage' = [stage EXCEPT ![s] = decision]
        /\ app' = Advance(app, stage') /\ app' \in AppRow
  BY <1>2, CommittedDecision DEF TxInv
<1>4. SP!Decision(s) /\ Serial!Next
  BY <1>3, SerialDecision DEF TxInv
<1>5. SP!VerifiersInv'
  <2>1. SP!Next
    BY <1>4 DEF SP!Next, SP!Decision
  <2>2. QED
    BY <2>1, SerialStep DEF TxInv
<1>6. TypeOK'
  <2>1. stage' \in [Stages -> StageStatus]
    BY <1>3 DEF TxInv, TypeOK, StageStatus
  <2>2. QED
    BY <1>1, <1>3, <2>1, Leaves DEF TxInv, TypeOK
<1>7. /\ InFlight' = InFlight \ {r}
      /\ \A q \in InFlight' : /\ kind'[q] = kind[q] /\ rows'[q] = rows[q]
                              /\ snapshot'[q] = snapshot[q] /\ loaded'[q] = loaded[q]
  BY <1>1, Leaves DEF TxInv
<1>8. ASSUME NEW q \in InFlight'
      PROVE  kind'[q] # "resubmit" /\ DecisionInFlight(q)'
  <2>1. q \in InFlight /\ q # r
    BY <1>7
  <2>2. kind[q] # "resubmit" /\ DecisionInFlight(q)
    BY <1>1, <2>1 DEF TxInv, FlightInv, ResubmissionInFlight
  <2>3. PICK t \in Stages :
          /\ rows[q] = {t}
          /\ stage[t] = "pending" /\ snapshot[q][t] = "pending"
          /\ LevelOf[t] = app.order
          /\ loaded[q].order = app.order
          /\ loaded[q].is_completed = app.is_completed
          /\ loaded[q].status # "completed" /\ app.status # "completed"
          /\ loaded[q].status = "rejected" => app.status = "rejected"
          /\ loaded[q].status = "in_progress" => app.status \in {"in_progress", "rejected"}
    BY <2>2 DEF DecisionInFlight
  <2>4. t # s
    BY <1>1, <1>3, <2>1, <2>3 DEF TxInv, FlightInv
  <2>5. stage'[t] = "pending"
    BY <1>3, <2>3, <2>4 DEF TxInv, TypeOK
  <2>6. /\ app'.order = app.order /\ app'.is_completed = app.is_completed
        /\ app'.status = IF SP!RejectedAt(stage', app.order) # {}
                         THEN "rejected" ELSE "in_progress"
    <3>1. t \in SP!Blocking(stage', app.order)
      BY <2>3, <2>5, LevelAssumption DEF SP!Blocking, Level
    <3>2. SP!GetsBlocked(app.status)
      BY <1>4, <3>1, SerialDecides DEF TxInv, SP!GetsCompleted
    <3>3. ~(LevelOf[t] < app'.order)
      BY <2>3, <2>5, <3>2, LevelAssumption DEF SP!GetsBlocked, Level
    <3>4. app'.order = app.order
      BY <2>3, <3>2, <3>3, LevelAssumption DEF SP!GetsBlocked, Level, SP!Level
    <3>5. QED
      BY <3>2, <3>4 DEF SP!GetsBlocked
  <2>7. app.status = "rejected" => app'.status = "rejected"
    <3>1. app.status = "rejected" => SP!RejectedAt(stage, app.order) # {}
      BY DEF TxInv, SP!VerifiersInv, SP!RejectedIffBlocked, SP!Blocked
    <3>2. SP!RejectedAt(stage, app.order) \subseteq SP!RejectedAt(stage', app.order)
      BY <1>3 DEF SP!RejectedAt, TxInv, TypeOK
    <3>3. QED
      BY <2>6, <3>1, <3>2
  <2>8. app'.status \in {"rejected", "in_progress"}
    BY <2>6
  <2>9. QED
    BY <1>7, <2>2, <2>3, <2>5, <2>6, <2>7, <2>8 DEF DecisionInFlight
<1>9. \A p, q \in InFlight' : p # q => rows'[p] \cap rows'[q] = {}
  BY <1>7 DEF TxInv, FlightInv
<1>10. QED
  BY <1>4, <1>5, <1>6, <1>8, <1>9 DEF FlightInv

LEMMA ResubmissionEnds ==
  ASSUME TxInv, NEW r \in Request, CommitResubmission(r)
  PROVE  TypeOK' /\ SP!VerifiersInv' /\ Serial!Next /\ FlightInv'
<1>1. Close(r) /\ r \in InFlight /\ kind[r] = "resubmit"
  BY DEF CommitResubmission, Save, InFlight
<1>2. ResubmissionInFlight(r)
  BY <1>1 DEF TxInv, FlightInv
<1>3. /\ stage' \in [Stages -> StageStatus] /\ app' \in AppRow
      /\ SP!Next /\ Serial!Next
  BY <1>2, CommittedResubmission DEF TxInv
<1>4. SP!VerifiersInv'
  BY <1>3, SerialStep DEF TxInv
<1>5. TypeOK' /\ InFlight' = InFlight \ {r}
  BY <1>1, <1>3, Leaves DEF TxInv, TypeOK
<1>6. InFlight' = {}
  BY <1>2, <1>5 DEF ResubmissionInFlight
<1>7. QED
  BY <1>3, <1>4, <1>5, <1>6 DEF FlightInv

(* Flushes take locks and write nothing others can read.                   *)
LEMMA FlushKeepsFlight ==
  ASSUME TxInv, NEW r \in Request, Flush(r)
  PROVE  TypeOK' /\ UNCHANGED <<stage, app>> /\ FlightInv'
<1>1. /\ r \in InFlight /\ kind[r] # "resubmit"
      /\ pc' = [pc EXCEPT ![r] = "flushed"]
      /\ UNCHANGED <<stage, app, kind, rows, snapshot, loaded>>
  BY DEF Flush, InFlight, session
<1>2. InFlight' = InFlight /\ TypeOK'
  BY <1>1 DEF InFlight, TxInv, TypeOK
<1>3. \A q \in InFlight : kind[q] = "resubmit" => q # r /\ pc'[q] = pc[q]
  BY <1>1 DEF InFlight, TxInv, TypeOK
<1>4. \A q \in InFlight : IF kind'[q] = "resubmit" THEN ResubmissionInFlight(q)'
                                                   ELSE DecisionInFlight(q)'
  BY <1>1, <1>2, <1>3, FlightStays DEF TxInv
<1>5. \A p, q \in InFlight : p # q => rows'[p] \cap rows'[q] = {}
  BY <1>1 DEF TxInv, FlightInv
<1>6. QED
  BY <1>1, <1>2, <1>4, <1>5 DEF FlightInv

(* A request that dies leaves no trace.                                    *)
LEMMA AbortKeepsFlight ==
  ASSUME TxInv, NEW r \in Request, Abort(r)
  PROVE  TypeOK' /\ UNCHANGED <<stage, app>> /\ FlightInv'
<1>1. Close(r) /\ r \in InFlight /\ UNCHANGED <<stage, app>>
  BY DEF Abort, InFlight
<1>2. /\ TypeOK' /\ InFlight' = InFlight \ {r}
      /\ \A q \in InFlight' : /\ kind'[q] = kind[q] /\ rows'[q] = rows[q]
                              /\ snapshot'[q] = snapshot[q] /\ loaded'[q] = loaded[q]
  BY <1>1, Leaves DEF TxInv, TypeOK
<1>3. \A q \in InFlight' : kind[q] # "resubmit"
  BY <1>1, <1>2 DEF TxInv, FlightInv, ResubmissionInFlight
<1>4. \A q \in InFlight' : IF kind'[q] = "resubmit" THEN ResubmissionInFlight(q)'
                                                    ELSE DecisionInFlight(q)'
  BY <1>1, <1>2, <1>3, FlightStays DEF TxInv
<1>5. \A p, q \in InFlight' : p # q => rows'[p] \cap rows'[q] = {}
  BY <1>2 DEF TxInv, FlightInv
<1>6. QED
  BY <1>1, <1>2, <1>4, <1>5 DEF FlightInv

(* What is not committed is not seen.                                      *)
LEMMA CommittedUnchanged ==
  ASSUME TxInv, UNCHANGED <<stage, app>>
  PROVE  SP!VerifiersInv' /\ UNCHANGED Serial!vars
<1>1. UNCHANGED SP!vars /\ UNCHANGED Serial!vars
  BY DEF SP!vars, SP!app, Serial!vars, Serial!app
<1>2. QED
  BY <1>1, SerialStep DEF TxInv

LEMMA TxStep ==
  ASSUME TxInv, AllHabits \subseteq Habits, ~RepeatableRead, [Next]_vars
  PROVE  TxInv' /\ [Serial!Next]_(Serial!vars)
<1>1. ASSUME TypeOK', UNCHANGED <<stage, app>>, FlightInv'
      PROVE  TxInv' /\ [Serial!Next]_(Serial!vars)
  BY <1>1, CommittedUnchanged DEF TxInv
<1>2. ASSUME NEW r \in Request, NEW s \in Stages, LoadApproval(r, s) \/ LoadRejection(r, s)
      PROVE  TxInv' /\ [Serial!Next]_(Serial!vars)
  BY <1>1, <1>2, DecisionBegins
<1>3. ASSUME NEW r \in Request, LoadResubmission(r)
      PROVE  TxInv' /\ [Serial!Next]_(Serial!vars)
  BY <1>1, <1>3, ResubmissionBegins
<1>4. ASSUME NEW r \in Request, Flush(r)
      PROVE  TxInv' /\ [Serial!Next]_(Serial!vars)
  BY <1>1, <1>4, FlushKeepsFlight
<1>5. ASSUME NEW r \in Request, CommitDecision(r)
      PROVE  TxInv' /\ [Serial!Next]_(Serial!vars)
  BY <1>5, DecisionEnds DEF TxInv
<1>6. ASSUME NEW r \in Request, CommitResubmission(r)
      PROVE  TxInv' /\ [Serial!Next]_(Serial!vars)
  BY <1>6, ResubmissionEnds DEF TxInv
<1>7. ASSUME NEW r \in Request, Abort(r)
      PROVE  TxInv' /\ [Serial!Next]_(Serial!vars)
  BY <1>1, <1>7, AbortKeepsFlight
<1>8. CASE UNCHANGED vars
  <2>1. UNCHANGED <<stage, app, pc, kind, rows, snapshot, loaded>>
    BY <1>8 DEF vars, session
  <2>2. TypeOK' /\ FlightInv'
    <3>1. InFlight' = InFlight /\ TypeOK'
      BY <2>1 DEF InFlight, TxInv, TypeOK
    <3>2. \A q \in InFlight : IF kind'[q] = "resubmit" THEN ResubmissionInFlight(q)'
                                                       ELSE DecisionInFlight(q)'
      BY <2>1, <3>1, FlightStays DEF TxInv
    <3>3. \A p, q \in InFlight : p # q => rows'[p] \cap rows'[q] = {}
      BY <2>1 DEF TxInv, FlightInv
    <3>4. QED
      BY <2>1, <3>1, <3>2, <3>3 DEF FlightInv
  <2>3. QED
    BY <1>1, <2>1, <2>2
<1>9. QED
  BY <1>2, <1>3, <1>4, <1>5, <1>6, <1>7, <1>8 DEF Next

LEMMA TxInit == Init => TxInv /\ Serial!Init
<1> SUFFICES ASSUME Init
             PROVE  TxInv /\ Serial!Init
  OBVIOUS
<1>1. /\ stage = [s \in Stages |-> "pending"]
      /\ app = [status |-> "pending", order |-> 1, is_completed |-> FALSE]
  BY DEF Init, NewStages, NewApp
<1>2. [s \in Stages |-> IF stage[s] \in {"approved", "rejected"} THEN "verifier" ELSE "none"]
        = [s \in Stages |-> "none"]
  BY <1>1
<1>3. SP!Init
  BY <1>1, <1>2 DEF SP!Init
<1>4. Serial!Init
  BY <1>1, <1>2 DEF Serial!Init
<1>5. SP!VerifiersInv
  BY <1>3, SerialConstants, SP!InitVerifiersInv
<1>6. InFlight = {}
  BY DEF Init, InFlight
<1>7. TypeOK
  BY DEF Init, TypeOK, NewStages, NewApp, StageStatus, AppRow, AppStatus, Level, Kind
<1>8. QED
  BY <1>4, <1>5, <1>6, <1>7 DEF TxInv, FlightInv

(* "This uses the LOCK to prevent race conditions": on READ COMMITTED, for *)
(* any number of overlapping requests, every commit is a step of NoDues.   *)
THEOREM CommitsAreSerializable ==
  ASSUME AllHabits \subseteq Habits, ~RepeatableRead
  PROVE  Spec => Serializable
<1>1. Init => TxInv /\ Serial!Init
  BY TxInit
<1>2. TxInv /\ [Next]_vars => TxInv' /\ [Serial!Next]_(Serial!vars)
  BY TxStep
<1>3. QED
  BY <1>1, <1>2, PTL DEF Spec, Serializable, Serial!Spec

(* Between requests an application that is not completed waits for a row   *)
(* somebody can decide; it does so while requests are under way, too.      *)
THEOREM NeverStuckAtRest ==
  ASSUME AllHabits \subseteq Habits, ~RepeatableRead
  PROVE  Spec => []NotStuckAtRest
<1>1. TxInv => NotStuckAtRest
  BY DEF TxInv, SP!VerifiersInv, NotStuckAtRest, SP!NeverStuck, SP!SomeoneCanAct,
     Serial!NeverStuck, Serial!SomeoneCanAct
<1>2. Init => TxInv
  BY TxInit
<1>3. TxInv /\ [Next]_vars => TxInv'
  BY TxStep
<1>4. QED
  BY <1>1, <1>2, <1>3, PTL DEF Spec
==============================================================================
