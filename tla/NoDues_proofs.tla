----------------------------- MODULE NoDues_proofs -----------------------------
(***************************************************************************)
(* Theorems about NoDues for any set of stage rows on the five levels.     *)
(* The first part holds whoever acts; the second is about applications     *)
(* only verifiers decide on.                                               *)
(***************************************************************************)
EXTENDS NoDues, TLAPS

(* Min picks the least element of a non-empty set of levels.               *)
LEMMA MinOfLevels ==
  ASSUME NEW S \in SUBSET Level, S # {}
  PROVE  Min(S) \in S /\ \A n \in S : Min(S) <= n
<1>1. ASSUME ~\E x \in S : \A n \in S : x <= n
      PROVE  FALSE
  <2>1. \A n \in S : n \in 1..5
    BY DEF Level
  <2>2. 1 \notin S
    BY <1>1, <2>1
  <2>3. 2 \notin S
    BY <1>1, <2>1, <2>2
  <2>4. 3 \notin S
    BY <1>1, <2>1, <2>2, <2>3
  <2>5. 4 \notin S /\ 5 \notin S
    BY <1>1, <2>1, <2>2, <2>3, <2>4
  <2>6. QED
    BY <2>1, <2>2, <2>3, <2>4, <2>5
<1>2. QED
  BY <1>1 DEF Min

(* The level the waterfall stops at is the lowest blocking one.            *)
LEMMA StopLevelFacts ==
  ASSUME NEW st, NEW l, Blocking(st, l) # {}
  PROVE  /\ StopLevel(st, l) \in Level
         /\ \E s \in Blocking(st, l) : LevelOf[s] = StopLevel(st, l)
         /\ \A s \in Blocking(st, l) : StopLevel(st, l) <= LevelOf[s]
<1> DEFINE S == {LevelOf[s] : s \in Blocking(st, l)}
<1>1. S \in SUBSET Level /\ S # {}
  BY LevelAssumption DEF Blocking
<1>2. Min(S) \in S /\ \A n \in S : Min(S) <= n
  BY <1>1, MinOfLevels
<1>3. StopLevel(st, l) = Min(S)
  BY DEF StopLevel
<1>4. QED
  BY <1>1, <1>2, <1>3

(* What Advance makes of a row that is not completed: the row completes    *)
(* when nothing blocks it, and otherwise stops at a level l with nothing   *)
(* blocking below it and a blocking row on it.                             *)
LEMMA AdvanceFacts ==
  ASSUME NEW st, NEW row \in AppRow, row.status # "completed"
  PROVE  /\ Advance(row, st) \in AppRow
         /\ Blocking(st, row.order) = {} => Advance(row, st) = Completed
         /\ Blocking(st, row.order) # {} =>
              LET l == Advance(row, st).order
              IN /\ l \in Level /\ l >= row.order
                 /\ Advance(row, st).is_completed = row.is_completed
                 /\ Advance(row, st).status =
                      IF RejectedAt(st, l) # {} THEN "rejected" ELSE "in_progress"
                 /\ \E s \in Stages : LevelOf[s] = l /\ st[s] \in {"pending", "rejected"}
                 /\ \A s \in Stages :
                      row.order <= LevelOf[s] /\ LevelOf[s] < l
                        => st[s] \notin {"pending", "rejected"}
<1>1. CASE Blocking(st, row.order) = {}
  BY <1>1 DEF Advance, Completed, AppRow, AppStatus
<1>2. CASE Blocking(st, row.order) # {}
  <2> DEFINE l == StopLevel(st, row.order)
  <2>1. /\ l \in Level
        /\ \E s \in Blocking(st, row.order) : LevelOf[s] = l
        /\ \A s \in Blocking(st, row.order) : l <= LevelOf[s]
    BY <1>2, StopLevelFacts
  <2>2. Advance(row, st) =
          [row EXCEPT !.order = l,
                      !.status = IF RejectedAt(st, l) # {} THEN "rejected"
                                                           ELSE "in_progress"]
    BY <1>2 DEF Advance
  <2>3. /\ Advance(row, st) \in AppRow
        /\ Advance(row, st).order = l
        /\ Advance(row, st).is_completed = row.is_completed
        /\ Advance(row, st).status =
             IF RejectedAt(st, l) # {} THEN "rejected" ELSE "in_progress"
    BY <2>1, <2>2 DEF AppRow, AppStatus
  <2>4. row.order \in Int /\ \A s \in Stages : LevelOf[s] \in Int
    BY LevelAssumption DEF AppRow, Level, DONE
  <2>5. /\ l >= row.order
        /\ \E s \in Stages : LevelOf[s] = l /\ st[s] \in {"pending", "rejected"}
    BY <2>1 DEF Blocking
  <2>6. \A s \in Stages :
          row.order <= LevelOf[s] /\ LevelOf[s] < l => st[s] \notin {"pending", "rejected"}
    BY <2>1, <2>4 DEF Blocking, Level
  <2> HIDE DEF l
  <2>7. QED
    BY <1>2, <2>1, <2>3, <2>5, <2>6
<1>3. QED
  BY <1>1, <1>2

(* The marker is above every level: nothing blocks a row that carries it.  *)
LEMMA NothingBlocksDone ==
  ASSUME NEW st
  PROVE  Blocking(st, DONE) = {}
BY LevelAssumption DEF Blocking, DONE, Level

(* The three ways a decision can leave the application row: completed as   *)
(* it was, completed by the waterfall, or waiting on the lowest blocked    *)
(* level.                                                                  *)
StaysCompleted(from) ==
  /\ from = "completed"
  /\ status' = from
  /\ current_stage_order' = current_stage_order
  /\ is_completed' = is_completed

GetsCompleted(from) ==
  /\ from # "completed"
  /\ Blocking(stage', current_stage_order) = {}
  /\ status' = "completed"
  /\ current_stage_order' = DONE
  /\ is_completed' = TRUE

GetsBlocked(from) ==
  /\ from # "completed"
  /\ current_stage_order # DONE
  /\ current_stage_order' \in Level
  /\ current_stage_order' >= current_stage_order
  /\ is_completed' = is_completed
  /\ status' = IF RejectedAt(stage', current_stage_order') # {}
               THEN "rejected" ELSE "in_progress"
  /\ \E t \in Stages : /\ LevelOf[t] = current_stage_order'
                       /\ stage'[t] \in {"pending", "rejected"}
  /\ \A t \in Stages :
       current_stage_order <= LevelOf[t] /\ LevelOf[t] < current_stage_order'
         => stage'[t] \notin {"pending", "rejected"}

Outcome(from) == StaysCompleted(from) \/ GetsCompleted(from) \/ GetsBlocked(from)

(* Which of the three outcomes a decision has.                             *)
LEMMA DecideOutcome ==
  ASSUME TypeOK, NEW s \in Stages,
         NEW decision \in {"approved", "rejected"},
         NEW who \in {"verifier", "admin"},
         NEW from \in AppStatus,
         Decide(s, decision, who, from)
  PROVE  Outcome(from)
<1> DEFINE row == Row(from)
           st == [stage EXCEPT ![s] = decision]
           next == Advance(row, st)
<1>1. row \in AppRow
  BY DEF TypeOK, Row, AppRow
<1>2. /\ row.status = from
      /\ row.order = current_stage_order
      /\ row.is_completed = is_completed
  BY DEF Row
<1>3. /\ stage' = st
      /\ status' = next.status
      /\ current_stage_order' = next.order
      /\ is_completed' = next.is_completed
  BY DEF Decide, SetRow
<1>4. CASE from = "completed"
  <2>1. next = row
    BY <1>2, <1>4 DEF Advance
  <2>2. QED
    BY <1>2, <1>3, <1>4, <2>1 DEF Outcome, StaysCompleted
<1>5. CASE from # "completed" /\ Blocking(st, current_stage_order) = {}
  <2>1. next = Completed
    BY <1>1, <1>2, <1>5, AdvanceFacts
  <2>2. /\ status' = "completed" /\ is_completed' = TRUE
        /\ current_stage_order' = DONE
    BY <1>3, <2>1 DEF Completed
  <2>3. QED
    BY <1>3, <1>5, <2>2 DEF Outcome, GetsCompleted
<1>6. CASE from # "completed" /\ Blocking(st, current_stage_order) # {}
  <2> HIDE DEF row, st
  <2>1. row.status # "completed" /\ Blocking(st, row.order) # {}
    BY <1>2, <1>6
  <2>2. /\ next.order \in Level /\ next.order >= row.order
        /\ next.is_completed = row.is_completed
        /\ next.status = IF RejectedAt(st, next.order) # {} THEN "rejected" ELSE "in_progress"
        /\ \E t \in Stages : LevelOf[t] = next.order /\ st[t] \in {"pending", "rejected"}
        /\ \A t \in Stages :
             row.order <= LevelOf[t] /\ LevelOf[t] < next.order
               => st[t] \notin {"pending", "rejected"}
    BY <1>1, <2>1, AdvanceFacts, Zenon
  <2>3. current_stage_order # DONE
    BY <1>6, NothingBlocksDone
  <2> HIDE DEF next
  <2>4. is_completed' = is_completed
    BY <1>2, <1>3, <2>2, Zenon
  <2>5. /\ current_stage_order' \in Level /\ current_stage_order' >= current_stage_order
        /\ status' = IF RejectedAt(stage', current_stage_order') # {}
                     THEN "rejected" ELSE "in_progress"
    BY <1>2, <1>3, <2>2
  <2>6. /\ \E t \in Stages : /\ LevelOf[t] = current_stage_order'
                             /\ stage'[t] \in {"pending", "rejected"}
        /\ \A t \in Stages :
             current_stage_order <= LevelOf[t] /\ LevelOf[t] < current_stage_order'
               => stage'[t] \notin {"pending", "rejected"}
    BY <1>2, <1>3, <2>2
  <2>7. QED
    BY <1>6, <2>3, <2>4, <2>5, <2>6, Zenon DEF Outcome, GetsBlocked
<1>7. QED
  BY <1>4, <1>5, <1>6

(* What a decision does to the columns, whichever outcome it has.          *)
LEMMA DecideFacts ==
  ASSUME TypeOK, NEW s \in Stages,
         NEW decision \in {"approved", "rejected"},
         NEW who \in {"verifier", "admin"},
         NEW from \in AppStatus,
         Decide(s, decision, who, from)
  PROVE  /\ stage' \in [Stages -> StageStatus]
         /\ verified_by' \in [Stages -> Signatory]
         /\ stage' = [stage EXCEPT ![s] = decision]
         /\ verified_by' = [verified_by EXCEPT ![s] = who]
         /\ is_hosteller' = is_hosteller
         /\ status' \in AppStatus
         /\ is_completed' \in BOOLEAN
         /\ current_stage_order' \in Level \cup {DONE}
         /\ current_stage_order' >= current_stage_order
<1>1. /\ stage' = [stage EXCEPT ![s] = decision]
      /\ verified_by' = [verified_by EXCEPT ![s] = who]
      /\ is_hosteller' = is_hosteller
  BY Zenon DEF Decide
<1>2. stage' \in [Stages -> StageStatus] /\ verified_by' \in [Stages -> Signatory]
  BY <1>1 DEF TypeOK, StageStatus, Signatory
<1>3. is_completed \in BOOLEAN
  BY DEF TypeOK
<1>4. current_stage_order \in Level \cup {DONE} /\ Level \cup {DONE} \subseteq Int
  BY DEF TypeOK, Level, DONE
<1>5. is_completed' \in BOOLEAN
  BY <1>3, DecideOutcome, Zenon DEF Outcome, StaysCompleted, GetsCompleted, GetsBlocked
<1>6. status' \in AppStatus
  BY DecideOutcome DEF Outcome, StaysCompleted, GetsCompleted, GetsBlocked, AppStatus
<1>7. current_stage_order' \in Level \cup {DONE} /\ current_stage_order' >= current_stage_order
  <2>1. CASE StaysCompleted(from)
    BY <1>4, <2>1 DEF StaysCompleted
  <2>2. CASE GetsCompleted(from)
    BY <1>4, <2>2 DEF GetsCompleted, Level, DONE
  <2>3. CASE GetsBlocked(from)
    BY <2>3 DEF GetsBlocked
  <2>4. QED
    BY <2>1, <2>2, <2>3, DecideOutcome, Zenon DEF Outcome
<1>8. QED
  BY <1>1, <1>2, <1>5, <1>6, <1>7, Zenon

Decision(s) == ApproveStage(s) \/ RejectStage(s) \/ AdminApprove(s) \/ OverrideApprove(s)
Rejection(s) == AdminReject(s) \/ OverrideReject(s)

(* Approvals and verifiers' rejections are decisions that end in the       *)
(* waterfall; verifiers take them on the current level only.               *)
LEMMA DecisionFacts ==
  ASSUME TypeOK, NEW s \in Stages, Decision(s)
  PROVE  /\ \E decision \in {"approved", "rejected"}, who \in {"verifier", "admin"},
              from \in AppStatus :
              /\ Decide(s, decision, who, from)
              /\ who = "verifier" => AtCurrentLevel(s)
              /\ from = "completed" <=> status = "completed"
         /\ certificate' \in {"none", "empty_url", "stored"}
<1>1. CASE ApproveStage(s)
  BY <1>1 DEF ApproveStage, TypeOK, CertifyIf, Generate
<1>2. CASE RejectStage(s)
  BY <1>2 DEF RejectStage, TypeOK
<1>3. CASE AdminApprove(s)
  BY <1>3 DEF AdminApprove, TypeOK, CertifyIf, Generate
<1>4. CASE OverrideApprove(s)
  <2> DEFINE from == IF status = "rejected" THEN "pending" ELSE status
  <2>1. Decide(s, "approved", "admin", from)
    BY <1>4 DEF OverrideApprove
  <2>2. from \in AppStatus /\ (from = "completed" <=> status = "completed")
    BY DEF TypeOK, AppStatus
  <2>3. certificate' \in {"none", "empty_url", "stored"}
    BY <1>4 DEF OverrideApprove, TypeOK, CertifyIf, Generate
  <2> HIDE DEF from
  <2>4. QED
    BY <2>1, <2>2, <2>3
<1>5. QED
  BY <1>1, <1>2, <1>3, <1>4 DEF Decision

(* Every column of the application, its rows and its certificate keeps its *)
(* type under every request.                                               *)
THEOREM TypeCorrect == Spec => []TypeOK
<1>1. Init => TypeOK
  <2> SUFFICES ASSUME Init
               PROVE  TypeOK
    OBVIOUS
  <2>1. PICK exempt \in BOOLEAN :
          stage = [s \in Stages |-> IF \/ s \in Hostel /\ ~is_hosteller
                                       \/ s \in Exempt /\ exempt
                                    THEN "absent" ELSE "pending"]
    BY Zenon DEF Init
  <2>2. stage \in [Stages -> StageStatus]
    BY <2>1 DEF StageStatus
  <2>3. verified_by \in [Stages -> Signatory]
    BY DEF Init, Signatory
  <2>4. status \in AppStatus /\ current_stage_order \in Level \cup {DONE}
    BY DEF Init, AppStatus, Level
  <2>5. certificate \in {"none", "empty_url", "stored"}
    BY DEF Init
  <2>6. is_completed \in BOOLEAN /\ is_hosteller \in BOOLEAN
    BY Zenon DEF Init
  <2>7. QED
    BY <2>2, <2>3, <2>4, <2>5, <2>6, Zenon DEF TypeOK
<1>2. TypeOK /\ [Next]_vars => TypeOK'
  <2> SUFFICES ASSUME TypeOK, [Next]_vars
               PROVE  TypeOK'
    OBVIOUS
  <2>1. ASSUME NEW s \in Stages, Decision(s)
        PROVE  TypeOK'
    <3>1. PICK decision \in {"approved", "rejected"}, who \in {"verifier", "admin"},
               from \in AppStatus : Decide(s, decision, who, from)
      BY <2>1, DecisionFacts
    <3>2. /\ stage' \in [Stages -> StageStatus]
          /\ verified_by' \in [Stages -> Signatory]
          /\ status' \in AppStatus
          /\ current_stage_order' \in Level \cup {DONE}
          /\ is_completed' \in BOOLEAN
          /\ is_hosteller' = is_hosteller
      BY <3>1, DecideFacts, Zenon
    <3>3. certificate' \in {"none", "empty_url", "stored"}
      BY <2>1, DecisionFacts
    <3>4. QED
      BY <3>2, <3>3, Zenon DEF TypeOK
  <2>2. ASSUME NEW s \in Stages, Rejection(s)
        PROVE  TypeOK'
    BY <2>2 DEF Rejection, AdminReject, OverrideReject, RejectApplication,
                TypeOK, StageStatus, Signatory, AppStatus
  <2>3. ASSUME NEW hosteller \in BOOLEAN, Resubmit(hosteller)
        PROVE  TypeOK'
    BY <2>3 DEF Resubmit, TypeOK, StageStatus, Signatory, AppStatus
  <2>4. CASE DownloadCertificate
    BY <2>4 DEF DownloadCertificate, TypeOK, Generate, app
  <2>5. ASSUME NEW signed \in SUBSET Stages, DeleteReviewer(signed)
        PROVE  TypeOK'
    BY <2>5 DEF DeleteReviewer, TypeOK, Signatory, app
  <2>6. ASSUME NEW hosteller \in BOOLEAN, UpdateProfile(hosteller)
        PROVE  TypeOK'
    BY <2>6, Zenon DEF UpdateProfile, TypeOK, app
  <2>7. CASE UNCHANGED vars
    BY <2>7 DEF TypeOK, vars, app
  <2>8. QED
    BY <2>1, <2>2, <2>3, <2>4, <2>5, <2>6, <2>7 DEF Next, Decision, Rejection
<1>3. QED
  BY <1>1, <1>2, PTL DEF Spec

(* The markers, the reason of a rejection and the reach of verifiers, in   *)
(* one inductive invariant.                                                *)
AnyoneInv ==
  /\ CompletionMarkersAgree
  /\ RejectedHasReason
  /\ PendingIsUnsigned
  /\ NoVerifierAhead

(* A decision preserves the invariant.                                     *)
LEMMA DecisionKeepsAnyoneInv ==
  ASSUME TypeOK, AnyoneInv, NEW s \in Stages, Decision(s)
  PROVE  AnyoneInv' /\ current_stage_order' >= current_stage_order
<1>1. PICK decision \in {"approved", "rejected"}, who \in {"verifier", "admin"},
           from \in AppStatus :
             /\ Decide(s, decision, who, from)
             /\ who = "verifier" => AtCurrentLevel(s)
             /\ from = "completed" <=> status = "completed"
  BY DecisionFacts
<1>2. /\ stage' = [stage EXCEPT ![s] = decision]
      /\ verified_by' = [verified_by EXCEPT ![s] = who]
      /\ current_stage_order' >= current_stage_order
      /\ current_stage_order' \in Level \cup {DONE}
  <2>1. Decide(s, decision, who, from)
    BY <1>1
  <2>2. QED
    BY <2>1, DecideFacts
<1>3. Outcome(from)
  <2>1. Decide(s, decision, who, from)
    BY <1>1
  <2>2. QED
    BY <2>1, DecideOutcome, Zenon
<1>4. CompletionMarkersAgree'
  <2>1. is_completed \in BOOLEAN
    BY DEF TypeOK
  <2>2. DONE \notin Level
    BY DEF Level, DONE
  <2>3. /\ is_completed <=> current_stage_order = DONE
        /\ status = "completed" => is_completed
    BY Zenon DEF AnyoneInv, CompletionMarkersAgree
  <2>4. CASE StaysCompleted(from)
    <3>1. status = "completed"
      BY <1>1, <2>4, Zenon DEF StaysCompleted
    <3>2. QED
      BY <2>3, <2>4, <3>1, Zenon DEF CompletionMarkersAgree, StaysCompleted
  <2>5. CASE GetsCompleted(from)
    BY <2>5, Zenon DEF CompletionMarkersAgree, GetsCompleted
  <2>6. CASE GetsBlocked(from)
    <3>1. current_stage_order' # DONE /\ status' # "completed"
      BY <2>2, <2>6 DEF GetsBlocked
    <3>2. current_stage_order # DONE /\ is_completed' = is_completed
      BY <2>6, Zenon DEF GetsBlocked
    <3>3. QED
      BY <2>3, <3>1, <3>2, Zenon DEF CompletionMarkersAgree
  <2>7. QED
    BY <1>3, <2>4, <2>5, <2>6, Zenon DEF Outcome
<1>5. RejectedHasReason'
  <2>1. CASE StaysCompleted(from) \/ GetsCompleted(from)
    BY <2>1 DEF RejectedHasReason, StaysCompleted, GetsCompleted
  <2>2. CASE GetsBlocked(from)
    BY <2>2 DEF RejectedHasReason, RejectedAt, GetsBlocked
  <2>3. QED
    BY <1>3, <2>1, <2>2 DEF Outcome
<1>6. PendingIsUnsigned'
  BY <1>2 DEF AnyoneInv, PendingIsUnsigned, TypeOK
<1>7. NoVerifierAhead'
  <2> SUFFICES ASSUME NEW t \in Stages, verified_by'[t] = "verifier"
               PROVE  LevelOf[t] <= current_stage_order'
    BY DEF NoVerifierAhead
  <2>1. LevelOf[t] <= current_stage_order
    <3>1. CASE t = s
      BY <1>1, <1>2, <3>1, LevelAssumption DEF AtCurrentLevel, TypeOK, Level
    <3>2. CASE t # s
      BY <1>2, <3>2 DEF AnyoneInv, NoVerifierAhead, TypeOK
    <3>3. QED
      BY <3>1, <3>2
  <2>2. LevelOf[t] \in Int /\ current_stage_order \in Int /\ current_stage_order' \in Int
    <3>1. LevelOf[t] \in Int
      BY LevelAssumption DEF Level
    <3>2. current_stage_order \in Int
      BY DEF TypeOK, Level, DONE
    <3>3. current_stage_order' \in Int
      <4>1. current_stage_order' \in Level \cup {DONE}
        BY <1>2
      <4>2. QED
        BY <4>1 DEF Level, DONE
    <3>4. QED
      BY <3>1, <3>2, <3>3
  <2>3. QED
    BY <1>2, <2>1, <2>2
<1>8. QED
  BY <1>2, <1>4, <1>5, <1>6, <1>7 DEF AnyoneInv

(* An administrator's rejection leaves the level alone and is its own      *)
(* reason.                                                                 *)
LEMMA RejectionKeepsAnyoneInv ==
  ASSUME TypeOK, AnyoneInv, NEW s \in Stages, Rejection(s)
  PROVE  AnyoneInv' /\ current_stage_order' >= current_stage_order
<1>1. RejectApplication(s)
  BY Zenon DEF Rejection, AdminReject, OverrideReject
<1>2. /\ stage' = [stage EXCEPT ![s] = "rejected"]
      /\ verified_by' = [verified_by EXCEPT ![s] = "admin"]
      /\ status' = "rejected"
      /\ current_stage_order' = current_stage_order
      /\ is_completed' = is_completed
  BY <1>1, Zenon DEF RejectApplication
<1>3. CompletionMarkersAgree'
  BY <1>2, Zenon DEF AnyoneInv, CompletionMarkersAgree
<1>4. RejectedHasReason'
  BY <1>2 DEF RejectedHasReason, TypeOK
<1>5. PendingIsUnsigned'
  BY <1>2 DEF AnyoneInv, PendingIsUnsigned, TypeOK
<1>6. NoVerifierAhead'
  BY <1>2 DEF AnyoneInv, NoVerifierAhead, TypeOK
<1>7. current_stage_order' >= current_stage_order
  BY <1>2 DEF TypeOK, Level, DONE
<1>8. QED
  BY <1>3, <1>4, <1>5, <1>6, <1>7, Zenon DEF AnyoneInv

(* So does a resubmission: it only takes decisions back, and what it       *)
(* returns to pending it leaves unsigned.                                  *)
LEMMA ResubmitKeepsAnyoneInv ==
  ASSUME TypeOK, AnyoneInv, NEW hosteller \in BOOLEAN, Resubmit(hosteller)
  PROVE  AnyoneInv' /\ current_stage_order' >= current_stage_order
<1>1. /\ stage' = [s \in Stages |-> IF s \in Reopened(hosteller) THEN "pending"
                                   ELSE IF s \in Removed(hosteller) THEN "absent"
                                   ELSE stage[s]]
      /\ verified_by' = [s \in Stages |-> IF s \in Unsigned(hosteller) THEN "none"
                                         ELSE verified_by[s]]
      /\ status' = "in_progress"
      /\ current_stage_order' = current_stage_order
      /\ is_completed' = is_completed
  BY DEF Resubmit
<1>2. CompletionMarkersAgree'
  <2>1. status' # "completed"
    BY <1>1
  <2>2. QED
    BY <1>1, <2>1, Zenon DEF AnyoneInv, CompletionMarkersAgree
<1>3. RejectedHasReason'
  BY <1>1 DEF RejectedHasReason
<1>4. PendingIsUnsigned'
  <2> SUFFICES ASSUME NEW s \in Stages, stage'[s] \in {"absent", "pending"}
               PROVE  verified_by'[s] = "none"
    BY DEF PendingIsUnsigned
  <2>1. CASE s \in Unsigned(hosteller)
    BY <1>1, <2>1
  <2>2. CASE s \notin Unsigned(hosteller)
    BY <1>1, <2>2 DEF Unsigned, AnyoneInv, PendingIsUnsigned
  <2>3. QED
    BY <2>1, <2>2
<1>5. NoVerifierAhead'
  BY <1>1 DEF AnyoneInv, NoVerifierAhead
<1>6. current_stage_order' >= current_stage_order
  BY <1>1 DEF TypeOK, Level, DONE
<1>7. QED
  BY <1>2, <1>3, <1>4, <1>5, <1>6, Zenon DEF AnyoneInv

LEMMA StepKeepsAnyoneInv ==
  ASSUME TypeOK, AnyoneInv, [Next]_vars
  PROVE  AnyoneInv' /\ current_stage_order' >= current_stage_order
<1>1. ASSUME NEW s \in Stages, Decision(s)
      PROVE  AnyoneInv' /\ current_stage_order' >= current_stage_order
  BY <1>1, DecisionKeepsAnyoneInv
<1>2. ASSUME NEW s \in Stages, Rejection(s)
      PROVE  AnyoneInv' /\ current_stage_order' >= current_stage_order
  BY <1>2, RejectionKeepsAnyoneInv
<1>3. ASSUME NEW hosteller \in BOOLEAN, Resubmit(hosteller)
      PROVE  AnyoneInv' /\ current_stage_order' >= current_stage_order
  BY <1>3, ResubmitKeepsAnyoneInv
<1>4. current_stage_order >= current_stage_order
  BY DEF TypeOK, Level, DONE
<1>5. CASE DownloadCertificate
  <2>1. UNCHANGED <<stage, verified_by, app>>
    BY <1>5, Zenon DEF DownloadCertificate
  <2>2. QED
    BY <1>4, <2>1, Zenon DEF AnyoneInv, CompletionMarkersAgree, RejectedHasReason,
                             PendingIsUnsigned, NoVerifierAhead, app
<1>6. ASSUME NEW signed \in SUBSET Stages, DeleteReviewer(signed)
      PROVE  AnyoneInv' /\ current_stage_order' >= current_stage_order
  <2>1. UNCHANGED <<stage, app>>
    BY <1>6, Zenon DEF DeleteReviewer
  <2>2. verified_by' = [s \in Stages |-> IF s \in signed THEN "none" ELSE verified_by[s]]
    BY <1>6 DEF DeleteReviewer
  <2>3. PendingIsUnsigned' /\ NoVerifierAhead'
    BY <2>1, <2>2 DEF AnyoneInv, PendingIsUnsigned, NoVerifierAhead, app
  <2>4. CompletionMarkersAgree' /\ RejectedHasReason'
    BY <2>1, Zenon DEF AnyoneInv, CompletionMarkersAgree, RejectedHasReason, app
  <2>5. QED
    BY <1>4, <2>1, <2>3, <2>4, Zenon DEF AnyoneInv, app
<1>7. CASE UNCHANGED <<stage, verified_by, app>>
  BY <1>4, <1>7, Zenon DEF AnyoneInv, CompletionMarkersAgree, RejectedHasReason,
                           PendingIsUnsigned, NoVerifierAhead, app
<1>8. ASSUME NEW hosteller \in BOOLEAN, UpdateProfile(hosteller)
      PROVE  AnyoneInv' /\ current_stage_order' >= current_stage_order
  BY <1>7, <1>8, Zenon DEF UpdateProfile
<1>9. CASE UNCHANGED vars
  BY <1>7, <1>9, Zenon DEF vars
<1>10. QED
  BY <1>1, <1>2, <1>3, <1>5, <1>6, <1>8, <1>9 DEF Next, Decision, Rejection

(* Whoever acts, in whatever order: the markers of completion agree, a     *)
(* rejection has its reason among the rows, waiting rows are unsigned and  *)
(* no verifier is ahead of the application.                                *)
THEOREM WhoeverActs ==
  Spec => [](CompletionMarkersAgree /\ RejectedHasReason /\ PendingIsUnsigned /\ NoVerifierAhead)
<1>1. Init => AnyoneInv
  <2> SUFFICES ASSUME Init
               PROVE  AnyoneInv
    OBVIOUS
  <2>1. status = "pending" /\ current_stage_order = 1 /\ is_completed = FALSE
    BY Zenon DEF Init
  <2>2. verified_by = [s \in Stages |-> "none"]
    BY Zenon DEF Init
  <2>3. current_stage_order # DONE /\ status # "completed" /\ status # "rejected"
    BY <2>1 DEF DONE
  <2>4. CompletionMarkersAgree
    BY <2>1, <2>3, Zenon DEF CompletionMarkersAgree
  <2>5. RejectedHasReason /\ PendingIsUnsigned /\ NoVerifierAhead
    BY <2>2, <2>3 DEF RejectedHasReason, PendingIsUnsigned, NoVerifierAhead
  <2>6. QED
    BY <2>4, <2>5, Zenon DEF AnyoneInv
<1>2. TypeOK /\ AnyoneInv /\ [Next]_vars => AnyoneInv'
  BY StepKeepsAnyoneInv
<1>3. QED
  BY <1>1, <1>2, TypeCorrect, PTL DEF Spec, AnyoneInv

(* No request takes an application back to a lower level.                  *)
THEOREM LevelOnlyRises == Spec => LevelNeverDecreases
<1>1. TypeOK /\ AnyoneInv /\ [Next]_vars => [current_stage_order' >= current_stage_order]_vars
  BY StepKeepsAnyoneInv
<1>2. QED
  BY <1>1, TypeCorrect, WhoeverActs, PTL DEF Spec, AnyoneInv, LevelNeverDecreases

(* Nobody approves twice because of a resubmission, whoever decides and    *)
(* however often the student moves in and out of the hostel.               *)
THEOREM ApprovedOnce == Spec => ApprovalsOutliveResubmission
<1> DEFINE Kept == \A s \in Stages \ Hostel :
                     stage[s] = "approved" => stage'[s] \in {"approved", "rejected"}
<1>1. TypeOK /\ [Next]_vars => [Kept]_vars
  <2> SUFFICES ASSUME TypeOK, [Next]_vars,
                      NEW s \in Stages, s \notin Hostel, stage[s] = "approved"
               PROVE  stage'[s] \in {"approved", "rejected"}
    BY DEF vars
  <2>1. ASSUME NEW t \in Stages, Decision(t)
        PROVE  stage'[s] \in {"approved", "rejected"}
    <3>1. PICK decision \in {"approved", "rejected"}, who \in {"verifier", "admin"},
               from \in AppStatus : Decide(t, decision, who, from)
      BY <2>1, DecisionFacts
    <3>2. stage' = [stage EXCEPT ![t] = decision]
      BY <3>1, Zenon DEF Decide
    <3>3. QED
      BY <3>2 DEF TypeOK
  <2>2. ASSUME NEW t \in Stages, Rejection(t)
        PROVE  stage'[s] \in {"approved", "rejected"}
    <3>1. stage' = [stage EXCEPT ![t] = "rejected"]
      BY <2>2, Zenon DEF Rejection, AdminReject, OverrideReject, RejectApplication
    <3>2. QED
      BY <3>1 DEF TypeOK
  <2>3. ASSUME NEW hosteller \in BOOLEAN, Resubmit(hosteller)
        PROVE  stage'[s] \in {"approved", "rejected"}
    <3>1. s \notin Reopened(hosteller) /\ s \notin Removed(hosteller)
      BY DEF Reopened, Blocked, RejectedAt, Injected, Removed
    <3>2. QED
      BY <2>3, <3>1 DEF Resubmit
  <2>4. CASE \/ DownloadCertificate
             \/ \E signed \in SUBSET Stages : DeleteReviewer(signed)
             \/ \E hosteller \in BOOLEAN : UpdateProfile(hosteller)
             \/ UNCHANGED vars
    <3>1. stage' = stage
      BY <2>4, Zenon DEF DownloadCertificate, DeleteReviewer, UpdateProfile, vars
    <3>2. QED
      BY <3>1
  <2>5. QED
    BY <2>1, <2>2, <2>3, <2>4 DEF Next, Decision, Rejection
<1>2. QED
  BY <1>1, TypeCorrect, PTL DEF Spec, ApprovalsOutliveResubmission

------------------------------------------------------------------------------
(* Applications only verifiers decide on, of students who do not move.     *)

(* The rows of department HST follow the hosteller flag.                   *)
HostelRowFollows == \A s \in Hostel : stage[s] = "absent" <=> ~is_hosteller

(* The order DONE is the completed status's alone.                         *)
DoneMeansCompleted == current_stage_order = DONE <=> status = "completed"

VerifiersInv ==
  /\ LevelsInOrder
  /\ CompletedMeansCleared
  /\ RejectedIffBlocked
  /\ NeverStuck
  /\ DoneMeansCompleted
  /\ HostelRowFollows

(* A verifier's decision: it is taken on the current level of an           *)
(* application that is not completed.                                      *)
LEMMA VerifierDecides ==
  ASSUME TypeOK, VerifiersInv, ~AdminActs, NEW s \in Stages, Decision(s)
  PROVE  /\ stage' \in [Stages -> StageStatus]
         /\ stage[s] # "absent"
         /\ stage'[s] # "absent"
         /\ LevelOf[s] = current_stage_order
         /\ \A t \in Stages \ {s} : stage'[t] = stage[t]
         /\ is_hosteller' = is_hosteller
         /\ status # "completed"
         /\ GetsCompleted(status) \/ GetsBlocked(status)
<1>1. PICK decision \in {"approved", "rejected"} :
        /\ Decide(s, decision, "verifier", status)
        /\ stage[s] # "absent"
        /\ AtCurrentLevel(s)
  BY DEF Decision, ApproveStage, RejectStage, AdminApprove, OverrideApprove
<1>2. status \in AppStatus
  BY DEF TypeOK
<1>3. /\ stage' \in [Stages -> StageStatus]
      /\ stage' = [stage EXCEPT ![s] = decision]
      /\ is_hosteller' = is_hosteller
  BY <1>1, <1>2, DecideFacts
<1>4. LevelOf[s] = current_stage_order
  BY <1>1 DEF AtCurrentLevel
<1>5. status # "completed"
  <2>1. current_stage_order # DONE
    BY <1>4, LevelAssumption DEF Level, DONE
  <2>2. QED
    BY <2>1, Zenon DEF VerifiersInv, DoneMeansCompleted
<1>6. Outcome(status)
  <2>1. Decide(s, decision, "verifier", status)
    BY <1>1
  <2>2. QED
    BY <1>2, <2>1, DecideOutcome, Zenon
<1>7. GetsCompleted(status) \/ GetsBlocked(status)
  BY <1>5, <1>6, Zenon DEF Outcome, StaysCompleted
<1>8. /\ stage'[s] # "absent"
      /\ \A t \in Stages \ {s} : stage'[t] = stage[t]
  BY <1>3 DEF TypeOK
<1>9. QED
  BY <1>1, <1>3, <1>4, <1>5, <1>7, <1>8, Zenon

(* Everything below the level is still approved and everything above still *)
(* untouched after it, wherever the waterfall stops.                       *)
LEMMA VerifierKeepsVerifiersInv ==
  ASSUME TypeOK, VerifiersInv, ~AdminActs, NEW s \in Stages, Decision(s)
  PROVE  VerifiersInv'
<1>1. /\ stage' \in [Stages -> StageStatus]
      /\ LevelOf[s] = current_stage_order
      /\ \A t \in Stages \ {s} : stage'[t] = stage[t]
  BY VerifierDecides
<1>2. /\ \A t \in Stages : LevelOf[t] \in Level
      /\ current_stage_order \in Level
  BY <1>1, LevelAssumption
<1>3. HostelRowFollows'
  <2> SUFFICES ASSUME NEW t \in Hostel
               PROVE  stage'[t] = "absent" <=> ~is_hosteller'
    BY DEF HostelRowFollows
  <2>1. stage[t] = "absent" <=> ~is_hosteller
    BY Zenon DEF VerifiersInv, HostelRowFollows
  <2>2. is_hosteller' = is_hosteller
    BY VerifierDecides
  <2>3. stage'[t] = "absent" <=> stage[t] = "absent"
    BY VerifierDecides, HostelAssumption
  <2>4. QED
    BY <2>1, <2>2, <2>3, Zenon
<1>4. \A t \in Stages : LevelOf[t] < current_stage_order => stage'[t] \in {"approved", "absent"}
  BY <1>1, <1>2 DEF VerifiersInv, LevelsInOrder, BelowApproved, Level
<1>5. \A t \in Stages : LevelOf[t] > current_stage_order => stage'[t] \in {"pending", "absent"}
  BY <1>1, <1>2 DEF VerifiersInv, LevelsInOrder, AboveUntouched, Level
<1>6. CASE GetsCompleted(status)
  <2>1. /\ status' = "completed" /\ current_stage_order' = DONE
        /\ Blocking(stage', current_stage_order) = {}
    BY <1>6, Zenon DEF GetsCompleted
  <2>2. \A t \in Stages : stage'[t] \in {"approved", "absent"}
    BY <1>1, <1>2, <1>4, <2>1 DEF Blocking, StageStatus, Level
  <2>3. LevelsInOrder'
    BY <1>2, <2>1, <2>2 DEF LevelsInOrder, BelowApproved, AboveUntouched, Level, DONE
  <2>4. RejectedIffBlocked'
    BY <2>1, <2>2 DEF RejectedIffBlocked, Blocked, RejectedAt
  <2>5. CompletedMeansCleared' /\ NeverStuck' /\ DoneMeansCompleted'
    BY <2>1, <2>2, Zenon DEF CompletedMeansCleared, NeverStuck, DoneMeansCompleted
  <2>6. QED
    BY <1>3, <2>3, <2>4, <2>5, Zenon DEF VerifiersInv
<1>7. CASE GetsBlocked(status)
  <2>1. /\ current_stage_order' \in Level
        /\ current_stage_order' >= current_stage_order
        /\ status' = IF RejectedAt(stage', current_stage_order') # {}
                     THEN "rejected" ELSE "in_progress"
        /\ \E t \in Stages : /\ LevelOf[t] = current_stage_order'
                             /\ stage'[t] \in {"pending", "rejected"}
        /\ \A t \in Stages :
             current_stage_order <= LevelOf[t] /\ LevelOf[t] < current_stage_order'
               => stage'[t] \notin {"pending", "rejected"}
    BY <1>7 DEF GetsBlocked
  <2>2. BelowApproved'
    BY <1>1, <1>2, <1>4, <2>1 DEF BelowApproved, StageStatus, Level
  <2>3. AboveUntouched'
    BY <1>2, <1>5, <2>1 DEF AboveUntouched, Level
  <2>4. status' # "completed" /\ current_stage_order' # DONE
    BY <2>1 DEF Level, DONE
  <2>5. RejectedIffBlocked'
    BY <2>1 DEF RejectedIffBlocked, Blocked
  <2>6. NeverStuck'
    BY <2>1 DEF NeverStuck, SomeoneCanAct
  <2>7. CompletedMeansCleared' /\ DoneMeansCompleted'
    BY <2>4, Zenon DEF CompletedMeansCleared, DoneMeansCompleted
  <2>8. QED
    BY <1>3, <2>2, <2>3, <2>5, <2>6, <2>7, Zenon DEF VerifiersInv, LevelsInOrder
<1>8. QED
  BY <1>6, <1>7, VerifierDecides, Zenon

(* A resubmission of a student who does not move turns the rejected row of *)
(* the current level into a pending one, and no other row changes.         *)
LEMMA ResubmitReopens ==
  ASSUME TypeOK, VerifiersInv, HostelChanges = {},
         NEW hosteller \in BOOLEAN, Resubmit(hosteller)
  PROVE  /\ Blocked # {}
         /\ current_stage_order \in Level
         /\ status # "completed"
         /\ stage' = [s \in Stages |-> IF s \in Blocked THEN "pending" ELSE stage[s]]
         /\ status' = "in_progress"
         /\ current_stage_order' = current_stage_order
         /\ is_hosteller' = is_hosteller
<1>1. Blocked # {}
  <2>1. status = "rejected" \/ Blocked # {}
    BY Zenon DEF Resubmit
  <2>2. QED
    BY <2>1, Zenon DEF VerifiersInv, RejectedIffBlocked
<1>2. current_stage_order \in Level
  BY <1>1, LevelAssumption DEF Blocked, RejectedAt
<1>3. status # "completed"
  <2>1. current_stage_order # DONE
    BY <1>2 DEF Level, DONE
  <2>2. QED
    BY <2>1, Zenon DEF VerifiersInv, DoneMeansCompleted
<1>4. hosteller = is_hosteller
  BY Zenon DEF Resubmit
<1>5. \A s \in Hostel : stage[s] = "absent" <=> ~hosteller
  BY <1>4, Zenon DEF VerifiersInv, HostelRowFollows
<1>6. Injected(hosteller) = {}
  BY <1>5 DEF Injected
<1>7. \A s \in Removed(hosteller) : stage[s] = "absent"
  BY <1>5 DEF Removed
<1>8. stage' = [s \in Stages |-> IF s \in Reopened(hosteller) THEN "pending"
                               ELSE IF s \in Removed(hosteller) THEN "absent"
                               ELSE stage[s]]
  BY Zenon DEF Resubmit
<1>9. stage' = [s \in Stages |-> IF s \in Blocked THEN "pending" ELSE stage[s]]
  BY <1>6, <1>7, <1>8 DEF Reopened
<1>10. /\ status' = "in_progress"
       /\ current_stage_order' = current_stage_order
       /\ is_hosteller' = hosteller
  BY Zenon DEF Resubmit
<1>11. QED
  BY <1>1, <1>2, <1>3, <1>4, <1>9, <1>10, Zenon

LEMMA ResubmitKeepsVerifiersInv ==
  ASSUME TypeOK, VerifiersInv, HostelChanges = {},
         NEW hosteller \in BOOLEAN, Resubmit(hosteller)
  PROVE  VerifiersInv'
<1>1. /\ Blocked # {}
      /\ current_stage_order \in Level
      /\ stage' = [s \in Stages |-> IF s \in Blocked THEN "pending" ELSE stage[s]]
      /\ status' = "in_progress"
      /\ current_stage_order' = current_stage_order
      /\ is_hosteller' = is_hosteller
  BY ResubmitReopens, Zenon
<1>2. \A s \in Blocked : s \in Stages /\ LevelOf[s] = current_stage_order /\ stage[s] = "rejected"
  BY DEF Blocked, RejectedAt
<1>3. \A s \in Stages : LevelOf[s] # current_stage_order => stage'[s] = stage[s]
  BY <1>1, <1>2
<1>4. LevelsInOrder'
  BY <1>1, <1>3, LevelAssumption
     DEF VerifiersInv, LevelsInOrder, BelowApproved, AboveUntouched, Level
<1>5. status' # "completed" /\ status' # "rejected" /\ current_stage_order' # DONE
  BY <1>1 DEF Level, DONE
<1>6. RejectedIffBlocked'
  <2>1. \A s \in Stages : LevelOf[s] = current_stage_order => stage'[s] # "rejected"
    BY <1>1 DEF Blocked, RejectedAt
  <2>2. Blocked' = {}
    BY <1>1, <2>1 DEF Blocked, RejectedAt
  <2>3. QED
    BY <1>5, <2>2, Zenon DEF RejectedIffBlocked
<1>7. NeverStuck'
  BY <1>1, <1>2 DEF NeverStuck, SomeoneCanAct
<1>8. CompletedMeansCleared' /\ DoneMeansCompleted'
  BY <1>5, Zenon DEF CompletedMeansCleared, DoneMeansCompleted
<1>9. HostelRowFollows'
  <2> SUFFICES ASSUME NEW s \in Hostel
               PROVE  stage'[s] = "absent" <=> ~is_hosteller'
    BY DEF HostelRowFollows
  <2>1. stage'[s] = "absent" <=> stage[s] = "absent"
    BY <1>1, <1>2, HostelAssumption
  <2>2. stage[s] = "absent" <=> ~is_hosteller
    BY Zenon DEF VerifiersInv, HostelRowFollows
  <2>3. QED
    BY <1>1, <2>1, <2>2, Zenon
<1>10. QED
  BY <1>4, <1>6, <1>7, <1>8, <1>9, Zenon DEF VerifiersInv

LEMMA StepKeepsVerifiersInv ==
  ASSUME TypeOK, VerifiersInv, ~AdminActs, HostelChanges = {}, [Next]_vars
  PROVE  VerifiersInv'
<1>1. ASSUME NEW s \in Stages, Decision(s)
      PROVE  VerifiersInv'
  BY <1>1, VerifierKeepsVerifiersInv
<1>2. ASSUME NEW s \in Stages, Rejection(s)
      PROVE  VerifiersInv'
  BY <1>2, Zenon DEF Rejection, AdminReject, OverrideReject
<1>3. ASSUME NEW hosteller \in BOOLEAN, Resubmit(hosteller)
      PROVE  VerifiersInv'
  BY <1>3, ResubmitKeepsVerifiersInv
<1>4. CASE UNCHANGED <<stage, app, is_hosteller>>
  BY <1>4, Zenon DEF VerifiersInv, LevelsInOrder, BelowApproved, AboveUntouched,
       CompletedMeansCleared, RejectedIffBlocked, Blocked, RejectedAt, NeverStuck,
       SomeoneCanAct, DoneMeansCompleted, HostelRowFollows, app
<1>5. CASE DownloadCertificate
  BY <1>4, <1>5, Zenon DEF DownloadCertificate
<1>6. ASSUME NEW signed \in SUBSET Stages, DeleteReviewer(signed)
      PROVE  VerifiersInv'
  BY <1>4, <1>6, Zenon DEF DeleteReviewer
<1>7. ASSUME NEW hosteller \in BOOLEAN, UpdateProfile(hosteller)
      PROVE  VerifiersInv'
  BY <1>7, Zenon DEF UpdateProfile
<1>8. CASE UNCHANGED vars
  BY <1>4, <1>8, Zenon DEF vars
<1>9. QED
  BY <1>1, <1>2, <1>3, <1>5, <1>6, <1>7, <1>8 DEF Next, Decision, Rejection

(* A new application waits on its first level, where the School Office     *)
(* can act.                                                                *)
LEMMA InitVerifiersInv == Init => VerifiersInv
<1> SUFFICES ASSUME Init
             PROVE  VerifiersInv
  OBVIOUS
<1>1. PICK exempt \in BOOLEAN :
        stage = [s \in Stages |-> IF \/ s \in Hostel /\ ~is_hosteller
                                     \/ s \in Exempt /\ exempt
                                  THEN "absent" ELSE "pending"]
  BY Zenon DEF Init
<1>2. status = "pending" /\ current_stage_order = 1
  BY Zenon DEF Init
<1>3. LevelsInOrder
  BY <1>1, <1>2, LevelAssumption DEF LevelsInOrder, BelowApproved, AboveUntouched, Level
<1>4. \A s \in Stages : stage[s] # "rejected"
  BY <1>1
<1>5. RejectedIffBlocked
  <2>1. Blocked = {}
    BY <1>4 DEF Blocked, RejectedAt
  <2>2. status # "rejected"
    BY <1>2
  <2>3. QED
    BY <2>1, <2>2, Zenon DEF RejectedIffBlocked
<1>6. NeverStuck
  BY <1>1, <1>2, OfficeAssumption DEF NeverStuck, SomeoneCanAct
<1>7. CompletedMeansCleared /\ DoneMeansCompleted
  <2>1. status # "completed" /\ current_stage_order # DONE
    BY <1>2 DEF DONE
  <2>2. QED
    BY <2>1, Zenon DEF CompletedMeansCleared, DoneMeansCompleted
<1>8. HostelRowFollows
  <2> SUFFICES ASSUME NEW s \in Hostel
               PROVE  stage[s] = "absent" <=> ~is_hosteller
    BY DEF HostelRowFollows
  <2>1. s \in Stages /\ s \notin Exempt
    BY HostelAssumption, ExemptAssumption
  <2>2. stage[s] = IF ~is_hosteller THEN "absent" ELSE "pending"
    BY <1>1, <2>1
  <2>3. CASE is_hosteller
    BY <2>2, <2>3
  <2>4. CASE ~is_hosteller
    BY <2>2, <2>4
  <2>5. QED
    BY <2>3, <2>4
<1>9. QED
  BY <1>3, <1>5, <1>6, <1>7, <1>8, Zenon DEF VerifiersInv

(* As long as only verifiers decide and students do not move: levels open  *)
(* in order, completion means every row is approved, rejection and         *)
(* rejected rows go together, and somebody can always act until then.      *)
THEOREM VerifiersAlone ==
  ASSUME ~AdminActs, HostelChanges = {}
  PROVE  Spec => [](LevelsInOrder /\ CompletedMeansCleared /\ RejectedIffBlocked /\ NeverStuck)
<1>1. Init => VerifiersInv
  BY InitVerifiersInv
<1>2. TypeOK /\ VerifiersInv /\ [Next]_vars => VerifiersInv'
  BY StepKeepsVerifiersInv
<1>3. VerifiersInv => LevelsInOrder /\ CompletedMeansCleared /\ RejectedIffBlocked /\ NeverStuck
  BY Zenon DEF VerifiersInv
<1>4. QED
  BY <1>1, <1>2, <1>3, TypeCorrect, PTL DEF Spec

(* The list of pending tasks (by lower rows) and the check of approve_stage *)
(* (by level) agree on what can be approved.                               *)
THEOREM ListsAgree ==
  ASSUME ~AdminActs, HostelChanges = {}
  PROVE  Spec => []ListedCanBeApproved
<1>1. TypeOK /\ LevelsInOrder /\ CompletedMeansCleared /\ NeverStuck => ListedCanBeApproved
  <2> SUFFICES ASSUME TypeOK, LevelsInOrder, CompletedMeansCleared, NeverStuck,
                      NEW s \in Stages, Listed(s)
               PROVE  LevelOf[s] = current_stage_order
    BY DEF ListedCanBeApproved
  <2>1. stage[s] = "pending"
    BY DEF Listed
  <2>2. PICK t \in Stages : /\ stage[t] \in {"pending", "rejected"}
                            /\ LevelOf[t] = current_stage_order
    BY <2>1 DEF CompletedMeansCleared, NeverStuck, SomeoneCanAct
  <2>3. ~(LevelOf[s] < current_stage_order)
    BY <2>1 DEF LevelsInOrder, BelowApproved
  <2>4. ~(LevelOf[t] < LevelOf[s])
    BY <2>2 DEF Listed
  <2>5. LevelOf[s] \in Int /\ LevelOf[t] \in Int
    BY LevelAssumption DEF Level
  <2>6. QED
    BY <2>2, <2>3, <2>4, <2>5
<1>2. QED
  BY <1>1, TypeCorrect, VerifiersAlone, PTL

(* "REJECTED: Returned to student (Paused)": only a row the application    *)
(* was rejected on sets it in motion again.                                *)
THEOREM StaysPaused ==
  ASSUME ~AdminActs, HostelChanges = {}
  PROVE  Spec => PausedUntilReconsidered
<1> DEFINE Reconsidered == status = "rejected" /\ status' # "rejected" =>
                             \E s \in Blocked : stage'[s] # "rejected"
<1>1. TypeOK /\ VerifiersInv /\ [Next]_vars => [Reconsidered]_vars
  <2> SUFFICES ASSUME TypeOK, VerifiersInv, Next,
                      status = "rejected", status' # "rejected",
                      \A s \in Blocked : stage'[s] = "rejected"
               PROVE  FALSE
    OBVIOUS
  <2>1. PICK b \in Stages : b \in Blocked /\ LevelOf[b] = current_stage_order /\ stage'[b] = "rejected"
    <3>1. Blocked # {}
      BY Zenon DEF VerifiersInv, RejectedIffBlocked
    <3>2. QED
      BY <3>1 DEF Blocked, RejectedAt
  <2>2. ASSUME NEW s \in Stages, Decision(s)
        PROVE  FALSE
    <3>1. CASE GetsCompleted(status)
      BY <2>1, <3>1, LevelAssumption DEF GetsCompleted, Blocking, Level
    <3>2. CASE GetsBlocked(status)
      <4>1. current_stage_order' = current_stage_order
        BY <2>1, <3>2, LevelAssumption DEF GetsBlocked, Level
      <4>2. RejectedAt(stage', current_stage_order') # {}
        BY <2>1, <4>1 DEF RejectedAt
      <4>3. QED
        BY <3>2, <4>2 DEF GetsBlocked
    <3>3. QED
      BY <2>2, <3>1, <3>2, VerifierDecides, Zenon
  <2>3. ASSUME NEW s \in Stages, Rejection(s)
        PROVE  FALSE
    BY <2>3, Zenon DEF Rejection, AdminReject, OverrideReject
  <2>4. ASSUME NEW hosteller \in BOOLEAN, Resubmit(hosteller)
        PROVE  FALSE
    <3>1. stage' = [s \in Stages |-> IF s \in Blocked THEN "pending" ELSE stage[s]]
      BY <2>4, ResubmitReopens, Zenon
    <3>2. QED
      BY <2>1, <3>1
  <2>5. CASE \/ DownloadCertificate
             \/ \E signed \in SUBSET Stages : DeleteReviewer(signed)
             \/ \E hosteller \in BOOLEAN : UpdateProfile(hosteller)
    <3>1. UNCHANGED app
      BY <2>5, Zenon DEF DownloadCertificate, DeleteReviewer, UpdateProfile
    <3>2. QED
      BY <3>1 DEF app
  <2>6. QED
    BY <2>2, <2>3, <2>4, <2>5 DEF Next, Decision, Rejection
<1>2. Init => VerifiersInv
  BY InitVerifiersInv
<1>3. TypeOK /\ VerifiersInv /\ [Next]_vars => VerifiersInv'
  BY StepKeepsVerifiersInv
<1>4. QED
  BY <1>1, <1>2, <1>3, TypeCorrect, PTL DEF Spec, PausedUntilReconsidered
==============================================================================
