------------------------- MODULE WaterfallLoop_proofs -------------------------
(***************************************************************************)
(* The while loop of _update_application_status computes Advance, for any  *)
(* set of stage rows.                                                      *)
(***************************************************************************)
EXTENDS WaterfallLoop, TLAPS

(* Min picks the least element of a non-empty set of levels.               *)
LEMMA MinOfLevels ==
  ASSUME NEW S \in SUBSET Level, S # {}
  PROVE  Min(S) \in S /\ \A n \in S : Min(S) <= n
<1>1. ASSUME ~\E x \in S : \A n \in S : x <= n
      PROVE  FALSE
  <2>1. \A n \in S : n \in 1..5
    BY DEF Level
  <2>2. 1 \notin S
    BY <1>1, <2>1
  <2>3. 2 \notin S
    BY <1>1, <2>1, <2>2
  <2>4. 3 \notin S
    BY <1>1, <2>1, <2>2, <2>3
  <2>5. 4 \notin S /\ 5 \notin S
    BY <1>1, <2>1, <2>2, <2>3, <2>4
  <2>6. QED
    BY <2>1, <2>2, <2>3, <2>4, <2>5
<1>2. QED
  BY <1>1 DEF Min

(* The level the waterfall stops at is the lowest blocking one.            *)
LEMMA StopLevelFacts ==
  ASSUME NEW st, NEW l, Blocking(st, l) # {}
  PROVE  /\ StopLevel(st, l) \in Level
         /\ \E s \in Blocking(st, l) : LevelOf[s] = StopLevel(st, l)
         /\ \A s \in Blocking(st, l) : StopLevel(st, l) <= LevelOf[s]
<1> DEFINE S == {LevelOf[s] : s \in Blocking(st, l)}
<1>1. S \in SUBSET Level /\ S # {}
  BY LevelAssumption DEF Blocking
<1>2. Min(S) \in S /\ \A n \in S : Min(S) <= n
  BY <1>1, MinOfLevels
<1>3. StopLevel(st, l) = Min(S)
  BY DEF StopLevel
<1>4. QED
  BY <1>1, <1>2, <1>3

(* The rows of the loop keep their types.                                  *)
LEMMA LoopTypeOK == Spec => []TypeOK
<1>1. Init => TypeOK
  BY DEF Init, TypeOK
<1>2. TypeOK /\ [Next]_vars => TypeOK'
  <2> SUFFICES ASSUME TypeOK, [Next]_vars
               PROVE  TypeOK'
    OBVIOUS
  <2>1. CASE AlreadyCompleted
    BY <2>1 DEF TypeOK, AlreadyCompleted, Stop
  <2>2. CASE HitRejection
    BY <2>2 DEF TypeOK, HitRejection, Stop, AppRow, AppStatus
  <2>3. CASE HitPending
    BY <2>3 DEF TypeOK, HitPending, Stop, AppRow, AppStatus
  <2>4. CASE MoveUp
    <3> DEFINE S == {LevelOf[s] : s \in Above(app.order)}
               n == Min(S)
    <3>1. S \in SUBSET Level /\ S # {}
      BY <2>4, LevelAssumption DEF MoveUp, Above
    <3>2. n \in Level
      BY <3>1, MinOfLevels
    <3>3. app' = [app EXCEPT !.order = n, !.status = "in_progress"]
      BY <2>4 DEF MoveUp
    <3>4. UNCHANGED <<stage, app0, running>>
      BY <2>4 DEF MoveUp, Go
    <3> HIDE DEF n
    <3>5. QED
      BY <3>2, <3>3, <3>4 DEF TypeOK, AppRow, AppStatus
  <2>5. CASE Finish
    BY <2>5 DEF TypeOK, Finish, Stop, Completed, AppRow, AppStatus
  <2>6. CASE UNCHANGED vars
    BY <2>6 DEF TypeOK, vars
  <2>7. QED
    BY <2>1, <2>2, <2>3, <2>4, <2>5, <2>6 DEF Next
<1>3. QED
  BY <1>1, <1>2, PTL DEF Spec

(* A row on the current level that is not approved stops Advance there.    *)
LEMMA BlockedHere ==
  ASSUME TypeOK, app.status # "completed",
         NEW s \in At(app.order), stage[s] \in {"pending", "rejected"}
  PROVE  Advance(app, stage) =
           [app EXCEPT !.status = IF RejectedAt(stage, app.order) # {}
                                  THEN "rejected" ELSE "in_progress"]
<1>1. s \in Blocking(stage, app.order) /\ LevelOf[s] = app.order
  BY LevelAssumption DEF At, Blocking, Level
<1>2. app \in AppRow /\ app.order \in Level
  BY <1>1, LevelAssumption DEF TypeOK, Blocking
<1>3. /\ StopLevel(stage, app.order) \in Level
      /\ StopLevel(stage, app.order) <= app.order
      /\ StopLevel(stage, app.order) >= app.order
  <2>1. Blocking(stage, app.order) # {}
    BY <1>1
  <2>2. QED
    BY <1>1, <2>1, StopLevelFacts DEF Blocking
<1>4. StopLevel(stage, app.order) = app.order
  BY <1>2, <1>3 DEF Level
<1>5. Advance(app, stage) =
        [app EXCEPT !.order = app.order,
                    !.status = IF RejectedAt(stage, app.order) # {}
                               THEN "rejected" ELSE "in_progress"]
  BY <1>1, <1>4 DEF Advance
<1>6. QED
  BY <1>2, <1>5 DEF AppRow

(* Moving up over a cleared level leaves the result as it was.             *)
LEMMA MoveUpKeepsResult ==
  ASSUME TypeOK, MoveUp
  PROVE  Advance(app', stage) = Advance(app, stage)
<1> DEFINE S == {LevelOf[s] : s \in Above(app.order)}
           n == Min(S)
<1>1. S \in SUBSET Level /\ S # {}
  BY LevelAssumption DEF MoveUp, Above
<1>2. n \in S /\ \A k \in S : n <= k
  BY <1>1, MinOfLevels
<1>3. app' = [app EXCEPT !.order = n, !.status = "in_progress"]
  BY DEF MoveUp
<1>4. app \in AppRow /\ app.order \in Int /\ \A s \in Stages : LevelOf[s] \in Int
  BY LevelAssumption DEF TypeOK, AppRow, Level, DONE
<1>5. n \in Level /\ n > app.order
  BY <1>1, <1>2 DEF Above
<1>6. app'.order = n /\ app'.status = "in_progress"
  BY <1>3, <1>4 DEF AppRow
<1>7. Blocking(stage, app'.order) = Blocking(stage, app.order)
  <2>1. ASSUME NEW s \in Blocking(stage, app.order)
        PROVE  s \in Blocking(stage, n)
    <3>1. s \in Stages /\ stage[s] \in {"pending", "rejected"} /\ LevelOf[s] >= app.order
      BY <2>1 DEF Blocking
    <3>2. LevelOf[s] # app.order
      BY <3>1 DEF MoveUp, LevelCleared, At
    <3>3. s \in Above(app.order)
      BY <3>1, <3>2, <1>4 DEF Above
    <3>4. LevelOf[s] >= n
      BY <3>3, <1>2
    <3>5. QED
      BY <3>1, <3>4 DEF Blocking
  <2>2. ASSUME NEW s \in Blocking(stage, n)
        PROVE  s \in Blocking(stage, app.order)
    BY <2>2, <1>4, <1>5 DEF Blocking, Level
  <2>3. QED
    BY <2>1, <2>2, <1>6
<1>8. app.status # "completed"
  BY DEF MoveUp, LevelCleared
<1> HIDE DEF n
<1>9. CASE Blocking(stage, app.order) = {}
  BY <1>6, <1>7, <1>8, <1>9 DEF Advance
<1>10. CASE Blocking(stage, app.order) # {}
  <2> DEFINE l == StopLevel(stage, app.order)
             v == IF RejectedAt(stage, l) # {} THEN "rejected" ELSE "in_progress"
  <2>1. StopLevel(stage, app'.order) = l
    BY <1>7 DEF StopLevel
  <2>2. Advance(app, stage) = [app EXCEPT !.order = l, !.status = v]
    BY <1>8, <1>10 DEF Advance
  <2>3. Advance(app', stage) = [app' EXCEPT !.order = l, !.status = v]
    BY <1>6, <1>7, <1>10, <2>1 DEF Advance
  <2> HIDE DEF l, v
  <2>4. QED
    BY <1>3, <1>4, <2>2, <2>3 DEF AppRow
<1>11. QED
  BY <1>9, <1>10

(* The loop computes the closed form: the loop invariant holds in every    *)
(* iteration, for every set of stage rows and every mixture of statuses.   *)
THEOREM LoopInvariantHolds == Spec => []LoopInvariant
<1>1. Init => LoopInvariant
  BY DEF Init, LoopInvariant
<1>2. TypeOK /\ LoopInvariant /\ [Next]_vars => LoopInvariant'
  <2> SUFFICES ASSUME TypeOK, LoopInvariant, [Next]_vars
               PROVE  LoopInvariant'
    OBVIOUS
  <2>1. CASE AlreadyCompleted
    BY <2>1 DEF LoopInvariant, AlreadyCompleted, Stop, Advance
  <2>2. CASE HitRejection
    <3>1. PICK s \in At(app.order) : stage[s] = "rejected"
      BY <2>2 DEF HitRejection
    <3>2. RejectedAt(stage, app.order) # {}
      BY <3>1 DEF At, RejectedAt
    <3>3. Advance(app, stage) = [app EXCEPT !.status = "rejected"]
      BY <2>2, <3>1, <3>2, BlockedHere DEF HitRejection
    <3>4. QED
      BY <2>2, <3>3 DEF LoopInvariant, HitRejection, Stop
  <2>3. CASE HitPending
    <3>1. PICK s \in At(app.order) : stage[s] = "pending"
      BY <2>3 DEF HitPending
    <3>2. RejectedAt(stage, app.order) = {}
      BY <2>3 DEF HitPending, At, RejectedAt
    <3>3. Advance(app, stage) = [app EXCEPT !.status = "in_progress"]
      BY <2>3, <3>1, <3>2, BlockedHere DEF HitPending
    <3>4. QED
      BY <2>3, <3>3 DEF LoopInvariant, HitPending, Stop
  <2>4. CASE MoveUp
    <3>1. Advance(app', stage) = Advance(app, stage)
      BY <2>4, MoveUpKeepsResult
    <3>2. running /\ UNCHANGED <<stage, app0, running>>
      BY <2>4 DEF MoveUp, LevelCleared, Go
    <3>3. QED
      BY <3>1, <3>2 DEF LoopInvariant
  <2>5. CASE Finish
    <3>1. running /\ app' = Completed /\ running' = FALSE /\ UNCHANGED <<stage, app0>>
      BY <2>5 DEF Finish, LevelCleared, Stop
    <3>2. Blocking(stage, app.order) = {}
      BY <2>5, LevelAssumption
         DEF Finish, LevelCleared, At, Above, Blocking, Level, TypeOK, AppRow, DONE
    <3>3. Advance(app, stage) = Completed
      BY <2>5, <3>2 DEF Finish, LevelCleared, Advance
    <3>4. QED
      BY <3>1, <3>3 DEF LoopInvariant
  <2>6. CASE UNCHANGED vars
    BY <2>6 DEF LoopInvariant, vars
  <2>7. QED
    BY <2>1, <2>2, <2>3, <2>4, <2>5, <2>6 DEF Next
<1>3. QED
  BY <1>1, <1>2, LoopTypeOK, PTL DEF Spec

(* What LoopEnds rests on besides the scheduling of the request: an        *)
(* iteration that does not end the loop takes the row strictly up, to one  *)
(* of the five levels, so the loop never goes round more than five times.  *)
THEOREM IterationsClimb ==
  Spec => [][running' => app'.order \in Level /\ app'.order > app.order]_vars
<1> DEFINE Climbs == running' => app'.order \in Level /\ app'.order > app.order
<1>1. TypeOK /\ [Next]_vars => [Climbs]_vars
  <2> SUFFICES ASSUME TypeOK, Next, running'
               PROVE  app'.order \in Level /\ app'.order > app.order
    OBVIOUS
  <2> DEFINE S == {LevelOf[s] : s \in Above(app.order)}
             n == Min(S)
  <2>1. MoveUp
    BY DEF Next, AlreadyCompleted, HitRejection, HitPending, Finish, Stop
  <2>2. S \in SUBSET Level /\ S # {}
    BY <2>1, LevelAssumption DEF MoveUp, Above
  <2>3. n \in Level /\ n > app.order
    BY <2>2, MinOfLevels DEF Above
  <2>4. app' = [app EXCEPT !.order = n, !.status = "in_progress"]
    BY <2>1 DEF MoveUp
  <2> HIDE DEF n
  <2>5. app'.order = n
    BY <2>4 DEF TypeOK, AppRow
  <2>6. QED
    BY <2>3, <2>5
<1>2. QED
  BY <1>1, LoopTypeOK, PTL DEF Spec
==============================================================================
