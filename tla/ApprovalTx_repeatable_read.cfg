SPECIFICATION Spec
CONSTANTS
  Stages <- MCStages
  LevelOf <- MCLevelOf
  Request = {r1, r2}
  RepeatableRead = TRUE
  Habits = {"pending_only", "one_per_row", "resubmit_alone"}
INVARIANT NotStuckAtRest
CHECK_DEADLOCK FALSE
