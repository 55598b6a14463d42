SPECIFICATION Spec
CONSTANTS
  Stages <- MCStages
  LevelOf <- MCLevelOf
  Request = {r1, r2, r3}
  RepeatableRead = FALSE
  Habits = {"pending_only", "one_per_row", "resubmit_alone"}
INVARIANT NotStuckAtRest
PROPERTY Serializable
CHECK_DEADLOCK FALSE
