SPECIFICATION Spec
CONSTANTS
  Stages <- MCStages
  LevelOf <- MCLevelOf
INVARIANT LoopInvariant
PROPERTY LoopEnds
CHECK_DEADLOCK FALSE
