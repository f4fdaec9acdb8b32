CONSTANTS
  RingCapacity = 2
  MAX_TIMELINE = 2
  MaxTimeouts = 2
  MaxRecoveries = 2
  MaxFrames = 1
SPECIFICATION Spec
INVARIANTS
  CausalOrder
  CountsCoverTimeline
  CyclesPaired
CHECK_DEADLOCK FALSE
