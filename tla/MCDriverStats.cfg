CONSTANTS
  NCpus = 2
  Depth = 1
  SAFETY_TIMELINE_DEPTH = 2
  MaxPushes = 2
  MaxCalls = 1
SPECIFICATION Spec
INVARIANTS
  TimelineShown
  DropsAgree
  ReadsAddUp
  WatermarkCovers
CHECK_DEADLOCK FALSE
