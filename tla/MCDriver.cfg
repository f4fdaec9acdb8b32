CONSTANTS
  Callers = {c1, c2}
  Depth = 1
SPECIFICATION FairSpec
INVARIANTS
  WatchdogLive
  TimeoutHasRecovery
  SleepersWoken
  FreedQuiet
PROPERTIES
  SilenceDetected
  TimeoutHandled
