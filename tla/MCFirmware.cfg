CONSTANTS
  Hosts <- MCHosts
  QueueDepth = 1
SPECIFICATION FairSpec
INVARIANTS
  FramesWhole
  SafeModeQuiet
PROPERTIES
  CriticalEntersSafeMode
  CommandFinished
  HeartbeatContinues
