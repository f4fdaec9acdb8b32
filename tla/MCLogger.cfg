SPECIFICATION FairSpec
CONSTANTS
    Event = {e1, e2}
    MaxEvents = 4
INVARIANTS
    NoSleepOnWork
PROPERTIES
    ImplementsLogFile
    EventsWritten
    StopReturns
CHECK_DEADLOCK FALSE
