CONSTANTS
  CommandLines <- ShortLines
  MaxXio = 2
SPECIFICATION FairSpec
INVARIANTS TypeOK DriversUnderLock LoopIsReady BusIffExpanders
PROPERTIES StartUpEnds
CHECK_DEADLOCK FALSE
