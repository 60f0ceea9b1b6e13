CONSTANTS
  Pids = {p1, p2, p3}
  Inodes = {i1, i2, i3}
  InitChildren = {p3}
  Signals = {"SIGTERM", "SIGINT"}
  None = None
SPECIFICATION Spec
INVARIANTS TypeOK OneHolderPerFile
PROPERTIES RefusedOnlyByHolder PidWrittenUnderLock
SYMMETRY Interchangeable
