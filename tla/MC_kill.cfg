CONSTANTS
  Pids = {p1, p2}
  Inodes = {i1, i2, i3}
  InitChildren = {}
  Signals = {"SIGTERM", "SIGINT"}
  None = None
SPECIFICATION Spec
PROPERTIES KillHitsDaemon
SYMMETRY Interchangeable
