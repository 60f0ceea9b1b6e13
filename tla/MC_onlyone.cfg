CONSTANTS
  Pids = {p1, p2}
  Inodes = {i1, i2, i3}
  InitChildren = {}
  Signals = {}
  None = None
SPECIFICATION Spec
INVARIANTS OnlyOneAtATime
SYMMETRY Interchangeable
