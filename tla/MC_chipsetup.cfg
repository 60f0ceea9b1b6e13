CONSTANTS
  CommandLines <- ShortLines
  MaxXio = 2
SPECIFICATION Spec
INVARIANTS ExpandersSetUp
CHECK_DEADLOCK FALSE
