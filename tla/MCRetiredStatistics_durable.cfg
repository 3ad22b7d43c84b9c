SPECIFICATION Spec
CONSTANTS
  MaxRows = 3
  MaxOther = 3
  OrderedRename = FALSE
  Faults = 6
INVARIANT NothingLost
\* Home Assistant runs: the script has nothing left to do.
CHECK_DEADLOCK FALSE
