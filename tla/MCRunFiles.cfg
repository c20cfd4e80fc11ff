SPECIFICATION RSpec
CONSTANTS
  MaxOverlaps = 1
  MaxActions = 3
  MaxData = 3
INVARIANTS RTypeOK RunsApart NoHoles Accounted
CHECK_DEADLOCK FALSE
