SPECIFICATION RSpec
CONSTANTS
  MaxOverlaps = 0
  MaxActions = 4
  MaxData = 2
PROPERTY EarlierRunsKept
CHECK_DEADLOCK FALSE
