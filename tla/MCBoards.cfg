CONSTANTS
  Mine <- MCMine
  Type <- MCType
  File <- MCFile
  MaxLost = 1
SPECIFICATION Spec
INVARIANTS BTypeOK OpenAsConnected
PROPERTIES ConfiguredFromFile NumbersFollowSharing
CHECK_DEADLOCK FALSE
