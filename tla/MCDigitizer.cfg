CONSTANTS
  Faulty <- MCFaulty
  PerRead = 2
  MaxEvents = 3
  MaxSent = 4
  MaxRuns = 2
SPECIFICATION DSpec
INVARIANTS DTypeOK BufferThereWhenRead AcquisitionOffAtRest NumbersFollow NothingHeldBack EventsSentOnce
