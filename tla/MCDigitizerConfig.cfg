CONSTANTS
  Files <- MCFiles
  Hardware <- MCHardware
  RecordLengthOf <- MCRecordLengthOf
  PostTriggerOf <- MCPostTriggerOf
  MaxInits = 3
SPECIFICATION CSpec
INVARIANTS CTypeOK AsInitialized DirectWritesLast KnownIsTrue InterruptsConfigured
CHECK_DEADLOCK FALSE
