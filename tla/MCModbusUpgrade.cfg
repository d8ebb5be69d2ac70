SPECIFICATION Spec
CONSTANTS
  SegChunks <- MCSegChunks
  SegBytes <- MCSegBytes
  BSS_MODBUS_FILE_MAX_LEN = 2
  RepeatMax = 3
  RetryMax = 1
  Unit = 1
  AppCalls <- MCAppCalls
  MaxApp = 1
  MaxLine = 2
  MaxTrouble = 2
CHECK_DEADLOCK FALSE
INVARIANTS SegmentsComeWhole ClientChecksSuffice
PROPERTIES AppResultIsOwn SessionEnds
