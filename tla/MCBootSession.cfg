SPECIFICATION FairSessionSpec
CONSTANTS
  Images = {old, new}
  NoImage = NoImage
  NumSeg = 2
  NumIf = 1
  HasSub = FALSE
  MaxRetry = 1
  BootTimes = {2}
  UpgradeTime = 30
  UninitStatus = {"VALID"}
  UninitFirst = {FALSE}
  SegChunks <- MCSegChunks
  RepeatMax = 3
  RetryMax = 2
  Firmware = new
  MaxFaults = 1
  MaxLate = 1
CHECK_DEADLOCK FALSE
INVARIANTS SegmentsComeWhole SuccessIsInstalled
PROPERTIES Spec SessionEnds CalmSessionSucceeds
