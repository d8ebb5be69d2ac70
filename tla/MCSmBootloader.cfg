SPECIFICATION FairSpec
CONSTANTS
  Images = {a, b}
  NoImage = NoImage
  NumSeg = 2
  NumIf = 2
  HasSub = TRUE
  MaxRetry = 2
  BootTimes <- MCBootTimes
  UpgradeTime = 30
  UninitStatus = {"VALID"}
  UninitFirst = {FALSE}
CHECK_DEADLOCK FALSE
INVARIANTS TypeOK JumpOnlyToIntactApp AckedUpgradeIsDurable ActiveInterfaceSet
PROPERTIES EraseNeedsRequest SilentMasterTimesOut QuietStartJumpsToZero
