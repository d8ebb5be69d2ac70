SPECIFICATION Spec
CONSTANTS
  Objects <- MCLateObjects
  Unknown = "none"
  ObjLen <- MCLateLen
  Ext <- MCExt
  Temp <- MCTemp
  AfterReset <- MCNone
  Answers = {"processing", "abort", "copy_and_success"}
  Readable <- MCLateReadable
  Writable <- MCLateObjects
  ClientLens <- MCLateLens
  MaxTransfers = 4
  MaxLosses = 0
  PromptBus = TRUE
  Patient = FALSE
INVARIANTS BytesInPlace
CHECK_DEADLOCK FALSE
