SPECIFICATION FairSpec
CONSTANTS
  Objects <- MCObjects
  Unknown = "none"
  ObjLen <- MCObjLen
  Ext <- MCExt
  Temp <- MCTemp
  AfterReset <- MCNone
  Answers = {"processing", "abort", "copy_and_success"}
  Readable <- MCReadable
  Writable <- MCWritable
  ClientLens <- MCWhole
  MaxTransfers = 3
  MaxLosses = 2
  PromptBus = TRUE
  Patient = TRUE
INVARIANTS SuccessIsTrue SlotIsFree
PROPERTIES ImplementsTransfer BothBecomeFree
