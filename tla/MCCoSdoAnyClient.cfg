SPECIFICATION AnySpec
CONSTANTS
  Objects <- MCObjects
  Unknown = "none"
  ObjLen <- MCObjLen
  Ext <- MCExt
  Temp <- MCReset
  AfterReset <- MCReset
  Answers = {"processing", "abort", "success", "copy_and_success"}
  Readable <- MCReadable
  Writable <- MCObjects
  Requests <- MCRequests
INVARIANTS TransferInObject
