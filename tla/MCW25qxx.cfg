SPECIFICATION Spec
CONSTANTS
  PageSize = 4
  SectorSize = 8
  BlockSize = 16
  BlockCount = 1
  BufSize = 2
  BusLimit = 8
  ChipIds <- MCChipIds
  Lengths = {0, 1, 4, 9, 17}
  MaxCalls = 2
CHECK_DEADLOCK FALSE
INVARIANTS MemoryIsAsAsked AnswersAreTrue
