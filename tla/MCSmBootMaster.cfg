SPECIFICATION Spec
CONSTANTS
  Nodes = {n1, n2}
  NoNode = NoNode
  Firmwares = {a}
  NoFw = NoFw
  TableSize = 2
  NumSeg = 2
  RepeatMax = 3
  MaxCalls = 2
  MaxTrouble = 1
CHECK_DEADLOCK FALSE
INVARIANTS OutputIsSound ReportsAreTrue
PROPERTIES SessionEnds CalmUpgradeSucceeds
