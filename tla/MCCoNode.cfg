\* A node that stores, restores, loses power and sends in the cycle of SYNC.
SPECIFICATION FairNodeSpec
CONSTANTS
  t1 = t1
  a1 = a1
  a2 = a2
  Torn = torn
  NoCrc = nocrc
  None = none
  torn = torn
  nocrc = nocrc
  none = none
  Values <- MCValues
  Default <- MCDefault
  Tpdos <- MCTpdos
  Diffs <- MCDiffs
  Dictionaries <- MCDictionaries
  Pasts <- MCPasts
  SyncFrames <- MCFrames
  Types <- MCTypes
  Masks <- MCMasks
  Width = 4
  FrameLen = 3
  MaxMapped = 3
  MaxCalls = 2
  MaxTrouble = 1
INVARIANTS RunsOnWhole CycleIsSound MapsWhatItNames
PROPERTIES StartIsSound TurnsCome
