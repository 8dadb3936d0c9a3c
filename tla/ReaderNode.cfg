\* Crashes and restarts at every point, and progress of the plugin under fairness.
SPECIFICATION FairSpec
CONSTANTS
  FirstStreamableBlock = 1
  ChanCap = 3
  MaxBlock = 6
  MaxStops = 4
  Absent = Absent
  Empty = Empty
  Corrupt = Corrupt
  NoBlockNum = NoBlockNum
INVARIANTS
  TypeOK
  NoHole
  SyncStateIsStored
  RestartsAgree
  ResumeInv
PROPERTIES
  ResetsOnlyWhenCut
  ProducedIsSeen
\* with a corrupt file the process cannot be started again, and the chain is finite
CHECK_DEADLOCK FALSE
