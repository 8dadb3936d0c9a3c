\* Bundles merged in any order behind the chain, and the tools over them.
SPECIFICATION ArchiveSpec
CONSTANTS
  IdBytes = 1
  FirstStreamableBlock = 0
  NilTimestamp = NilTimestamp
  NoBlock = NoBlock
  Starts <- ArchiveStarts
  MaxHeight = 105
  BundleSize = 25
  NameDigits = 2
  MostDigits = 3
  ShownDigits = 2
INVARIANTS
  FindsArchivedBlocks
  WalksItsOwnFile
  LeadsToParent
\* the chain ends at the last height
CHECK_DEADLOCK FALSE
