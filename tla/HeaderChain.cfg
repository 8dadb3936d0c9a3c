\* Streams across every carry of a height, up to the largest one.
SPECIFICATION Spec
CONSTANTS
  IdBytes = 2
  FirstStreamableBlock = 3
  NilTimestamp = NilTimestamp
  NoBlock = NoBlock
  Starts <- StartHeights
  MaxHeight = 65535
INVARIANTS
  ParentLinked
  IdsSortAsHeights
  LibWithinChain
PROPERTIES
  LibAdvances
\* a stream ends at the largest height
CHECK_DEADLOCK FALSE
