\* Two records: a field sent twice, two members of a oneof, a value of the wrong
\* wire type or of a newer schema before or after a good one.
CONSTANTS
  MaxRecords = 2
  Record <- AllRecords
  Depth <- DepthOf
  Sent <- SentRecords
  UnmarshalNested <- Unmarshal
  MarshalNested <- MarshalWithin
  NilTimestamp = NilTimestamp
SPECIFICATION Spec
INVARIANTS
  TrimmedAgrees
  MissingTypeOpensBlock
  ForeignPayloadOpensBlock
\* A payload ends.
CHECK_DEADLOCK FALSE
