\* A node of another network than the configured one.
SPECIFICATION Spec
CONSTANTS
  IdBytes = 1
  FirstStreamableBlock = 0
  NilTimestamp = NilTimestamp
  NoBlock = NoBlock
  meta = meta
  genesis = genesis
  user = user
  Word = Word
  Payload <- Payloads
  Decode <- Decoded
  Lines <- NetworkLines
  ChanCap = 2
  MaxLines = 5
  InitWithin = 5
INVARIANTS
  ReadsRightNetwork
\* the streams are finite and the caller stops at the first error
CHECK_DEADLOCK FALSE
