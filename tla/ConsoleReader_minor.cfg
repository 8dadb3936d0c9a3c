\* An INIT line whose minor version is no integer.
SPECIFICATION Spec
CONSTANTS
  IdBytes = 1
  FirstStreamableBlock = 0
  NilTimestamp = NilTimestamp
  NoBlock = NoBlock
  meta = meta
  genesis = genesis
  user = user
  Word = Word
  Payload <- Payloads
  Decode <- Decoded
  Lines <- MinorLines
  ChanCap = 2
  MaxLines = 2
  InitWithin = 2
INVARIANTS
  MinorVersionParsed
\* the streams are finite and the caller stops at the first error
CHECK_DEADLOCK FALSE
