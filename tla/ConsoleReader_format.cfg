\* Streams of up to four lines, out of format in every way, at most one before INIT.
SPECIFICATION FairSpec
CONSTANTS
  IdBytes = 1
  FirstStreamableBlock = 0
  NilTimestamp = NilTimestamp
  NoBlock = NoBlock
  meta = meta
  genesis = genesis
  user = user
  Word = Word
  Payload <- Payloads
  Decode <- Decoded
  Lines <- FormatLines
  ChanCap = 2
  MaxLines = 4
  InitWithin = 1
INVARIANTS
  TypeOK
  DeliveredMatchesLines
  ErrorIffIllegal
  EofOnlyAfterCleanEnd
PROPERTIES
  EveryLineRead
  StreamEndReported
\* the streams are finite and the caller stops at the first error
CHECK_DEADLOCK FALSE
