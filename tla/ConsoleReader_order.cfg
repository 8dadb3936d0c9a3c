\* Streams of up to eight well formed lines, in every order.
SPECIFICATION Spec
CONSTANTS
  IdBytes = 1
  FirstStreamableBlock = 0
  NilTimestamp = NilTimestamp
  NoBlock = NoBlock
  meta = meta
  genesis = genesis
  user = user
  Word = Word
  Payload <- Payloads
  Decode <- Decoded
  Lines <- OrderLines
  ChanCap = 1
  MaxLines = 8
  InitWithin = 2
INVARIANTS
  DeliveredMatchesLines
  StatsFollowDelivery
  DeliveredLink
  ReaderInv
PROPERTIES
  DeliversBlockSource
\* the streams are finite and the caller stops at the first error
CHECK_DEADLOCK FALSE
