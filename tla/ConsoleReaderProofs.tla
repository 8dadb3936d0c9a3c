------------------------- MODULE ConsoleReaderProofs -------------------------
(*****************************************************************************)
(* The console reader for every set of lines, every channel capacity and     *)
(* every width of a height: its types, the invariant it keeps between lines, *)
(* and that it is a BlockSource. The argument: the active block is well      *)
(* formed as far as it goes (AddTransactionWellFormed), so the block that    *)
(* BLOCK_END closes is well formed, and so is its header (HeaderWellFormed); *)
(* and it is what the lines since the open BLOCK_START say (RemembersLines), *)
(* so the reader judges the next line as the format does (FormatDecided).    *)
(*****************************************************************************)
EXTENDS ConsoleReader, DataLemmas, TLAPS

\* The weights of the bytes of a height, and the number of chain ids, are positive.
LEMMA Weights ==
  /\ \A i \in 0 .. IdBytes : 256^i \in Nat \ {0}
  /\ 16^IdBytes \in Nat \ {0}
<1>1. /\ 256 \in {16, 256} /\ 256 \in Nat \ {0} /\ 16 \in {16, 256} /\ 16 \in Nat \ {0}
      /\ IdBytes \in Nat
  BY AptosBlockAssumption
<1>2. 256^0 = 1 /\ \A i \in 1 .. IdBytes : 256^i = 256 * 256^(i - 1)
  BY <1>1, WeightAssumption
<1>3. 16^0 = 1 /\ \A i \in 1 .. IdBytes : 16^i = 16 * 16^(i - 1)
  BY <1>1, WeightAssumption
<1>4. \A i \in 0 .. IdBytes : 256^i \in Nat \ {0}
  BY <1>1, <1>2, PowersPositive
<1>5. \A i \in 0 .. IdBytes : 16^i \in Nat \ {0}
  BY <1>1, <1>3, PowersPositive
<1> QED
  BY <1>1, <1>4, <1>5

\* The identifier of a height is a string of hexadecimal digits.
LEMMA IDType ==
  ASSUME NEW h \in Uint64
  PROVE  Uint64ToID(h) \in Seq(HexDigit)
<1> DEFINE hash == Uint64ToHash(h)
<1>1. hash \in [1 .. IdBytes -> 0 .. 255]
  <2>1. ASSUME NEW i \in 1 .. IdBytes
        PROVE  (h \div 256^(IdBytes - i)) % 256 \in 0 .. 255
    <3>1. IdBytes - i \in 0 .. IdBytes /\ h \in Int
      BY AptosBlockAssumption DEF Uint64
    <3>2. 256^(IdBytes - i) \in Nat \ {0}
      BY <3>1, Weights
    <3> QED
      BY <3>1, <3>2
  <2> QED
    BY <2>1 DEF Uint64ToHash
<1>2. ASSUME NEW d \in 1 .. 2 * IdBytes
      PROVE  (IF d % 2 = 1 THEN hash[(d + 1) \div 2] \div 16
                           ELSE hash[(d + 1) \div 2] % 16) \in HexDigit
  <2> DEFINE byte == hash[(d + 1) \div 2]
  <2>1. (d + 1) \div 2 \in 1 .. IdBytes
    BY AptosBlockAssumption
  <2>2. byte \in 0 .. 255
    BY <1>1, <2>1
  <2> HIDE DEF byte
  <2>3. byte \div 16 \in HexDigit /\ byte % 16 \in HexDigit
    BY <2>2 DEF HexDigit
  <2> QED
    BY <2>3 DEF byte
<1>3. Uint64ToID(h) \in [1 .. 2 * IdBytes -> HexDigit]
  BY <1>2 DEF Uint64ToID
<1> QED
  BY <1>3, AptosBlockAssumption

\* The conversion of a block is a header.
LEMMA HeaderType ==
  ASSUME NEW b \in Block
  PROVE  BlockFromProto(b) \in Header
<1>1. b.height \in Uint64 /\ b.height \in Nat
  BY DEF Block, Uint64
<1>2. ID(b) \in Seq(HexDigit)
  BY <1>1, IDType DEF ID
<1>3. PreviousID(b) \in Seq(HexDigit)
  <2>1. CASE b.height = 0
    BY <2>1 DEF PreviousID, EmptyID
  <2>2. CASE b.height # 0
    <3>1. PreviousNum(b) \in Uint64
      BY <1>1, <2>2, Weights, AptosBlockAssumption DEF PreviousNum, Uint64
    <3> QED
      BY <2>2, <3>1, IDType DEF PreviousID
  <2> QED
    BY <2>1, <2>2
<1>4. AsTime(b.timestamp) \in Nat
  BY DEF AsTime, Block, Timestamp
<1>5. LIBNum(b) \in Uint64
  BY <1>1, AptosBlockAssumption DEF LIBNum, Uint64
<1> QED
  BY <1>1, <1>2, <1>3, <1>4, <1>5 DEF BlockFromProto, Header

\* Adding a transaction to a block gives a block with the transaction at its end.
LEMMA AddTransactionType ==
  ASSUME NEW b \in Block, NEW trx \in Transaction
  PROVE  /\ AddTransaction(b, trx) \in Block
         /\ AddTransaction(b, trx).height = b.height
         /\ AddTransaction(b, trx).chainId = b.chainId
         /\ AddTransaction(b, trx).transactions = Append(b.transactions, trx)
         /\ AddTransaction(b, trx).timestamp =
              IF b.transactions = <<>> THEN trx.timestamp ELSE b.timestamp
<1> DEFINE ts == IF b.transactions = <<>> THEN trx.timestamp ELSE b.timestamp
           b1 == [b EXCEPT !.timestamp = ts]
<1>1. ts \in Timestamp
  BY DEF Block, Transaction
<1>2. /\ b1 \in Block /\ b1.height = b.height /\ b1.chainId = b.chainId
      /\ b1.timestamp = ts /\ b1.transactions = b.transactions
  BY <1>1 DEF Block
<1>3. AddTransaction(b, trx) = [b1 EXCEPT !.transactions = Append(b.transactions, trx)]
  BY DEF AddTransaction, Block
<1>4. Append(b.transactions, trx) \in Seq(Transaction)
  BY DEF Block
<1> HIDE DEF b1, ts
<1> QED
  BY <1>2, <1>3, <1>4 DEF Block, ts

-------------------------------------------------------------------------------
(* Type correctness                                                          *)

\* Handling a line moves it from the channel to the history.
LEMMA ReceiveType ==
  ASSUME TypeOK, Receive
  PROVE  /\ lines' \in Seq(Lines) /\ Len(lines') <= ChanCap
         /\ consumed' \in Seq(Lines)
         /\ Head(lines) \in Line
<1>1. lines \in Seq(Lines) /\ lines # <<>>
  BY DEF TypeOK, Receive
<1>2. Head(lines) \in Lines /\ Tail(lines) \in Seq(Lines) /\ Len(Tail(lines)) = Len(lines) - 1
  BY <1>1
<1>3. Len(lines) \in Nat /\ Len(lines) <= ChanCap /\ ChanCap \in Nat
  BY <1>1, ConsoleReaderAssumption DEF TypeOK
<1>4. consumed' \in Seq(Lines)
  BY <1>2 DEF TypeOK, Receive
<1> QED
  BY <1>2, <1>3, <1>4, ConsoleReaderAssumption DEF Receive

\* The state the code keeps always has the types the source declares.
THEOREM TypeInvariant == Spec => []TypeOK
<1>1. Init => TypeOK
  <2>1. 0 \in Uint32
    BY Weights DEF Uint32
  <2>2. <<>> \in Seq(Lines) /\ Len(<<>>) <= ChanCap /\ <<>> \in Seq(Header)
    BY ConsoleReaderAssumption
  <2> QED
    BY <2>1, <2>2 DEF Init, TypeOK
<1>2. TypeOK /\ [Next]_vars => TypeOK'
  <2> SUFFICES ASSUME TypeOK, [Next]_vars
               PROVE  TypeOK'
    OBVIOUS
  <2>1. ASSUME NEW l \in Lines, SendLine(l)
        PROVE  TypeOK'
    BY <2>1, ConsoleReaderAssumption DEF TypeOK, SendLine, producerVars, readerVars
  <2>2. ASSUME NEW end \in {"eof", "failed"}, ScanEnds(end)
        PROVE  TypeOK'
    BY <2>2 DEF TypeOK, ScanEnds, ClosesLines, readerVars
  <2>3. CASE SkipNotFirehose \/ SkipBeforeInit \/ SkipUnknown
    BY <2>3, ReceiveType
    DEF TypeOK, SkipNotFirehose, SkipBeforeInit, SkipUnknown, Receive, producerVars, readerVars
  <2>4. CASE ReadInit
    <3>1. chainID' \in Uint32
      BY <2>4 DEF ReadInit, InitOK
    <3> QED
      BY <2>4, <3>1, ReceiveType DEF TypeOK, ReadInit, Receive, producerVars
  <2>5. CASE ReadBlockStart
    <3>1. Head(lines).params[1] \in Uint64
      BY <2>5 DEF ReadBlockStart, BlockStartOK
    <3>2. activeBlock' \in Block
      BY <2>5, <3>1 DEF ReadBlockStart, StartedBlock, TypeOK, Block, Timestamp
    <3> QED
      BY <2>5, <3>2, ReceiveType DEF TypeOK, ReadBlockStart, Receive, producerVars
  <2>6. CASE ReadTransaction
    <3>1. Head(lines).params[1] \in Payload /\ activeBlock \in Block
      BY <2>6 DEF ReadTransaction, TransactionOK, TypeOK
    <3>2. Decode[Head(lines).params[1]] \in Transaction
      BY <3>1, ConsoleReaderAssumption
    <3>3. activeBlock' \in Block
      BY <2>6, <3>1, <3>2, AddTransactionType DEF ReadTransaction
    <3> QED
      BY <2>6, <3>3, ReceiveType DEF TypeOK, ReadTransaction, Receive, producerVars
  <2>7. CASE ReadBlockEnd \/ FailConversion
    <3>1. EndBlock
      BY <2>7 DEF ReadBlockEnd, FailConversion
    <3>2. activeBlock \in Block
      BY <3>1 DEF EndBlock, BlockEndOK, TypeOK
    <3>3. /\ activeBlock' = NoBlock
          /\ \E h \in Uint64 : lastBlock' = [id |-> Uint64ToID(h), num |-> h]
      BY <3>1, <3>2 DEF EndBlock, AsRef, ID, Block
    <3>4. caller' \in {caller, "unconverted"}
      BY <2>7 DEF ReadBlockEnd, FailConversion
    <3>5. delivered' \in Seq(Header)
      <4>1. BlockFromProto(activeBlock) \in Header
        BY <3>2, HeaderType
      <4> QED
        BY <2>7, <4>1 DEF ReadBlockEnd, FailConversion, TypeOK
    <3> QED
      BY <3>1, <3>3, <3>4, <3>5, ReceiveType DEF TypeOK, EndBlock, Receive, producerVars
  <2>8. CASE RejectLine \/ PanicOnBarePrefix
    BY <2>8, ReceiveType
    DEF TypeOK, RejectLine, PanicOnBarePrefix, Receive, producerVars, readerVars
  <2>9. CASE ReadEOF
    BY <2>9 DEF TypeOK, ReadEOF, producerVars, readerVars
  <2>10. CASE UNCHANGED vars
    BY <2>10 DEF TypeOK, vars, producerVars, readerVars
  <2> QED
    BY <2>1, <2>2, <2>3, <2>4, <2>5, <2>6, <2>7, <2>8, <2>9, <2>10
    DEF Next, ProcessData, ReadBlock
<1> QED
  BY <1>1, <1>2, PTL DEF Spec

-------------------------------------------------------------------------------
(* The invariant of the reader                                               *)

\* Extending a block by a transaction the reader accepts keeps it well formed.
LEMMA AddTransactionWellFormed ==
  ASSUME NEW b \in Block, NEW trx \in Transaction,
         b.transactions # <<>> => WellFormed(b),
         BoundaryOK(b.transactions, trx)
  PROVE  WellFormed(AddTransaction(b, trx))
<1> DEFINE old == b.transactions
           new == Append(old, trx)
<1>1. old \in Seq(Transaction) /\ Len(old) \in Nat
  BY DEF Block
<1>2. /\ DOMAIN new = 1 .. Len(old) + 1
      /\ new[Len(old) + 1] = trx
      /\ \A i \in 1 .. Len(old) : new[i] = old[i]
  BY <1>1
<1>3. CASE old = <<>>
  BY <1>1, <1>2, <1>3, AddTransactionType DEF WellFormed, BoundaryOK
<1>4. CASE old # <<>>
  <2>1. WellFormed(b) /\ ~IsBlockStartBoundaryType(trx)
    BY <1>4 DEF BoundaryOK
  <2>2. \A i \in DOMAIN new : IsBlockStartBoundaryType(new[i]) <=> i = 1
    <3> SUFFICES ASSUME NEW i \in 1 .. Len(old) + 1
                 PROVE  IsBlockStartBoundaryType(new[i]) <=> i = 1
      BY <1>2
    <3>1. CASE i = Len(old) + 1
      BY <1>1, <1>2, <1>4, <2>1, <3>1
    <3>2. CASE i \in 1 .. Len(old)
      BY <1>1, <1>2, <2>1, <3>2 DEF WellFormed
    <3> QED
      BY <1>1, <3>1, <3>2
  <2>3. new # <<>> /\ new[1] = old[1]
    BY <1>1, <1>2, <1>4
  <2> QED
    BY <1>4, <2>1, <2>2, <2>3, AddTransactionType DEF WellFormed
<1> QED
  BY <1>3, <1>4

\* What the reader keeps true of its blocks holds of every reachable state.
LEMMA BlocksInvariant == Spec => []BlocksInv
<1>1. Init => BlocksInv
  BY DEF Init, BlocksInv, ActiveBlockInv, DeliveredInv, StreamInv, StatsFollowDelivery
<1>2. TypeOK /\ TypeOK' /\ BlocksInv /\ [Next]_vars => BlocksInv'
  <2> SUFFICES ASSUME TypeOK, TypeOK', BlocksInv, [Next]_vars
               PROVE  BlocksInv'
    OBVIOUS
  <2> USE DEF BlocksInv
  <2>1. ASSUME NEW l \in Lines, SendLine(l)
        PROVE  BlocksInv'
    BY <2>1 DEF SendLine, Scanning, producerVars, readerVars,
                ActiveBlockInv, DeliveredInv, StreamInv, StatsFollowDelivery
  <2>2. ASSUME NEW end \in {"eof", "failed"}, ScanEnds(end)
        PROVE  BlocksInv'
    BY <2>2 DEF ScanEnds, Scanning, ClosesLines, readerVars,
                ActiveBlockInv, DeliveredInv, StreamInv, StatsFollowDelivery
  <2>3. ASSUME Receive, UNCHANGED <<readerVars, delivered>>, caller' \in {caller, "error", "panic"}
        PROVE  BlocksInv'
    BY <2>3 DEF Receive, producerVars, readerVars,
                ActiveBlockInv, DeliveredInv, StreamInv, StatsFollowDelivery
  <2>4. CASE SkipNotFirehose \/ SkipBeforeInit \/ SkipUnknown \/ RejectLine \/ PanicOnBarePrefix
    BY <2>3, <2>4 DEF SkipNotFirehose, SkipBeforeInit, SkipUnknown, RejectLine, PanicOnBarePrefix
  <2>5. CASE ReadInit
    <3>1. activeBlock = NoBlock /\ delivered = <<>>
      BY <2>5 DEF ReadInit, ActiveBlockInv, DeliveredInv
    <3> QED
      BY <2>5, <3>1 DEF ReadInit, Receive, producerVars,
                        ActiveBlockInv, DeliveredInv, StreamInv, StatsFollowDelivery
  <2>6. CASE ReadBlockStart
    <3>1. ActiveBlockInv'
      BY <2>6 DEF ReadBlockStart, StartedBlock, ActiveBlockInv
    <3> QED
      BY <2>6, <3>1 DEF ReadBlockStart, Receive, producerVars,
                        DeliveredInv, StreamInv, StatsFollowDelivery
  <2>7. CASE ReadTransaction
    <3> DEFINE trx == Decode[Head(lines).params[1]]
    <3>1. /\ activeBlock # NoBlock /\ activeBlock \in Block
          /\ trx \in Transaction
          /\ BoundaryOK(activeBlock.transactions, trx)
      BY <2>7, ConsoleReaderAssumption DEF ReadTransaction, TransactionOK, TypeOK
    <3>2. activeBlock' = AddTransaction(activeBlock, trx)
      BY <2>7 DEF ReadTransaction
    <3>3. WellFormed(AddTransaction(activeBlock, trx))
      BY <3>1, AddTransactionWellFormed DEF ActiveBlockInv
    <3>4. AddTransaction(activeBlock, trx).chainId = activeBlock.chainId
      BY <3>1, AddTransactionType
    <3>5. ActiveBlockInv'
      BY <2>7, <3>1, <3>2, <3>3, <3>4 DEF ReadTransaction, ActiveBlockInv
    <3> QED
      BY <2>7, <3>5 DEF ReadTransaction, Receive, producerVars,
                        DeliveredInv, StreamInv, StatsFollowDelivery
  <2>8. CASE ReadBlockEnd
    <3> DEFINE new == BlockFromProto(activeBlock)
    <3>1. EndBlock /\ delivered' = Append(delivered, new) /\ caller' = caller
      BY <2>8 DEF ReadBlockEnd
    <3>2. activeBlock # NoBlock /\ activeBlock.transactions # <<>>
      BY <3>1 DEF EndBlock, BlockEndOK
    <3>3. /\ new.payload = activeBlock /\ new.number = activeBlock.height
          /\ new.id = ID(activeBlock)
      BY DEF BlockFromProto
    <3>4. delivered \in Seq(Header) /\ new \in Header
      BY <3>2, HeaderType DEF TypeOK
    <3> HIDE DEF new
    <3>5. /\ DOMAIN delivered' = 1 .. Len(delivered) + 1
          /\ Len(delivered') = Len(delivered) + 1
          /\ delivered'[Len(delivered) + 1] = new
          /\ \A i \in 1 .. Len(delivered) : delivered'[i] = delivered[i]
          /\ DOMAIN delivered = 1 .. Len(delivered)
          /\ delivered' # <<>>
      BY <3>1, <3>4
    <3>6. WellFormed(activeBlock) /\ activeBlock.chainId = chainID /\ initRead
      BY <3>2 DEF ActiveBlockInv
    <3>7. DeliveredInv'
      <4>1. ASSUME NEW i \in DOMAIN delivered'
            PROVE  /\ delivered'[i] = BlockFromProto(delivered'[i].payload)
                   /\ WellFormed(delivered'[i].payload)
                   /\ delivered'[i].payload.chainId = chainID
        <5>1. CASE i = Len(delivered) + 1
          BY <3>3, <3>5, <3>6, <5>1 DEF new
        <5>2. CASE i \in 1 .. Len(delivered)
          BY <3>5, <5>2 DEF DeliveredInv
        <5> QED
          BY <3>4, <3>5, <5>1, <5>2
      <4> QED
        BY <3>1, <3>6, <4>1 DEF DeliveredInv, EndBlock
    <3>8. StatsFollowDelivery'
      <4>1. caller' = "reading" /\ lastBlock' = [id |-> new.id, num |-> new.number]
        BY <3>1, <3>3 DEF EndBlock, Receive, AsRef
      <4> QED
        BY <3>5, <4>1 DEF StatsFollowDelivery
    <3>9. ActiveBlockInv' /\ StreamInv'
      BY <3>1 DEF ActiveBlockInv, StreamInv, EndBlock, Receive, producerVars
    <3> QED
      BY <3>7, <3>8, <3>9
  <2>9. CASE FailConversion
    <3> DEFINE line == Head(lines)
    <3>1. EndBlock /\ caller' = "unconverted" /\ delivered' = delivered
      BY <2>9 DEF FailConversion
    <3>2. /\ line.tag = "BLOCK_END" /\ line.params \in Seq(Param)
          /\ line.params = <<activeBlock.height>>
      <4>1. line \in Line /\ line.tag = "BLOCK_END" /\ BlockEndOK(line.params)
        BY <3>1, ConsoleReaderAssumption DEF EndBlock, Dispatched, Receive, TypeOK
      <4>2. line.params \in Seq(Param)
        BY <4>1 DEF Line
      <4> QED
        BY <4>1, <4>2 DEF BlockEndOK
    <3>3. consumed'[Len(consumed')] = line
      BY <3>1, ConsoleReaderAssumption DEF EndBlock, Receive, TypeOK
    <3>4. /\ lastBlock'.num = activeBlock.height
          /\ lastBlock'.id = Uint64ToID(lastBlock'.num)
      BY <3>1 DEF EndBlock, AsRef, ID
    <3>5. StatsFollowDelivery'
      BY <3>1, <3>2, <3>3, <3>4 DEF StatsFollowDelivery
    <3> QED
      BY <3>1, <3>5 DEF EndBlock, Receive, producerVars, ActiveBlockInv, DeliveredInv, StreamInv
  <2>10. CASE ReadEOF
    BY <2>10 DEF ReadEOF, producerVars, readerVars,
                 ActiveBlockInv, DeliveredInv, StreamInv, StatsFollowDelivery
  <2>11. CASE UNCHANGED vars
    BY <2>11 DEF vars, producerVars, readerVars,
                 ActiveBlockInv, DeliveredInv, StreamInv, StatsFollowDelivery
  <2> QED
    BY <2>1, <2>2, <2>4, <2>5, <2>6, <2>7, <2>8, <2>9, <2>10, <2>11
    DEF Next, ProcessData, ReadBlock
<1> QED
  BY <1>1, <1>2, TypeInvariant, PTL DEF Spec

\* EOF is reported only for output that came to its end, whatever the lines and
\* the capacity of the channel.
THEOREM EofOnlyAfterCleanEndHolds == Spec => []EofOnlyAfterCleanEnd
<1>1. BlocksInv => EofOnlyAfterCleanEnd
  BY DEF BlocksInv, StreamInv, EofOnlyAfterCleanEnd
<1> QED
  BY <1>1, BlocksInvariant, PTL

\* The statistics name the last block delivered, or the one that was lost because it
\* could not be converted.
THEOREM StatsFollowDeliveryHolds == Spec => []StatsFollowDelivery
<1>1. BlocksInv => StatsFollowDelivery
  BY DEF BlocksInv
<1> QED
  BY <1>1, BlocksInvariant, PTL

-------------------------------------------------------------------------------
(* The lines received, and what one more line changes                        *)

\* Receiving a line adds it to those received before.
LEMMA ReceivedLine ==
  ASSUME TypeOK, Receive
  PROVE  LET n == Len(consumed)
         IN  /\ n \in Nat /\ Len(consumed') = n + 1
             /\ consumed'[n + 1] = Head(lines)
             /\ \A i \in 1 .. n : consumed'[i] = consumed[i]
             /\ Head(lines) \in Line
<1>1. /\ consumed \in Seq(Lines) /\ Head(lines) \in Lines
      /\ consumed' = Append(consumed, Head(lines))
  BY ReceiveType DEF TypeOK, Receive
<1>2. Head(lines) \in Line
  BY <1>1, ConsoleReaderAssumption
<1> QED
  BY <1>1, <1>2

\* What the format says of a position depends only on the lines before it.
LEMMA PastLines ==
  ASSUME TypeOK, Receive, NEW j \in 1 .. Len(consumed) + 1
  PROVE  /\ AfterInit(j)' <=> AfterInit(j)
         /\ \A s \in 1 .. j - 1 : /\ Opens(s, j)' <=> Opens(s, j)
                                  /\ TrxLines(s, j)' = TrxLines(s, j)
<1> DEFINE n == Len(consumed)
<1>1. /\ n \in Nat /\ \A i \in 1 .. n : consumed'[i] = consumed[i]
  BY ReceivedLine
<1>2. ASSUME NEW k \in 1 .. n + 1
      PROVE  AfterInit(k)' <=> AfterInit(k)
  <2>1. \A i \in 1 .. k - 1 : i \in 1 .. n
    BY <1>1, <1>2
  <2>2. \A i \in 1 .. k - 1 : Message(i, "INIT")' <=> Message(i, "INIT")
    BY <1>1, <2>1 DEF Message
  <2> QED
    BY <2>2 DEF AfterInit
<1>3. ASSUME NEW s \in 1 .. j - 1
      PROVE  /\ Opens(s, j)' <=> Opens(s, j)
             /\ TrxLines(s, j)' = TrxLines(s, j)
  <2>1. s \in 1 .. n
    BY <1>1, <1>3
  <2>2. AfterInit(s)' <=> AfterInit(s)
    BY <1>1, <1>2, <2>1
  <2>3. \A i \in s .. j - 1 : consumed'[i] = consumed[i]
    BY <1>1, <1>3
  <2>4. Opens(s, j)' <=> Opens(s, j)
    BY <1>1, <1>3, <2>2, <2>3 DEF Opens, Message
  <2>5. TrxLines(s, j)' = TrxLines(s, j)
    BY <1>1, <1>3, <2>3 DEF TrxLines
  <2> QED
    BY <2>4, <2>5
<1> QED
  BY <1>2, <1>3

\* So does whether a line follows the format, and what a block must hold.
LEMMA PastJudgement ==
  ASSUME TypeOK, Receive, NEW j \in 1 .. Len(consumed) + 1
  PROVE  /\ \A line : Follows(line, j)' <=> Follows(line, j)
         /\ \A b : \A s \in 1 .. j - 1 : Holds(b, s, j)' <=> Holds(b, s, j)
<1> DEFINE n == Len(consumed)
<1>1. n \in Nat /\ \A i \in 1 .. n : consumed'[i] = consumed[i]
  BY ReceivedLine
<1>2. /\ AfterInit(j)' <=> AfterInit(j)
      /\ \A s \in 1 .. j - 1 : /\ Opens(s, j)' <=> Opens(s, j)
                               /\ TrxLines(s, j)' = TrxLines(s, j)
  BY PastLines
<1>3. \A s \in 1 .. j - 1 : consumed'[s] = consumed[s]
  BY <1>1
<1>4. ASSUME NEW line
      PROVE  Follows(line, j)' <=> Follows(line, j)
  BY <1>2, <1>3 DEF Follows
<1>5. ASSUME NEW b, NEW s \in 1 .. j - 1
      PROVE  Holds(b, s, j)' <=> Holds(b, s, j)
  <2>1. \A i \in 1 .. s - 1 : consumed'[i] = consumed[i]
    BY <1>1, <1>5
  <2>2. \A i \in TrxLines(s, j) : consumed'[i] = consumed[i]
    BY <1>1, <1>5 DEF TrxLines
  <2> QED
    BY <1>2, <1>3, <1>5, <2>1, <2>2 DEF Holds, Message
<1> QED
  BY <1>4, <1>5

\* What is open after one more line.
LEMMA NextLine ==
  ASSUME TypeOK, Receive, NEW n \in Nat, n = Len(consumed)
  PROVE  /\ AfterInit(n + 2)' <=> AfterInit(n + 1) \/ Dispatched("INIT")
         /\ Opens(n + 1, n + 2)' <=> Dispatched("BLOCK_START") /\ AfterInit(n + 1)
         /\ \A s \in 1 .. n :
              Opens(s, n + 2)' <=> /\ Opens(s, n + 1)
                                   /\ ~Dispatched("BLOCK_START") /\ ~Dispatched("BLOCK_END")
         /\ TrxLines(n + 1, n + 2)' = {}
         /\ \A s \in 1 .. n :
              TrxLines(s, n + 2)' =
                IF Head(lines).tag = "TRX" THEN TrxLines(s, n + 1) \cup {n + 1}
                                           ELSE TrxLines(s, n + 1)
<1> DEFINE l == Head(lines)
<1>1. /\ consumed'[n + 1] = l
      /\ \A i \in 1 .. n : consumed'[i] = consumed[i]
  BY ReceivedLine
<1>2. \A tag : Message(n + 1, tag)' <=> Dispatched(tag)
  BY <1>1 DEF Message, Dispatched
<1>3. \A tag : \A i \in 1 .. n : Message(i, tag)' <=> Message(i, tag)
  BY <1>1 DEF Message
<1>4. \A j \in 1 .. n + 1 : AfterInit(j)' <=> AfterInit(j)
  BY PastLines
<1> HIDE DEF l
<1>5. AfterInit(n + 2)' <=> AfterInit(n + 1) \/ Dispatched("INIT")
  BY <1>1, <1>2, <1>3 DEF AfterInit
<1>6. Opens(n + 1, n + 2)' <=> Dispatched("BLOCK_START") /\ AfterInit(n + 1)
  BY <1>1, <1>2, <1>4 DEF Opens
<1>7. ASSUME NEW s \in 1 .. n
      PROVE  Opens(s, n + 2)' <=> /\ Opens(s, n + 1)
                                  /\ ~Dispatched("BLOCK_START") /\ ~Dispatched("BLOCK_END")
  BY <1>1, <1>2, <1>3, <1>4 DEF Opens
<1>8. TrxLines(n + 1, n + 2)' = {}
  BY <1>1 DEF TrxLines
<1>9. ASSUME NEW s \in 1 .. n
      PROVE  TrxLines(s, n + 2)' = IF l.tag = "TRX" THEN TrxLines(s, n + 1) \cup {n + 1}
                                                    ELSE TrxLines(s, n + 1)
  BY <1>1 DEF TrxLines
<1> QED
  BY <1>5, <1>6, <1>7, <1>8, <1>9 DEF l

\* At most one BLOCK_START is open at a position.
LEMMA OneOpener ==
  ASSUME NEW j \in Nat, NEW s \in 1 .. j - 1, NEW t \in 1 .. j - 1, Opens(s, j), Opens(t, j)
  PROVE  s = t
<1>1. ~(s < t) /\ ~(t < s)
  BY DEF Opens
<1> QED
  BY <1>1

\* A block holds no transaction exactly when no TRX line was printed in it.
LEMMA HoldsNone ==
  ASSUME TypeOK, NEW b \in Block, NEW j \in Nat, NEW s \in 1 .. j - 1, Holds(b, s, j)
  PROVE  TrxLines(s, j) = {} <=> b.transactions = <<>>
<1>1. TrxLines(s, j) \in SUBSET (1 .. j)
  BY DEF TrxLines
<1>2. IsFiniteSet(TrxLines(s, j))
  BY <1>1, RankOfNewest
<1>3. Cardinality(TrxLines(s, j)) = 0 <=> TrxLines(s, j) = {}
  BY <1>2, FS_EmptySet
<1>4. b.transactions \in Seq(Transaction) /\ Len(b.transactions) = Cardinality(TrxLines(s, j))
  BY DEF Holds, Block
<1> QED
  BY <1>3, <1>4

\* The reader, which forgets the lines, decides of the next line what the format
\* says of it.
LEMMA FormatDecided ==
  ASSUME TypeOK, BlocksInv, RemembersLines, Receive, NEW n \in Nat, n = Len(consumed)
  PROVE  Follows(Head(lines), n + 1) <=> ~Rejected
<1> DEFINE l == Head(lines)
<1>1. l \in Line
  BY ReceiveType
<1>2. initRead <=> AfterInit(n + 1)
  BY DEF RemembersLines, RemembersInit, Receive
<1>3. activeBlock = NoBlock => \A s \in 1 .. n : ~Opens(s, n + 1)
  BY DEF RemembersLines, RemembersBlock, Receive
<1>4. ASSUME activeBlock # NoBlock
      PROVE  \E s \in 1 .. n : /\ Opens(s, n + 1)
                               /\ \A t \in 1 .. n : Opens(t, n + 1) => t = s
                               /\ consumed[s].params = <<activeBlock.height>>
                               /\ TrxLines(s, n + 1) = {} <=> activeBlock.transactions = <<>>
  <2>1. PICK s \in 1 .. n : Opens(s, n + 1) /\ Holds(activeBlock, s, n + 1)
    BY <1>4 DEF RemembersLines, RemembersBlock, Receive
  <2>2. activeBlock \in Block
    BY <1>4 DEF TypeOK
  <2>3. s \in 1 .. (n + 1) - 1
    OBVIOUS
  <2>4. TrxLines(s, n + 1) = {} <=> activeBlock.transactions = <<>>
    BY <2>1, <2>2, <2>3, HoldsNone
  <2>5. \A t \in 1 .. n : Opens(t, n + 1) => t = s
    BY <2>1, <2>3, OneOpener
  <2> QED
    BY <2>1, <2>4, <2>5 DEF Holds
<1>5. activeBlock # NoBlock => initRead
  BY DEF BlocksInv, ActiveBlockInv
<1>6. 0 \in Uint64
  BY AptosBlockAssumption, Weights DEF Uint64
<1>7. CASE l.tag \in {"NOT_FIRE", "BARE"}
  BY <1>7 DEF Follows, Rejected, Dispatched
<1>8. CASE l.tag = "OTHER"
  BY <1>8 DEF Follows, Rejected, Dispatched
<1>9. CASE l.tag = "INIT"
  <2>1. l.params \in Seq(Param)
    BY <1>1, <1>9 DEF Line
  <2>2. CASE l.params = <<>>
    BY <1>9, <2>2 DEF Follows, Rejected, Dispatched
  <2>3. CASE l.params # <<>>
    <3>1. /\ Len(l.params) \in 6 .. 7
          /\ l.params[4] = 0
          /\ l.params[Len(l.params)] \in Uint32
          <=> InitOK(l.params)
      BY <1>6, <2>1 DEF InitOK, MajorToken, MinorToken, ChainToken
    <3> QED
      BY <1>2, <1>9, <2>3, <3>1 DEF Follows, Rejected, Dispatched
  <2> QED
    BY <2>2, <2>3
<1>10. CASE l.tag = "BLOCK_START"
  BY <1>1, <1>2, <1>10 DEF Follows, Rejected, Dispatched, OneParam, BlockStartOK, Line
<1>11. CASE l.tag = "TRX"
  <2>1. CASE l.params = <<>> \/ ~initRead
    BY <1>1, <1>2, <1>3, <1>5, <1>11, <2>1 DEF Follows, Rejected, Dispatched, OneParam, Line
  <2>2. CASE l.params # <<>> /\ initRead /\ activeBlock = NoBlock
    BY <1>2, <1>3, <1>11, <2>2 DEF Follows, Rejected, Dispatched, OneParam, TransactionOK
  <2>3. CASE l.params # <<>> /\ initRead /\ activeBlock # NoBlock
    <3>1. PICK s \in 1 .. n : /\ Opens(s, n + 1)
                              /\ \A t \in 1 .. n : Opens(t, n + 1) => t = s
                              /\ TrxLines(s, n + 1) = {} <=> activeBlock.transactions = <<>>
      BY <1>4, <2>3
    <3>2. Rejected <=> ~TransactionOK(l.params)
      BY <1>11, <2>3 DEF Rejected, Dispatched
    <3>3. Follows(l, n + 1) <=>
            /\ OneParam(l, Payload)
            /\ TrxLines(s, n + 1) = {} <=> Decode[l.params[1]].type \in {"GENESIS", "BLOCK_METADATA"}
      BY <1>2, <1>11, <2>3, <3>1 DEF Follows
    <3> QED
      BY <2>3, <3>1, <3>2, <3>3 DEF OneParam, TransactionOK, BoundaryOK, IsBlockStartBoundaryType
  <2> QED
    BY <2>1, <2>2, <2>3
<1>12. CASE l.tag = "BLOCK_END"
  <2>1. CASE l.params = <<>> \/ ~initRead
    BY <1>1, <1>2, <1>3, <1>5, <1>12, <2>1 DEF Follows, Rejected, Dispatched, OneParam, Line
  <2>2. CASE l.params # <<>> /\ initRead /\ activeBlock = NoBlock
    BY <1>2, <1>3, <1>12, <2>2 DEF Follows, Rejected, Dispatched, OneParam, BlockEndOK
  <2>3. CASE l.params # <<>> /\ initRead /\ activeBlock # NoBlock
    <3>1. PICK s \in 1 .. n : /\ Opens(s, n + 1)
                              /\ \A t \in 1 .. n : Opens(t, n + 1) => t = s
                              /\ consumed[s].params = <<activeBlock.height>>
                              /\ TrxLines(s, n + 1) = {} <=> activeBlock.transactions = <<>>
      BY <1>4, <2>3
    <3>2. Rejected <=> ~BlockEndOK(l.params)
      BY <1>12, <2>3 DEF Rejected, Dispatched
    <3>3. Follows(l, n + 1) <=>
            /\ OneParam(l, Uint64)
            /\ TrxLines(s, n + 1) # {}
            /\ consumed[s].params = l.params
      BY <1>2, <1>12, <2>3, <3>1 DEF Follows
    <3>4. l.params \in Seq(Param)
      BY <1>1, <1>12 DEF Line
    <3>5. Len(l.params) = 1 => (l.params = <<activeBlock.height>> <=> activeBlock.height = l.params[1])
      BY <3>4
    <3> QED
      BY <2>3, <3>1, <3>2, <3>3, <3>5 DEF OneParam, BlockEndOK
  <2> QED
    BY <2>1, <2>2, <2>3
<1> QED
  BY <1>1, <1>7, <1>8, <1>9, <1>10, <1>11, <1>12 DEF Line

\* A line that the reader rejects, and only such a line, is out of format.
LEMMA ErrorKept ==
  ASSUME TypeOK, ErrorIffIllegal, Receive, NEW n \in Nat, n = Len(consumed),
         Follows(Head(lines), n + 1) <=> caller' # "error"
  PROVE  ErrorIffIllegal'
<1>1. /\ Len(consumed') = n + 1
      /\ consumed'[n + 1] = Head(lines)
      /\ \A j \in 1 .. n : consumed'[j] = consumed[j]
  BY ReceivedLine
<1>2. ASSUME NEW j \in 1 .. n
      PROVE  Follows(consumed[j], j)'
  <2>1. Follows(consumed[j], j)
    BY DEF ErrorIffIllegal, Receive
  <2>2. PICK line : line = consumed[j]
    OBVIOUS
  <2>3. Follows(line, j)' /\ consumed'[j] = line
    BY <1>1, <2>1, <2>2, PastJudgement
  <2> QED
    BY <2>3 DEF Follows, OneParam
<1>3. Follows(consumed[n + 1], n + 1)' <=> Follows(Head(lines), n + 1)
  <2>1. PICK line : line = Head(lines)
    OBVIOUS
  <2>2. Follows(line, n + 1)' <=> Follows(line, n + 1)
    BY PastJudgement
  <2>3. Follows(line, n + 1)' <=> Follows(consumed[n + 1], n + 1)'
    BY <1>1, <2>1 DEF Follows, OneParam
  <2> QED
    BY <2>1, <2>2, <2>3
<1> SUFFICES ASSUME NEW j \in 1 .. n + 1
             PROVE  ~Follows(consumed[j], j)' <=> j = n + 1 /\ caller' = "error"
  BY <1>1 DEF ErrorIffIllegal
<1>4. CASE j = n + 1
  BY <1>3, <1>4
<1>5. CASE j \in 1 .. n
  BY <1>2, <1>5
<1> QED
  BY <1>4, <1>5

\* A block keeps holding what was printed while no TRX line comes.
LEMMA HoldsKept ==
  ASSUME TypeOK, Receive, NEW n \in Nat, n = Len(consumed),
         NEW s \in 1 .. n, NEW b, Holds(b, s, n + 1), Head(lines).tag # "TRX"
  PROVE  Holds(b, s, n + 2)'
<1>1. \A i \in 1 .. n : consumed'[i] = consumed[i]
  BY ReceivedLine
<1>2. TrxLines(s, n + 2)' = TrxLines(s, n + 1)
  BY NextLine
<1>3. \A i \in TrxLines(s, n + 1) : consumed'[i] = consumed[i]
  BY <1>1 DEF TrxLines
<1>4. \A i \in 1 .. s - 1 : consumed'[i] = consumed[i]
  BY <1>1
<1> QED
  BY <1>1, <1>2, <1>3, <1>4 DEF Holds, Message

\* A block extended by the transaction of a TRX line holds that one as well, last.
LEMMA HoldsMore ==
  ASSUME TypeOK, Receive, NEW n \in Nat, n = Len(consumed),
         NEW s \in 1 .. n, NEW b \in Block, Holds(b, s, n + 1), Head(lines).tag = "TRX",
         NEW trx, trx = Decode[Head(lines).params[1]], trx \in Transaction
  PROVE  Holds(AddTransaction(b, trx), s, n + 2)'
<1> DEFINE old == TrxLines(s, n + 1)
           new == old \cup {n + 1}
           b2  == AddTransaction(b, trx)
<1>1. /\ consumed'[n + 1] = Head(lines)
      /\ \A i \in 1 .. n : consumed'[i] = consumed[i]
  BY ReceivedLine
<1>2. TrxLines(s, n + 2)' = new
  BY NextLine
<1>3. old \in SUBSET (1 .. n)
  BY DEF TrxLines
<1>4. /\ b.transactions \in Seq(Transaction)
      /\ b2.transactions = Append(b.transactions, trx)
      /\ b2.height = b.height /\ b2.chainId = b.chainId
  BY DEF AddTransaction, Block
<1> HIDE DEF old, new, b2
<1>5. Len(b.transactions) = Cardinality(old)
  BY DEF Holds, old
<1>6. /\ Cardinality(new) = Cardinality(old) + 1 /\ Cardinality(old) \in Nat
      /\ Rank(new, n + 1) = Cardinality(new)
      /\ \A i \in old : Rank(new, i) = Rank(old, i) /\ Rank(old, i) \in 1 .. Cardinality(old)
  BY <1>3, RankOfNewest DEF Rank, new
<1>7. /\ Len(b2.transactions) = Cardinality(new)
      /\ b2.transactions[Cardinality(new)] = trx
      /\ \A k \in 1 .. Cardinality(old) : b2.transactions[k] = b.transactions[k]
  BY <1>4, <1>5, <1>6
<1>8. ASSUME NEW i \in new
      PROVE  b2.transactions[Rank(new, i)] = Decode[consumed'[i].params[1]]
  <2>1. CASE i = n + 1
    BY <1>1, <1>6, <1>7, <2>1
  <2>2. CASE i \in old
    <3>1. b.transactions[Rank(old, i)] = Decode[consumed[i].params[1]]
      BY <2>2 DEF Holds, old
    <3> QED
      BY <1>1, <1>3, <1>6, <1>7, <2>2, <3>1
  <2> QED
    BY <2>1, <2>2 DEF new
<1>9. consumed'[s].params = <<b2.height>>
  BY <1>1, <1>4 DEF Holds
<1>10. \E i \in 1 .. s - 1 : /\ Message(i, "INIT")'
                            /\ b2.chainId = consumed'[i].params[Len(consumed'[i].params)]
  <2>1. PICK i \in 1 .. s - 1 : /\ Message(i, "INIT")
                                /\ b.chainId = consumed[i].params[Len(consumed[i].params)]
    BY DEF Holds
  <2>2. consumed'[i] = consumed[i]
    BY <1>1
  <2> QED
    BY <1>4, <2>1, <2>2 DEF Message
<1> QED
  BY <1>2, <1>7, <1>8, <1>9, <1>10 DEF Holds, b2

\* Only a BLOCK_END whose block the caller gets adds to the ends of blocks.
LEMMA BlockEndsGrow ==
  ASSUME TypeOK, Receive, NEW n \in Nat, n = Len(consumed)
  PROVE  /\ BlockEnds \in SUBSET (1 .. n)
         /\ BlockEnds' = IF /\ Dispatched("BLOCK_END") /\ AfterInit(n + 1)
                            /\ caller' \notin {"error", "unconverted"}
                         THEN BlockEnds \cup {n + 1}
                         ELSE BlockEnds
<1>1. /\ Len(consumed') = n + 1
      /\ consumed'[n + 1] = Head(lines)
      /\ \A i \in 1 .. n : consumed'[i] = consumed[i]
  BY ReceivedLine
<1>2. \A j \in 1 .. n + 1 : AfterInit(j)' <=> AfterInit(j)
  BY PastLines
<1>3. caller = "reading"
  BY DEF Receive
<1>4. BlockEnds = {j \in 1 .. n : Message(j, "BLOCK_END") /\ AfterInit(j)}
  BY <1>3 DEF BlockEnds
<1>5. \A j \in 1 .. n : Message(j, "BLOCK_END")' <=> Message(j, "BLOCK_END")
  BY <1>1 DEF Message
<1>6. Message(n + 1, "BLOCK_END")' <=> Dispatched("BLOCK_END")
  BY <1>1 DEF Message, Dispatched
<1>7. BlockEnds' = {j \in 1 .. n + 1 :
                      /\ Message(j, "BLOCK_END")' /\ AfterInit(j)'
                      /\ j = n + 1 => caller' \notin {"error", "unconverted"}}
  BY <1>1 DEF BlockEnds
<1>8. BlockEnds \in SUBSET (1 .. n)
  BY <1>4
<1> QED
  BY <1>2, <1>4, <1>5, <1>6, <1>7, <1>8

\* The blocks already delivered still match their lines after one more.
LEMMA DeliveryKept ==
  ASSUME TypeOK, DeliveredMatchesLines, Receive,
         \A j \in BlockEnds : BlockOf(j)' = BlockOf(j)
  PROVE  \A j \in BlockEnds : \E s \in 1 .. j - 1 : Opens(s, j)' /\ Holds(BlockOf(j), s, j)'
<1> SUFFICES ASSUME NEW j \in BlockEnds
             PROVE  \E s \in 1 .. j - 1 : Opens(s, j)' /\ Holds(BlockOf(j), s, j)'
  OBVIOUS
<1>1. PICK s \in 1 .. j - 1 : Opens(s, j) /\ Holds(BlockOf(j), s, j)
  BY DEF DeliveredMatchesLines
<1>2. PICK b : b = BlockOf(j)
  OBVIOUS
<1>3. j \in 1 .. Len(consumed) + 1
  BY ReceivedLine DEF BlockEnds
<1>4. Opens(s, j)' /\ Holds(b, s, j)' /\ BlockOf(j)' = b
  BY <1>1, <1>2, <1>3, PastLines, PastJudgement
<1>5. Holds(BlockOf(j), s, j)'
  BY <1>4 DEF Holds
<1> QED
  BY <1>4, <1>5

\* A line that ends no block leaves what the caller got matching the lines.
LEMMA DeliveryUnchanged ==
  ASSUME TypeOK, DeliveredMatchesLines, Receive, BlockEnds' = BlockEnds, delivered' = delivered
  PROVE  DeliveredMatchesLines'
<1>1. \A j \in BlockEnds : BlockOf(j)' = BlockOf(j)
  BY DEF BlockOf
<1> QED
  BY <1>1, DeliveryKept DEF DeliveredMatchesLines

\* The block that BLOCK_END closes holds the lines since its BLOCK_START.
LEMMA DeliveryGrows ==
  ASSUME TypeOK, RemembersLines, DeliveredMatchesLines, ReadBlockEnd
  PROVE  DeliveredMatchesLines'
<1>1. /\ Receive /\ EndBlock /\ Dispatched("BLOCK_END") /\ initRead /\ caller = "reading"
      /\ caller' = caller
      /\ activeBlock # NoBlock
      /\ delivered' = Append(delivered, BlockFromProto(activeBlock))
  BY DEF ReadBlockEnd, EndBlock, Receive, BlockEndOK
<1>2. PICK n \in Nat : n = Len(consumed)
  BY <1>1, ReceivedLine
<1>3. AfterInit(n + 1)
  BY <1>1, <1>2 DEF RemembersLines, RemembersInit
<1>4. BlockEnds \in SUBSET (1 .. n) /\ BlockEnds' = BlockEnds \cup {n + 1}
  BY <1>1, <1>2, <1>3, BlockEndsGrow
<1>5. /\ Cardinality(BlockEnds') = Cardinality(BlockEnds) + 1 /\ Cardinality(BlockEnds) \in Nat
      /\ Rank(BlockEnds', n + 1) = Cardinality(BlockEnds')
      /\ \A j \in BlockEnds : /\ Rank(BlockEnds', j) = Rank(BlockEnds, j)
                              /\ Rank(BlockEnds, j) \in 1 .. Cardinality(BlockEnds)
  BY <1>2, <1>4, RankOfNewest DEF Rank
<1>6. activeBlock \in Block
  BY <1>1 DEF TypeOK
<1>7. BlockFromProto(activeBlock).payload = activeBlock /\ BlockFromProto(activeBlock) \in Header
  BY <1>6, HeaderType DEF BlockFromProto
<1>8. /\ Len(delivered) = Cardinality(BlockEnds)
      /\ delivered \in Seq(Header)
  BY DEF DeliveredMatchesLines, TypeOK
<1>9. /\ Len(delivered') = Cardinality(BlockEnds')
      /\ delivered'[Cardinality(BlockEnds')].payload = activeBlock
      /\ \A k \in 1 .. Cardinality(BlockEnds) : delivered'[k] = delivered[k]
  BY <1>1, <1>5, <1>7, <1>8
<1>10. \A j \in BlockEnds : BlockOf(j)' = BlockOf(j)
  BY <1>5, <1>9 DEF BlockOf
<1>11. \A j \in BlockEnds : \E s \in 1 .. j - 1 : Opens(s, j)' /\ Holds(BlockOf(j), s, j)'
  BY <1>1, <1>10, DeliveryKept
<1>12. \E s \in 1 .. n : Opens(s, n + 1)' /\ Holds(BlockOf(n + 1), s, n + 1)'
  <2>1. PICK s \in 1 .. n : Opens(s, n + 1) /\ Holds(activeBlock, s, n + 1)
    BY <1>1, <1>2 DEF RemembersLines, RemembersBlock
  <2>2. PICK b : b = activeBlock
    OBVIOUS
  <2>3. Opens(s, n + 1)' /\ Holds(b, s, n + 1)'
    <3>1. n + 1 \in 1 .. Len(consumed) + 1 /\ s \in 1 .. (n + 1) - 1
      BY <1>2
    <3> QED
      BY <1>1, <2>1, <2>2, <3>1, PastLines, PastJudgement
  <2>4. BlockOf(n + 1)' = b
    BY <1>5, <1>9, <2>2 DEF BlockOf
  <2>5. Holds(BlockOf(n + 1), s, n + 1)'
    BY <2>3, <2>4 DEF Holds
  <2> QED
    BY <2>3, <2>5
<1>13. ASSUME NEW j \in BlockEnds'
       PROVE  \E s \in 1 .. j - 1 : Opens(s, j)' /\ Holds(BlockOf(j), s, j)'
  <2>1. CASE j \in BlockEnds
    BY <1>11, <2>1
  <2>2. CASE j = n + 1
    BY <1>12, <2>2
  <2> QED
    BY <1>4, <2>1, <2>2
<1> QED
  BY <1>9, <1>13 DEF DeliveredMatchesLines

\* What the reader knows of INIT stays true after any other line.
LEMMA InitKept ==
  ASSUME TypeOK, RemembersInit, Receive, ~Dispatched("INIT"),
         initRead' = initRead, chainID' = chainID
  PROVE  RemembersInit'
<1>1. PICK n \in Nat : n = Len(consumed)
  BY ReceivedLine
<1>2. /\ Len(consumed') = n + 1
      /\ \A i \in 1 .. n : consumed'[i] = consumed[i]
  BY <1>1, ReceivedLine
<1>3. AfterInit(Len(consumed) + 1)' <=> AfterInit(Len(consumed) + 1)
  <2>1. AfterInit(n + 2)' <=> AfterInit(n + 1)
    BY <1>1, NextLine
  <2>2. AfterInit(n + 2)' <=> AfterInit(Len(consumed) + 1)'
    BY <1>2 DEF AfterInit
  <2> QED
    BY <1>1, <2>1, <2>2
<1>4. ASSUME initRead
      PROVE  \E i \in 1 .. n + 1 : /\ Message(i, "INIT")'
                                   /\ chainID = consumed'[i].params[Len(consumed'[i].params)]
  <2>1. PICK i \in 1 .. n : /\ Message(i, "INIT")
                            /\ chainID = consumed[i].params[Len(consumed[i].params)]
    BY <1>1, <1>4 DEF RemembersInit
  <2> QED
    BY <1>2, <2>1 DEF Message
<1> QED
  BY <1>1, <1>2, <1>3, <1>4 DEF RemembersInit

\* The next position after a step, whose number the lemmas name as a constant.
LEMMA BlockRemembered ==
  ASSUME NEW m \in Nat, m = Len(consumed'),
         activeBlock' = NoBlock => \A s \in 1 .. m : ~Opens(s, m + 1)',
         NEW b, b = activeBlock',
         b # NoBlock => \E s \in 1 .. m : Opens(s, m + 1)' /\ Holds(b, s, m + 1)'
  PROVE  RemembersBlock'
<1>1. \A s \in 1 .. m : Opens(s, m + 1)' <=> Opens(s, Len(consumed) + 1)'
  BY DEF Opens
<1>2. \A s \in 1 .. m : Holds(b, s, m + 1)' <=> Holds(activeBlock, s, Len(consumed) + 1)'
  <2>1. \A s \in 1 .. m : TrxLines(s, m + 1)' = TrxLines(s, Len(consumed) + 1)'
    BY DEF TrxLines
  <2> QED
    BY <2>1 DEF Holds
<1> QED
  BY <1>1, <1>2 DEF RemembersBlock

\* A step that receives no line and does not end in an error changes nothing the
\* properties of the lines speak of.
LEMMA LinesUntouched ==
  ASSUME LinesInv, UNCHANGED <<readerVars, consumed, delivered>>,
         caller' = caller \/ (caller = "reading" /\ caller' = "eof")
  PROVE  LinesInv'
<1>1. /\ consumed' = consumed /\ delivered' = delivered
      /\ initRead' = initRead /\ chainID' = chainID /\ activeBlock' = activeBlock
  BY DEF readerVars
<1>2. /\ \A i, tag : Message(i, tag)' <=> Message(i, tag)
      /\ \A j : AfterInit(j)' <=> AfterInit(j)
      /\ \A s, j : Opens(s, j)' <=> Opens(s, j)
      /\ \A s, j : TrxLines(s, j)' = TrxLines(s, j)
  <2>1. \A i, tag : Message(i, tag)' <=> Message(i, tag)
    BY <1>1 DEF Message
  <2>2. \A j : AfterInit(j)' <=> AfterInit(j)
    BY <2>1 DEF AfterInit
  <2>3. \A s, j : Opens(s, j)' <=> Opens(s, j)
    BY <2>1, <2>2 DEF Opens
  <2>4. ASSUME NEW s, NEW j
        PROVE  TrxLines(s, j)' = TrxLines(s, j)
    BY <1>1 DEF TrxLines
  <2> QED
    BY <2>1, <2>2, <2>3, <2>4
<1>3. \A b, s, j : Holds(b, s, j)' <=> Holds(b, s, j)
  BY <1>1, <1>2 DEF Holds
<1>4. RemembersLines'
  <2>1. CASE caller' = "reading"
    <3>1. RemembersInit /\ RemembersBlock
      BY <2>1 DEF LinesInv, RemembersLines
    <3>2. RemembersInit'
      <4>1. AfterInit(Len(consumed) + 1)' <=> AfterInit(Len(consumed) + 1)
        BY <1>1 DEF AfterInit, Message
      <4> QED
        BY <1>1, <1>2, <3>1, <4>1 DEF RemembersInit
    <3>3. RemembersBlock'
      <4>1. PICK n, b : n = Len(consumed) /\ b = activeBlock
        OBVIOUS
      <4>2. \A s : Opens(s, Len(consumed) + 1)' <=> Opens(s, n + 1)'
        BY <1>1, <4>1 DEF Opens
      <4>3. \A s : Holds(activeBlock, s, Len(consumed) + 1)' <=> Holds(b, s, n + 1)'
        <5>1. \A s : TrxLines(s, Len(consumed) + 1)' = TrxLines(s, n + 1)'
          BY <1>1, <4>1 DEF TrxLines
        <5> QED
          BY <1>1, <4>1, <5>1 DEF Holds
      <4> QED
        BY <1>1, <1>2, <1>3, <3>1, <4>1, <4>2, <4>3 DEF RemembersBlock
    <3> QED
      BY <3>2, <3>3 DEF RemembersLines
  <2> QED
    BY <2>1 DEF RemembersLines
<1>5. ErrorIffIllegal'
  <2>1. \A line, j : Follows(line, j)' <=> Follows(line, j)
    BY <1>1, <1>2 DEF Follows
  <2>2. ASSUME NEW j
        PROVE  Follows(consumed[j], j)' <=> Follows(consumed[j], j)
    <3>1. PICK line : line = consumed[j]
      OBVIOUS
    <3>2. Follows(line, j)' <=> Follows(consumed[j], j)'
      BY <1>1, <3>1 DEF Follows
    <3> QED
      BY <2>1, <3>1, <3>2
  <2> QED
    BY <1>1, <2>2 DEF LinesInv, ErrorIffIllegal
<1>6. DeliveredMatchesLines'
  <2>1. BlockEnds' = BlockEnds
    BY <1>1, <1>2 DEF BlockEnds
  <2>2. ASSUME NEW j, NEW s
        PROVE  Holds(BlockOf(j), s, j)' <=> Holds(BlockOf(j), s, j)
    <3>1. PICK b : b = BlockOf(j)
      OBVIOUS
    <3>2. BlockOf(j)' = b
      BY <1>1, <2>1, <3>1 DEF BlockOf
    <3>3. Holds(BlockOf(j), s, j)' <=> Holds(b, s, j)'
      BY <3>2 DEF Holds
    <3> QED
      BY <1>3, <3>1, <3>3
  <2> QED
    BY <1>1, <1>2, <2>1, <2>2 DEF LinesInv, DeliveredMatchesLines
<1> QED
  BY <1>4, <1>5, <1>6 DEF LinesInv

\* A line skipped leaves the reader's memory true.
LEMMA SkipRemembers ==
  ASSUME TypeOK, BlocksInv, RemembersInit, RemembersBlock,
         SkipNotFirehose \/ SkipBeforeInit \/ SkipUnknown
  PROVE  RemembersInit' /\ RemembersBlock'
<1>1. /\ Receive /\ UNCHANGED <<readerVars, delivered>> /\ ~Dispatched("INIT")
      /\ initRead => ~Dispatched("BLOCK_START") /\ ~Dispatched("BLOCK_END") /\ Head(lines).tag # "TRX"
  BY DEF SkipNotFirehose, SkipBeforeInit, SkipUnknown, Dispatched
<1>2. PICK n \in Nat : n = Len(consumed)
  BY <1>1, ReceivedLine
<1>3. Len(consumed') = n + 1
  BY <1>1, <1>2, ReceivedLine
<1>4. PICK b : b = activeBlock
  OBVIOUS
<1>5. activeBlock' = b /\ (b # NoBlock => initRead) /\ (initRead <=> AfterInit(n + 1))
  BY <1>1, <1>2, <1>4 DEF readerVars, BlocksInv, ActiveBlockInv, RemembersInit
<1>6. ASSUME b = NoBlock, NEW s \in 1 .. n + 1
      PROVE  ~Opens(s, n + 2)'
  <2>1. CASE s = n + 1
    BY <1>1, <1>2, <1>5, <2>1, NextLine
  <2>2. CASE s \in 1 .. n
    <3>1. ~Opens(s, n + 1)
      BY <1>2, <1>4, <1>6, <2>2 DEF RemembersBlock
    <3> QED
      BY <1>1, <1>2, <2>2, <3>1, NextLine
  <2> QED
    BY <2>1, <2>2
<1>7. ASSUME b # NoBlock
      PROVE  \E s \in 1 .. n + 1 : Opens(s, n + 2)' /\ Holds(b, s, n + 2)'
  <2>1. PICK s \in 1 .. n : Opens(s, n + 1) /\ Holds(activeBlock, s, n + 1)
    BY <1>2, <1>4, <1>7 DEF RemembersBlock
  <2>2. Opens(s, n + 2)'
    BY <1>1, <1>2, <1>5, <1>7, <2>1, NextLine
  <2>3. Holds(b, s, n + 2)'
    BY <1>1, <1>2, <1>4, <1>5, <1>7, <2>1, HoldsKept
  <2> QED
    BY <2>2, <2>3
<1>8. RemembersBlock'
  <2>1. (n + 1) + 1 = n + 2
    OBVIOUS
  <2> QED
    BY <1>3, <1>5, <1>6, <1>7, <2>1, BlockRemembered
<1> QED
  BY <1>1, <1>8, InitKept DEF readerVars

\* INIT is remembered, with its chain, and no block is open yet.
LEMMA InitRemembers ==
  ASSUME TypeOK, BlocksInv, RemembersInit, RemembersBlock, ReadInit
  PROVE  RemembersInit' /\ RemembersBlock'
<1>1. /\ Receive /\ ~initRead /\ initRead' = TRUE /\ Dispatched("INIT") /\ InitOK(Head(lines).params)
      /\ chainID' = ChainToken(Head(lines).params) /\ activeBlock' = activeBlock
  BY DEF ReadInit
<1>2. PICK n \in Nat : n = Len(consumed)
  BY <1>1, ReceivedLine
<1>3. Len(consumed') = n + 1 /\ consumed'[n + 1] = Head(lines)
  BY <1>1, <1>2, ReceivedLine
<1>4. activeBlock' = NoBlock /\ ~AfterInit(n + 1) /\ ~Dispatched("BLOCK_START")
  BY <1>1, <1>2 DEF BlocksInv, ActiveBlockInv, RemembersInit, Dispatched
<1>5. ASSUME NEW s \in 1 .. n + 1
      PROVE  ~Opens(s, n + 2)'
  <2>1. CASE s = n + 1
    BY <1>1, <1>2, <1>4, <2>1, NextLine
  <2>2. CASE s \in 1 .. n
    <3>1. ~Opens(s, n + 1)
      BY <1>1, <1>2, <1>4, <2>2 DEF RemembersBlock
    <3> QED
      BY <1>1, <1>2, <2>2, <3>1, NextLine
  <2> QED
    BY <2>1, <2>2
<1>6. RemembersBlock'
  <2>1. (n + 1) + 1 = n + 2
    OBVIOUS
  <2> QED
    BY <1>3, <1>4, <1>5, <2>1, BlockRemembered
<1>7. Message(n + 1, "INIT")'
  BY <1>1, <1>3 DEF Message, Dispatched
<1>8. AfterInit(Len(consumed) + 1)'
  BY <1>3, <1>7 DEF AfterInit
<1>9. chainID' = Head(lines).params[Len(Head(lines).params)]
  BY <1>1 DEF InitOK, ChainToken
<1> QED
  BY <1>1, <1>3, <1>6, <1>7, <1>8, <1>9 DEF RemembersInit

\* BLOCK_START is remembered with nothing in its block, whatever was open before.
LEMMA StartRemembers ==
  ASSUME TypeOK, RemembersInit, ReadBlockStart
  PROVE  RemembersInit' /\ RemembersBlock'
<1>1. /\ Receive /\ initRead /\ Dispatched("BLOCK_START") /\ BlockStartOK(Head(lines).params)
      /\ activeBlock' = StartedBlock(Head(lines).params[1])
      /\ initRead' = initRead /\ chainID' = chainID
  BY DEF ReadBlockStart
<1>2. PICK n \in Nat : n = Len(consumed)
  BY <1>1, ReceivedLine
<1>3. /\ Len(consumed') = n + 1 /\ consumed'[n + 1] = Head(lines) /\ Head(lines) \in Line
      /\ \A i \in 1 .. n : consumed'[i] = consumed[i]
  BY <1>1, <1>2, ReceivedLine
<1>4. PICK b : b = activeBlock'
  OBVIOUS
<1>5. b.height = Head(lines).params[1] /\ b.chainId = chainID /\ b.transactions = <<>>
  BY <1>1, <1>4 DEF StartedBlock
<1>6. Head(lines).params = <<b.height>>
  <2>1. Head(lines).params \in Seq(Param)
    BY <1>1, <1>3 DEF Line, Dispatched
  <2> QED
    BY <1>1, <1>5, <2>1 DEF BlockStartOK
<1>7. Opens(n + 1, n + 2)'
  BY <1>1, <1>2, NextLine DEF RemembersInit
<1>8. Holds(b, n + 1, n + 2)'
  <2>1. TrxLines(n + 1, n + 2)' = {}
    BY <1>1, <1>2, NextLine
  <2>2. Cardinality({}) = 0 /\ Len(b.transactions) = 0
    BY <1>5, FS_EmptySet
  <2>3. PICK i \in 1 .. n : /\ Message(i, "INIT")
                            /\ chainID = consumed[i].params[Len(consumed[i].params)]
    BY <1>1, <1>2 DEF RemembersInit
  <2>4. i \in 1 .. (n + 1) - 1 /\ Message(i, "INIT")'
    BY <1>3, <2>3 DEF Message
  <2>5. b.chainId = consumed'[i].params[Len(consumed'[i].params)]
    BY <1>3, <1>5, <2>3
  <2> QED
    BY <1>3, <1>6, <2>1, <2>2, <2>4, <2>5 DEF Holds
<1>9. RemembersBlock'
  <2>1. (n + 1) + 1 = n + 2 /\ n + 1 \in 1 .. n + 1
    OBVIOUS
  <2>2. b \in Block
    BY <1>1, <1>4 DEF StartedBlock, BlockStartOK, TypeOK, Block, Timestamp
  <2> QED
    BY <1>3, <1>4, <1>7, <1>8, <2>1, <2>2, BlockRemembered, NoBlockAssumption
<1>10. ~Dispatched("INIT")
  BY <1>1 DEF Dispatched
<1> QED
  BY <1>1, <1>9, <1>10, InitKept

\* A TRX line is remembered as the newest transaction of the block.
LEMMA TransactionRemembers ==
  ASSUME TypeOK, RemembersInit, RemembersBlock, ReadTransaction
  PROVE  RemembersInit' /\ RemembersBlock'
<1>1. /\ Receive /\ Dispatched("TRX") /\ activeBlock # NoBlock /\ Head(lines).params[1] \in Payload
      /\ activeBlock' = AddTransaction(activeBlock, Decode[Head(lines).params[1]])
      /\ initRead' = initRead /\ chainID' = chainID
  BY DEF ReadTransaction, TransactionOK
<1>2. PICK n \in Nat : n = Len(consumed)
  BY <1>1, ReceivedLine
<1>3. Len(consumed') = n + 1
  BY <1>1, <1>2, ReceivedLine
<1>4. PICK b, trx : b = activeBlock /\ trx = Decode[Head(lines).params[1]]
  OBVIOUS
<1>5. b \in Block /\ trx \in Transaction
  BY <1>1, <1>4, ConsoleReaderAssumption DEF TypeOK
<1>6. AddTransaction(b, trx) # NoBlock
  BY <1>5, AddTransactionType, NoBlockAssumption
<1>7. PICK s \in 1 .. n : Opens(s, n + 1) /\ Holds(b, s, n + 1)
  BY <1>1, <1>2, <1>4 DEF RemembersBlock
<1>8. /\ Head(lines).tag = "TRX" /\ ~Dispatched("INIT")
      /\ ~Dispatched("BLOCK_START") /\ ~Dispatched("BLOCK_END")
  BY <1>1 DEF Dispatched
<1>9. Opens(s, n + 2)'
  BY <1>1, <1>2, <1>7, <1>8, NextLine
<1>10. Holds(AddTransaction(b, trx), s, n + 2)'
  BY <1>1, <1>2, <1>4, <1>5, <1>7, <1>8, HoldsMore
<1>11. RemembersBlock'
  <2>1. (n + 1) + 1 = n + 2 /\ s \in 1 .. n + 1
    OBVIOUS
  <2>2. PICK new : new = AddTransaction(b, trx)
    OBVIOUS
  <2>3. Holds(new, s, n + 2)'
    BY <1>10, <2>2
  <2> QED
    BY <1>1, <1>3, <1>4, <1>6, <1>9, <2>1, <2>2, <2>3, BlockRemembered
<1> QED
  BY <1>1, <1>8, <1>11, InitKept

\* After BLOCK_END nothing is open.
LEMMA EndRemembers ==
  ASSUME TypeOK, RemembersInit, EndBlock
  PROVE  RemembersInit' /\ RemembersBlock'
<1>1. /\ Receive /\ Dispatched("BLOCK_END") /\ activeBlock' = NoBlock
      /\ initRead' = initRead /\ chainID' = chainID
  BY DEF EndBlock
<1>2. PICK n \in Nat : n = Len(consumed)
  BY <1>1, ReceivedLine
<1>3. Len(consumed') = n + 1
  BY <1>1, <1>2, ReceivedLine
<1>4. ~Dispatched("INIT") /\ ~Dispatched("BLOCK_START")
  BY <1>1 DEF Dispatched
<1>5. ASSUME NEW s \in 1 .. n + 1
      PROVE  ~Opens(s, n + 2)'
  BY <1>1, <1>2, <1>4, NextLine
<1>6. RemembersBlock'
  <2>1. (n + 1) + 1 = n + 2
    OBVIOUS
  <2> QED
    BY <1>1, <1>3, <1>5, <2>1, BlockRemembered
<1> QED
  BY <1>1, <1>4, <1>6, InitKept

\* Handling a line keeps LinesInv if the reader's memory stays true, a line out of
\* format and no other ends in an error, and what is delivered matches.
LEMMA LineHandled ==
  ASSUME TypeOK, BlocksInv, LinesInv, Receive,
         caller' = "error" <=> Rejected,
         RemembersLines', DeliveredMatchesLines'
  PROVE  LinesInv'
<1>1. PICK n \in Nat : n = Len(consumed)
  BY ReceivedLine
<1>2. Follows(Head(lines), n + 1) <=> caller' # "error"
  BY <1>1, FormatDecided DEF LinesInv
<1> QED
  BY <1>1, <1>2, ErrorKept DEF LinesInv

\* The reader's memory of the stream, its errors and what it delivers are what the
\* lines call for, in every reachable state.
LEMMA LinesInvariant == Spec => []LinesInv
<1>1. Init => LinesInv
  <2> SUFFICES ASSUME Init
               PROVE  LinesInv
    OBVIOUS
  <2>1. consumed = <<>> /\ Len(consumed) = 0 /\ delivered = <<>> /\ ~initRead /\ activeBlock = NoBlock
    BY DEF Init
  <2>2. RemembersInit /\ RemembersBlock
    BY <2>1 DEF RemembersInit, RemembersBlock, AfterInit
  <2>3. ErrorIffIllegal
    BY <2>1 DEF ErrorIffIllegal
  <2>4. BlockEnds = {}
    BY <2>1 DEF BlockEnds
  <2>5. DeliveredMatchesLines
    BY <2>1, <2>4, FS_EmptySet DEF DeliveredMatchesLines
  <2> QED
    BY <2>2, <2>3, <2>5 DEF LinesInv, RemembersLines
<1>2. TypeOK /\ BlocksInv /\ LinesInv /\ [Next]_vars => LinesInv'
  <2> SUFFICES ASSUME TypeOK, BlocksInv, LinesInv, [Next]_vars
               PROVE  LinesInv'
    OBVIOUS
  <2>1. CASE ProcessData
    BY <2>1, LinesUntouched DEF ProcessData, SendLine, ScanEnds
  <2>2. CASE ReadEOF
    BY <2>2, LinesUntouched DEF ReadEOF
  <2>3. CASE UNCHANGED vars
    BY <2>3, LinesUntouched DEF vars
  <2>4. ASSUME Receive
        PROVE  /\ RemembersInit /\ RemembersBlock /\ caller = "reading"
               /\ Dispatched("BLOCK_END") /\ ~initRead => BlockEnds' = BlockEnds
               /\ ~Dispatched("BLOCK_END") => BlockEnds' = BlockEnds
               /\ caller' \in {"error", "unconverted"} => BlockEnds' = BlockEnds
    <3>1. RemembersInit /\ RemembersBlock /\ caller = "reading"
      BY <2>4 DEF LinesInv, RemembersLines, Receive
    <3>2. PICK n \in Nat : n = Len(consumed)
      BY <2>4, ReceivedLine
    <3>3. initRead <=> AfterInit(n + 1)
      BY <3>1, <3>2 DEF RemembersInit
    <3> QED
      BY <2>4, <3>1, <3>2, <3>3, BlockEndsGrow
  <2>5. CASE SkipNotFirehose \/ SkipBeforeInit \/ SkipUnknown
    <3>1. Receive /\ delivered' = delivered /\ caller' = caller
      BY <2>5 DEF SkipNotFirehose, SkipBeforeInit, SkipUnknown
    <3>2. ~Rejected
      BY <2>5 DEF SkipNotFirehose, SkipBeforeInit, SkipUnknown, Rejected, Dispatched
    <3>3. RemembersLines'
      BY <2>4, <2>5, <3>1, SkipRemembers DEF RemembersLines
    <3>4. BlockEnds' = BlockEnds
      BY <2>4, <2>5, <3>1 DEF SkipNotFirehose, SkipBeforeInit, SkipUnknown, Dispatched
    <3>5. DeliveredMatchesLines'
      BY <3>1, <3>4, DeliveryUnchanged DEF LinesInv
    <3> QED
      BY <2>4, <3>1, <3>2, <3>3, <3>5, LineHandled
  <2>6. CASE ReadInit \/ ReadBlockStart \/ ReadTransaction
    <3>1. Receive /\ delivered' = delivered /\ caller' = caller /\ ~Dispatched("BLOCK_END")
      BY <2>6 DEF ReadInit, ReadBlockStart, ReadTransaction, Dispatched
    <3>2. ~Rejected
      BY <2>6 DEF ReadInit, ReadBlockStart, ReadTransaction, Rejected, Dispatched
    <3>3. RemembersLines'
      BY <2>4, <2>6, <3>1, InitRemembers, StartRemembers, TransactionRemembers DEF RemembersLines
    <3>4. DeliveredMatchesLines'
      BY <2>4, <3>1, DeliveryUnchanged DEF LinesInv
    <3> QED
      BY <2>4, <3>1, <3>2, <3>3, <3>4, LineHandled
  <2>7. CASE ReadBlockEnd \/ FailConversion
    <3>1. Receive /\ EndBlock /\ caller' \in {caller, "unconverted"}
      BY <2>7 DEF ReadBlockEnd, FailConversion, EndBlock
    <3>2. ~Rejected
      BY <3>1 DEF EndBlock, Rejected, Dispatched
    <3>3. RemembersLines'
      BY <2>4, <3>1, EndRemembers DEF RemembersLines
    <3>4. DeliveredMatchesLines'
      <4>1. CASE ReadBlockEnd
        BY <4>1, DeliveryGrows DEF LinesInv
      <4>2. CASE FailConversion
        BY <2>4, <3>1, <4>2, DeliveryUnchanged DEF LinesInv, FailConversion
      <4> QED
        BY <2>7, <4>1, <4>2
    <3> QED
      BY <2>4, <3>1, <3>2, <3>3, <3>4, LineHandled
  <2>8. CASE RejectLine
    <3>1. Receive /\ Rejected /\ delivered' = delivered /\ caller' = "error"
      BY <2>8 DEF RejectLine
    <3>2. DeliveredMatchesLines'
      BY <2>4, <3>1, DeliveryUnchanged DEF LinesInv
    <3> QED
      BY <3>1, <3>2, LineHandled DEF RemembersLines
  <2>9. CASE PanicOnBarePrefix
    <3>1. Receive /\ delivered' = delivered /\ caller' = "panic" /\ Head(lines).tag = "BARE"
      BY <2>9 DEF PanicOnBarePrefix
    <3>2. ~Rejected /\ ~Dispatched("BLOCK_END")
      BY <3>1 DEF Rejected, Dispatched
    <3>3. DeliveredMatchesLines'
      BY <2>4, <3>1, <3>2, DeliveryUnchanged DEF LinesInv
    <3> QED
      BY <3>1, <3>2, <3>3, LineHandled DEF RemembersLines
  <2> QED
    BY <2>1, <2>2, <2>3, <2>5, <2>6, <2>7, <2>8, <2>9 DEF Next, ReadBlock
<1> QED
  BY <1>1, <1>2, TypeInvariant, BlocksInvariant, PTL DEF Spec

\* ReaderInv holds of every reachable state.
THEOREM ReaderInvariant == Spec => []ReaderInv
<1>1. BlocksInv /\ LinesInv => ReaderInv
  BY DEF ReaderInv
<1> QED
  BY <1>1, BlocksInvariant, LinesInvariant, PTL

\* The caller stops with an error on the first line out of format and on no other,
\* whatever the lines, their number and the capacity of the channel.
THEOREM ErrorIffIllegalHolds == Spec => []ErrorIffIllegal
<1>1. LinesInv => ErrorIffIllegal
  BY DEF LinesInv
<1> QED
  BY <1>1, LinesInvariant, PTL

\* Every block delivered holds what the node printed between its BLOCK_START and
\* its BLOCK_END, and there is one for each.
THEOREM DeliveredMatchesLinesHolds == Spec => []DeliveredMatchesLines
<1>1. LinesInv => DeliveredMatchesLines
  BY DEF LinesInv
<1> QED
  BY <1>1, LinesInvariant, PTL

-------------------------------------------------------------------------------
(* The console reader implements BlockSource                                 *)

\* BlockSource reads the conversion the same way.
LEMMA SourceDecoder ==
  ASSUME NEW blk
  PROVE  /\ Source!BlockDecoder(blk) = BlockDecoder(blk)
         /\ Source!Uint64ToID(blk) = Uint64ToID(blk)
         /\ Source!WellFormed(blk) = WellFormed(blk)
         /\ Source!EmptyID = EmptyID
<1>1. Source!BlockDecoder(blk) = BlockDecoder(blk)
  BY DEF Source!BlockDecoder, BlockDecoder, Source!CanDecode, CanDecode,
         Source!PayloadKind, PayloadKind
<1>2. Source!Uint64ToID(blk) = Uint64ToID(blk)
  BY DEF Source!Uint64ToID, Uint64ToID, Source!Uint64ToHash, Uint64ToHash
<1>3. Source!WellFormed(blk) = WellFormed(blk)
  BY DEF Source!WellFormed, WellFormed, Source!IsBlockStartBoundaryType,
         IsBlockStartBoundaryType, Source!Block, Block, Source!Uint64, Uint64,
         Source!Uint32, Uint32, Source!Timestamp, Timestamp, Source!Transaction,
         Transaction, Source!TransactionType, TransactionType
<1>4. Source!EmptyID = EmptyID
  BY DEF Source!EmptyID, EmptyID
<1> QED
  BY <1>1, <1>2, <1>3, <1>4

\* The header of a well formed block is what BlockSource requires of a header.
LEMMA HeaderWellFormed ==
  ASSUME NEW b \in Block, WellFormed(b)
  PROVE  Source!WellFormedHeader(BlockFromProto(b))
<1> DEFINE blk == BlockFromProto(b)
<1>1. b.height \in Nat /\ FirstStreamableBlock \in Nat
  BY AptosBlockAssumption DEF Block, Uint64
<1>2. /\ blk.payload = b /\ blk.number = b.height
      /\ blk.id = Uint64ToID(b.height)
      /\ blk.previousId = PreviousID(b)
      /\ blk.libNum = LIBNum(b)
  BY DEF BlockFromProto, ID
<1>3. BlockDecoder(blk) = b
  BY DEF BlockFromProto, BlockDecoder, CanDecode
<1>4. PreviousID(b) = IF b.height = 0 THEN EmptyID ELSE Uint64ToID(b.height - 1)
  BY DEF PreviousID, PreviousNum
<1>5. /\ LIBNum(b) \in {b.height, b.height - 1} \cap Nat
      /\ LIBNum(b) = b.height => b.height <= FirstStreamableBlock
  BY <1>1 DEF LIBNum
<1> SUFFICES Source!WellFormedHeader(blk)
  OBVIOUS
<1> HIDE DEF blk
<1>6. /\ Source!BlockDecoder(blk) = b
      /\ Source!WellFormed(blk.payload)
      /\ blk.id = Source!Uint64ToID(b.height)
  BY <1>2, <1>3, SourceDecoder
<1>7. blk.previousId = IF b.height = 0 THEN Source!EmptyID ELSE Source!Uint64ToID(b.height - 1)
  BY <1>2, <1>4, SourceDecoder
<1> QED
  BY <1>2, <1>5, <1>6, <1>7 DEF Source!WellFormedHeader

\* Every behaviour of the reader is one of BlockSource, with what ReadBlock has
\* returned as its output: a delivery is a Deliver step, whatever ends the caller
\* an End step, and every other step of either goroutine a stutter.
THEOREM ConsoleReaderImplementsBlockSource == Spec => DeliversBlockSource
<1>1. Init => Source!Init
  BY DEF Init, Source!Init
<1>2. TypeOK /\ TypeOK' /\ BlocksInv /\ BlocksInv' /\ [Next]_vars => [Source!Next]_(Source!vars)
  <2> SUFFICES ASSUME TypeOK, TypeOK', BlocksInv, BlocksInv', [Next]_vars
               PROVE  [Source!Next]_(Source!vars)
    OBVIOUS
  <2> USE DEF Source!Next, Source!vars
  <2>1. ASSUME UNCHANGED <<delivered, caller>>
        PROVE  [Source!Next]_(Source!vars)
    BY <2>1
  <2>2. CASE ProcessData
    BY <2>1, <2>2 DEF ProcessData, SendLine, ScanEnds
  <2>3. CASE SkipNotFirehose \/ SkipBeforeInit \/ SkipUnknown \/ ReadInit
             \/ ReadBlockStart \/ ReadTransaction
    BY <2>1, <2>3 DEF SkipNotFirehose, SkipBeforeInit, SkipUnknown, ReadInit,
                      ReadBlockStart, ReadTransaction
  <2>4. CASE FailConversion \/ RejectLine \/ PanicOnBarePrefix \/ ReadEOF
    <3>1. Source!End
      BY <2>4 DEF FailConversion, EndBlock, RejectLine, PanicOnBarePrefix, ReadEOF, Receive, Source!End
    <3> QED
      BY <3>1
  <2>5. CASE ReadBlockEnd
    <3> DEFINE new == BlockFromProto(activeBlock)
               n   == Len(delivered)
    <3>1. /\ caller = "reading" /\ caller' = "reading"
          /\ delivered' = Append(delivered, new)
          /\ activeBlock # NoBlock /\ activeBlock.transactions # <<>>
      BY <2>5 DEF ReadBlockEnd, EndBlock, Receive, BlockEndOK
    <3>2. activeBlock \in Block /\ WellFormed(activeBlock) /\ activeBlock.chainId = chainID
      BY <3>1 DEF BlocksInv, ActiveBlockInv, TypeOK
    <3>3. Source!WellFormedHeader(new)
      BY <3>2, HeaderWellFormed
    <3>4. new.payload = activeBlock
      BY DEF BlockFromProto
    <3>5. delivered \in Seq(Header) /\ new \in Header
      BY <3>2, HeaderType DEF TypeOK
    <3> HIDE DEF new
    <3>6. /\ n \in Nat /\ Len(delivered') = n + 1
          /\ delivered'[n + 1] = new
          /\ SubSeq(delivered', 1, n) = delivered
      BY <3>1, <3>5
    <3>7. \A i \in DOMAIN delivered : delivered[i].payload.chainId = new.payload.chainId
      BY <3>2, <3>4 DEF BlocksInv, DeliveredInv
    <3>8. Source!Deliver
      BY <3>1, <3>3, <3>6, <3>7 DEF Source!Deliver
    <3> QED
      BY <3>8
  <2>6. CASE UNCHANGED vars
    BY <2>1, <2>6 DEF vars
  <2> QED
    BY <2>2, <2>3, <2>4, <2>5, <2>6 DEF Next, ReadBlock
<1> QED
  BY <1>1, <1>2, TypeInvariant, BlocksInvariant, PTL DEF Spec, DeliversBlockSource, Source!Spec
-------------------------------------------------------------------------------
(* What the ids of delivered blocks say of their heights.                    *)

\* Two heights with the same id are one: their bytes, from the highest on, make the same
\* quotients, and the last of those are the heights.
LEMMA IdsDiffer ==
  ASSUME NEW g \in Uint64, NEW h \in Uint64, Uint64ToID(g) = Uint64ToID(h)
  PROVE  g = h
<1> DEFINE N       == IdBytes
           W(i)    == 256^i
           Q(x, i) == x \div W(N - i)
           byte(x, i) == Uint64ToHash(x)[i]
           digit(x, d) == Uint64ToID(x)[d]
<1>1. N \in Nat \ {0} /\ g \in Nat /\ h \in Nat
  BY AptosBlockAssumption DEF Uint64
<1>2. /\ \A i \in 0 .. N : W(i) \in Nat \ {0}
      /\ \A i \in 1 .. N : W(i) = 256 * W(i - 1)
      /\ W(0) = 1
      /\ g < W(N) /\ h < W(N)
  <2>1. 256^N \in Nat /\ g < 256^N /\ h < 256^N
    BY <1>1, Weights DEF Uint64
  <2>2. 256 \in {16, 256}
    OBVIOUS
  <2> QED
    BY <2>1, <2>2, Weights, WeightAssumption
<1>3. \A x \in Nat : \A i \in 1 .. N : byte(x, i) = Q(x, i) % 256
  BY DEF Uint64ToHash
<1>4. \A x \in Nat : \A d \in 1 .. 2 * N :
        digit(x, d) = IF d % 2 = 1 THEN byte(x, (d + 1) \div 2) \div 16
                                   ELSE byte(x, (d + 1) \div 2) % 16
  BY DEF Uint64ToID
<1>5. \A d : digit(g, d) = digit(h, d)
  OBVIOUS
<1> HIDE DEF W, byte, digit
<1>6. \A x \in Nat : \A i \in 0 .. N : Q(x, i) \in Nat
  <2>1. \A i \in 0 .. N : N - i \in 0 .. N
    BY <1>1
  <2>2. \A x \in Nat : \A w \in Nat \ {0} : x \div w \in Nat
    OBVIOUS
  <2> QED
    BY <1>2, <2>1, <2>2
<1>7. ASSUME NEW i \in 1 .. N
      PROVE  byte(g, i) = byte(h, i)
  <2> DEFINE high == 2 * i - 1
             low  == 2 * i
  <2>1. /\ high \in 1 .. 2 * N /\ low \in 1 .. 2 * N
        /\ high % 2 = 1 /\ low % 2 # 1
        /\ (high + 1) \div 2 = i /\ (low + 1) \div 2 = i
    BY <1>1
  <2> HIDE DEF high, low
  <2>2. \A x \in Nat : digit(x, high) = byte(x, i) \div 16 /\ digit(x, low) = byte(x, i) % 16
    BY <1>4, <2>1
  <2>3. byte(g, i) \in 0 .. 255 /\ byte(h, i) \in 0 .. 255
    <3>1. i \in 0 .. N
      BY <1>1
    <3>2. Q(g, i) \in Nat /\ Q(h, i) \in Nat
      BY <1>1, <1>6, <3>1
    <3>3. \A q \in Nat : q % 256 \in 0 .. 255
      OBVIOUS
    <3>4. Q(g, i) % 256 \in 0 .. 255 /\ Q(h, i) % 256 \in 0 .. 255
      <4> HIDE DEF Q
      <4> QED
        BY <3>2, <3>3
    <3> QED
      BY <1>1, <1>3, <3>4
  <2>4. byte(g, i) \div 16 = byte(h, i) \div 16 /\ byte(g, i) % 16 = byte(h, i) % 16
    BY <1>1, <1>5, <2>2
  <2>5. \A x, y \in 0 .. 255 : x \div 16 = y \div 16 /\ x % 16 = y % 16 => x = y
    OBVIOUS
  <2> QED
    BY <2>3, <2>4, <2>5
<1>8. ASSUME NEW x \in Nat, NEW i \in 1 .. N
      PROVE  Q(x, i - 1) = Q(x, i) \div 256
  <2>1. N - i \in 0 .. N /\ N - (i - 1) \in 1 .. N /\ (N - (i - 1)) - 1 = N - i
    BY <1>1
  <2>2. W(N - (i - 1)) = 256 * W(N - i) /\ W(N - i) \in Nat \ {0}
    BY <1>2, <2>1
  <2> QED
    BY <2>2, DivOfDiv
<1>9. Q(g, 0) = Q(h, 0) /\ Q(g, N) = g /\ Q(h, N) = h
  <2>1. \A w \in Nat \ {0} : g < w /\ h < w => g \div w = 0 /\ h \div w = 0
    BY <1>1
  <2>2. N - 0 = N /\ N - N = 0 /\ N \in 0 .. N
    BY <1>1
  <2>3. Q(g, 0) = 0 /\ Q(h, 0) = 0
    BY <1>2, <2>1, <2>2
  <2>4. \A x \in Nat : x \div 1 = x
    OBVIOUS
  <2>5. Q(g, N) = g /\ Q(h, N) = h
    BY <1>1, <1>2, <2>2, <2>4
  <2> QED
    BY <2>3, <2>5
<1>10. ASSUME NEW i \in 1 .. N, Q(g, i - 1) = Q(h, i - 1)
       PROVE  Q(g, i) = Q(h, i)
  <2>1. i \in 0 .. N
    BY <1>1
  <2>2. Q(g, i) \in Nat /\ Q(h, i) \in Nat
    BY <1>1, <1>6, <2>1
  <2>3. Q(g, i) \div 256 = Q(h, i) \div 256
    BY <1>1, <1>8, <1>10
  <2>4. Q(g, i) % 256 = Q(h, i) % 256
    BY <1>1, <1>3, <1>7
  <2>5. \A x, y \in Nat : x \div 256 = y \div 256 /\ x % 256 = y % 256 => x = y
    OBVIOUS
  <2> HIDE DEF Q
  <2> QED
    BY <2>2, <2>3, <2>4, <2>5
<1> DEFINE same == {i \in 1 .. N : Q(g, i) = Q(h, i)}
<1> HIDE DEF Q
<1>11. \A i \in 1 .. N : i \in same
  <2>1. 1 \in same
    <3>1. 1 \in 1 .. N /\ 1 - 1 = 0
      BY <1>1
    <3> QED
      BY <1>9, <1>10, <3>1
  <2>2. ASSUME NEW i \in 1 .. N, i \in same, i < N
        PROVE  i + 1 \in same
    <3>1. i + 1 \in 1 .. N /\ (i + 1) - 1 = i
      BY <1>1, <2>2
    <3> QED
      BY <1>10, <2>2, <3>1
  <2> HIDE DEF same
  <2> QED
    BY <1>1, <2>1, <2>2, UpTo
<1>12. N \in same
  BY <1>1, <1>11
<1> QED
  BY <1>9, <1>12

\* No height has the empty id.
LEMMA NoEmptyID == \A h : Uint64ToID(h) # EmptyID
<1>1. 1 \in 1 .. 2 * IdBytes
  BY AptosBlockAssumption
<1>2. \A h : 1 \in DOMAIN Uint64ToID(h)
  BY <1>1 DEF Uint64ToID
<1>3. 1 \notin DOMAIN EmptyID
  BY DEF EmptyID
<1> QED
  BY <1>2, <1>3

\* Who receives the blocks may link them by ids alone, whatever the lines and the width of
\* a height.
THEOREM DeliveredBlocksLink == Spec => []DeliveredLink
<1>1. BlocksInv => DeliveredLink
  <2> SUFFICES ASSUME BlocksInv, NEW i \in DOMAIN delivered, NEW j \in DOMAIN delivered
               PROVE  LET one   == delivered[i]
                          other == delivered[j]
                      IN  /\ one.id = other.id <=> one.number = other.number
                          /\ other.previousId = one.id <=> other.number = one.number + 1
                          /\ other.previousId = one.id /\ other.number > FirstStreamableBlock
                               => other.libNum = one.number
    BY DEF DeliveredLink
  <2> DEFINE one   == delivered[i]
             other == delivered[j]
             g     == one.payload.height
             h     == other.payload.height
  <2>1. ASSUME NEW k \in DOMAIN delivered
        PROVE  /\ delivered[k] = BlockFromProto(delivered[k].payload)
               /\ delivered[k].payload \in Block
    BY DEF BlocksInv, DeliveredInv, WellFormed
  <2>2. \A b : /\ BlockFromProto(b).id = Uint64ToID(b.height)
               /\ BlockFromProto(b).number = b.height
               /\ BlockFromProto(b).previousId =
                    IF b.height = 0 THEN EmptyID ELSE Uint64ToID(b.height - 1)
               /\ BlockFromProto(b).libNum =
                    IF b.height <= FirstStreamableBlock THEN b.height ELSE b.height - 1
    BY DEF BlockFromProto, ID, PreviousID, PreviousNum, LIBNum
  <2>3. g \in Uint64 /\ h \in Uint64 /\ FirstStreamableBlock \in Nat
    BY <2>1, AptosBlockAssumption DEF Block, Uint64
  <2>4. /\ one.id = Uint64ToID(g) /\ one.number = g
        /\ other.id = Uint64ToID(h) /\ other.number = h
        /\ other.previousId = IF h = 0 THEN EmptyID ELSE Uint64ToID(h - 1)
        /\ other.libNum = IF h <= FirstStreamableBlock THEN h ELSE h - 1
    BY <2>1, <2>2
  <2>5. g \in Nat /\ h \in Nat /\ (h # 0 => h - 1 \in Uint64)
    BY <2>3, Weights, AptosBlockAssumption DEF Uint64
  <2> HIDE DEF one, other, g, h
  <2>6. one.id = other.id <=> one.number = other.number
    BY <2>3, <2>4, IdsDiffer
  <2>7. other.previousId = one.id <=> other.number = one.number + 1
    <3>1. CASE h = 0
      BY <2>4, <2>5, <3>1, NoEmptyID
    <3>2. CASE h # 0
      <4>1. h - 1 = g <=> h = g + 1
        BY <2>5
      <4> QED
        BY <2>3, <2>4, <2>5, <3>2, <4>1, IdsDiffer
    <3> QED
      BY <3>1, <3>2
  <2>8. other.previousId = one.id /\ other.number > FirstStreamableBlock
          => other.libNum = one.number
    BY <2>3, <2>4, <2>5, <2>7
  <2> QED
    BY <2>6, <2>7, <2>8 DEF one, other
<1> QED
  BY <1>1, BlocksInvariant, PTL
===============================================================================
