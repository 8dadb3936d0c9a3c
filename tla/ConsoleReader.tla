---------------------------- MODULE ConsoleReader ----------------------------
(*****************************************************************************)
(* codec/console_reader.go: one goroutine (ProcessData) scans the output of  *)
(* the instrumented aptos-node and sends each line on the bounded channel    *)
(* `lines'; another (the caller of ReadBlock) receives the lines, assembles  *)
(* blocks out of them and stops at the first error, as every caller in this  *)
(* repository does. The goroutines share nothing but the channel, so         *)
(* receiving a line and handling it is one step.                             *)
(*                                                                           *)
(* A line is its first token and the parameters after it. Abstracted: the    *)
(* text of a parameter, so that one is the integer it parses to, the base64  *)
(* payload of a transaction, or Word when it is neither; the wording of      *)
(* errors; the rates and durations of the statistics.                        *)
(*****************************************************************************)
EXTENDS AptosBlock, FiniteSets

CONSTANTS Lines,     \* the lines the node may print
          Payload,   \* the parameters that encode a transaction
          Decode,    \* and the transaction each one encodes
          Word,      \* a parameter that is no integer and encodes no transaction
          ChanCap,   \* capacity of the channel `lines'
          MaxLines,  \* bound on the lines printed (model checking)
          InitWithin \* bound on the lines printed without an INIT (model checking)

Param == Uint64 \cup Payload \cup {Word}

Line ==
       [tag : {"NOT_FIRE", "BARE"}, params : {<<>>}]  \* no "FIRE" prefix; just "FIRE"
  \cup [tag : {"INIT", "BLOCK_START", "TRX", "BLOCK_END", "OTHER"}, params : Seq(Param)]

ASSUME ConsoleReaderAssumption ==
  /\ Lines \subseteq Line
  /\ Decode \in [Payload -> Transaction]
  /\ Word \notin Uint64 \cup Payload
  /\ Uint64 \cap Payload = {}
  /\ ChanCap \in Nat \ {0}
  /\ MaxLines \in Nat
  /\ InitWithin \in Nat

VARIABLES
  lines,        \* the channel's buffer
  closed,       \* the channel is closed
  producer,     \* ProcessData: "scanning", or returned with "eof" or "failed"
  initRead,     \* r.initRead
  chainID,      \* r.chainID
  activeBlock,  \* r.activeBlock
  lastBlock,    \* r.stats.lastBlock
  caller,       \* "reading", or ended: by "eof", by an "error" of next(), by an
                \* "unconverted" block or by a "panic"
  consumed,     \* history: the lines received so far
  delivered     \* history: the blocks ReadBlock returned

producerVars == <<closed, producer>>
readerVars   == <<initRead, chainID, activeBlock, lastBlock>>
vars == <<lines, producerVars, readerVars, caller, consumed, delivered>>

BlockRefEmpty == [id |-> EmptyID, num |-> 0]

TypeOK ==
  /\ lines \in Seq(Lines)
  /\ Len(lines) <= ChanCap
  /\ closed \in BOOLEAN
  /\ producer \in {"scanning", "eof", "failed"}
  /\ initRead \in BOOLEAN
  /\ chainID \in Uint32
  /\ activeBlock \in Block \cup {NoBlock}
  /\ lastBlock = BlockRefEmpty \/ \E h \in Uint64 : lastBlock = [id |-> Uint64ToID(h), num |-> h]
  /\ caller \in {"reading", "eof", "error", "unconverted", "panic"}
  /\ consumed \in Seq(Lines)
  /\ delivered \in Seq(Header)

Init ==
  /\ lines = <<>> /\ closed = FALSE /\ producer = "scanning"
  /\ initRead = FALSE /\ chainID = 0 /\ activeBlock = NoBlock
  /\ lastBlock = BlockRefEmpty
  /\ caller = "reading" /\ consumed = <<>> /\ delivered = <<>>

-------------------------------------------------------------------------------
(* ProcessData. A panic of the caller takes the whole process down.          *)

Scanning == producer = "scanning" /\ caller # "panic"

WithinBounds(sent) ==
  /\ Len(sent) <= MaxLines
  /\ Len(sent) > InitWithin => \E i \in DOMAIN sent : sent[i].tag = "INIT"

\* `r.lines <- line' blocks while the buffer is full.
SendLine(l) ==
  /\ Scanning
  /\ Len(lines) < ChanCap
  /\ WithinBounds(consumed \o Append(lines, l))
  /\ lines' = Append(lines, l)
  /\ UNCHANGED <<producerVars, readerVars, caller, consumed, delivered>>

\* Faulty variants of ClosesLines, which a run must tell from it (as every
\* definition named after another one and a mistake).
ClosesLines_Always(end) == TRUE
ClosesLines_Never(end) == FALSE

\* Only the end of the output closes the channel: after an error of the scanner
\* (a line above 50 MiB, a failed read) ProcessData returns and leaves it open.
ClosesLines(end) == end = "eof"

ScanEnds(end) ==
  /\ Scanning
  /\ producer' = end
  /\ closed' = ClosesLines(end)
  /\ UNCHANGED <<lines, readerVars, caller, consumed, delivered>>

-------------------------------------------------------------------------------
(* What each handler checks before it changes anything.                      *)

\* The minor version is parsed from the major version's parameter.
MajorToken(params) == params[4]
MinorToken(params) == params[4]
ChainToken_Sixth(params) == params[6]
ChainToken(params) == IF Len(params) = 6 THEN params[6] ELSE params[7]

InitOK(params) ==
  /\ Len(params) \in {6, 7}
  /\ MajorToken(params) \in Uint64
  /\ MinorToken(params) \in Uint64
  /\ MajorToken(params) = 0
  /\ ChainToken(params) \in Uint32

BlockStartOK(params) == Len(params) = 1 /\ params[1] \in Uint64

BoundaryOK_FirstOnly(transactions, trx) ==
  (transactions = <<>>) => IsBlockStartBoundaryType(trx)

\* A boundary transaction opens a block and never appears again in it.
BoundaryOK(transactions, trx) ==
  (transactions = <<>>) <=> IsBlockStartBoundaryType(trx)

TransactionOK(params) ==
  /\ Len(params) = 1
  /\ activeBlock # NoBlock
  /\ params[1] \in Payload
  /\ BoundaryOK(activeBlock.transactions, Decode[params[1]])

BlockEndOK(params) ==
  /\ Len(params) = 1
  /\ params[1] \in Uint64
  /\ activeBlock # NoBlock
  /\ activeBlock.height = params[1]
  /\ activeBlock.transactions # <<>>

-------------------------------------------------------------------------------
(* ReadBlock and next(). Each action below receives the next line.           *)

Receive ==
  /\ caller = "reading"
  /\ lines # <<>>
  /\ lines' = Tail(lines)
  /\ consumed' = Append(consumed, Head(lines))
  /\ UNCHANGED producerVars

\* A line that reaches the switch on the first token: prefixed, and with at
\* least one parameter.
Dispatched(tag) == Head(lines).tag = tag /\ Head(lines).params # <<>>

SkipNotFirehose ==
  /\ Receive
  /\ Head(lines).tag = "NOT_FIRE"
  /\ UNCHANGED <<readerVars, caller, delivered>>

SkipBeforeInit ==
  /\ Receive
  /\ ~initRead
  /\ \E tag \in {"BLOCK_START", "TRX", "BLOCK_END", "OTHER"} : Dispatched(tag)
  /\ UNCHANGED <<readerVars, caller, delivered>>

SkipUnknown ==
  /\ Receive
  /\ initRead
  /\ Dispatched("OTHER")
  /\ UNCHANGED <<readerVars, caller, delivered>>

ReadInit ==
  /\ Receive
  /\ ~initRead
  /\ Dispatched("INIT")
  /\ InitOK(Head(lines).params)
  /\ initRead' = TRUE
  /\ chainID' = ChainToken(Head(lines).params)
  /\ UNCHANGED <<activeBlock, lastBlock, caller, delivered>>

StartedBlock_KeepsTransactions(height) ==
  [height |-> height, chainId |-> chainID, timestamp |-> NilTimestamp,
   transactions |-> IF activeBlock = NoBlock THEN <<>> ELSE activeBlock.transactions]

StartedBlock_NoChain(height) ==
  [height |-> height, chainId |-> 0, timestamp |-> NilTimestamp, transactions |-> <<>>]

\* A block already active is dropped for the new one.
StartedBlock(height) ==
  [height |-> height, chainId |-> chainID, timestamp |-> NilTimestamp, transactions |-> <<>>]

ReadBlockStart ==
  /\ Receive
  /\ initRead
  /\ Dispatched("BLOCK_START")
  /\ BlockStartOK(Head(lines).params)
  /\ activeBlock' = StartedBlock(Head(lines).params[1])
  /\ UNCHANGED <<initRead, chainID, lastBlock, caller, delivered>>

AddTransaction_LastTimestamp(b, trx) ==
  [b EXCEPT !.timestamp = trx.timestamp, !.transactions = Append(@, trx)]

AddTransaction(b, trx) ==
  [b EXCEPT !.timestamp    = IF b.transactions = <<>> THEN trx.timestamp ELSE @,
            !.transactions = Append(@, trx)]

ReadTransaction ==
  /\ Receive
  /\ initRead
  /\ Dispatched("TRX")
  /\ TransactionOK(Head(lines).params)
  /\ activeBlock' = AddTransaction(activeBlock, Decode[Head(lines).params[1]])
  /\ UNCHANGED <<initRead, chainID, lastBlock, caller, delivered>>

\* readBlockEnd has updated the statistics and given up the active block before
\* ReadBlock converts it, so a block that fails to convert is lost.
EndBlock ==
  /\ Receive
  /\ initRead
  /\ Dispatched("BLOCK_END")
  /\ BlockEndOK(Head(lines).params)
  /\ lastBlock' = AsRef(activeBlock)
  /\ activeBlock' = NoBlock
  /\ UNCHANGED <<initRead, chainID>>

ReadBlockEnd ==
  /\ EndBlock
  /\ delivered' = Append(delivered, BlockFromProto(activeBlock))
  /\ UNCHANGED caller

FailConversion_KeepsStats ==
  /\ Receive
  /\ initRead
  /\ Dispatched("BLOCK_END")
  /\ BlockEndOK(Head(lines).params)
  /\ activeBlock' = NoBlock
  /\ caller' = "unconverted"
  /\ UNCHANGED <<initRead, chainID, lastBlock, delivered>>

\* types.BlockFromProto fails (marshalling, or the payload setter's own error).
FailConversion ==
  /\ EndBlock
  /\ caller' = "unconverted"
  /\ UNCHANGED delivered

\* A line next() returns an error for; the state of the reader stays as it is.
Rejected ==
  \/ /\ Head(lines).tag \notin {"NOT_FIRE", "BARE"}
     /\ Head(lines).params = <<>>
  \/ Dispatched("INIT") /\ (initRead \/ ~InitOK(Head(lines).params))
  \/ /\ initRead
     /\ \/ Dispatched("BLOCK_START") /\ ~BlockStartOK(Head(lines).params)
        \/ Dispatched("TRX") /\ ~TransactionOK(Head(lines).params)
        \/ Dispatched("BLOCK_END") /\ ~BlockEndOK(Head(lines).params)

RejectLine ==
  /\ Receive
  /\ Rejected
  /\ caller' = "error"
  /\ UNCHANGED <<readerVars, delivered>>

\* line[len(LogPrefix)+1:] is out of range on a line that is just "FIRE".
PanicOnBarePrefix ==
  /\ Receive
  /\ Head(lines).tag = "BARE"
  /\ caller' = "panic"
  /\ UNCHANGED <<readerVars, delivered>>

ReadEOF_Undrained ==
  /\ caller = "reading"
  /\ closed
  /\ caller' = "eof"
  /\ UNCHANGED <<lines, producerVars, readerVars, consumed, delivered>>

\* `range r.lines' ends once the channel is closed and drained.
ReadEOF ==
  /\ caller = "reading"
  /\ lines = <<>> /\ closed
  /\ caller' = "eof"
  /\ UNCHANGED <<lines, producerVars, readerVars, consumed, delivered>>

ReadBlock ==
  \/ SkipNotFirehose \/ SkipBeforeInit \/ SkipUnknown
  \/ ReadInit \/ ReadBlockStart \/ ReadTransaction
  \/ ReadBlockEnd \/ FailConversion
  \/ RejectLine \/ PanicOnBarePrefix \/ ReadEOF

ProcessData ==
  \/ \E l \in Lines : SendLine(l)
  \/ \E end \in {"eof", "failed"} : ScanEnds(end)

Next == ProcessData \/ ReadBlock

Spec == Init /\ [][Next]_vars

\* The caller loops on ReadBlock for as long as it gets blocks; the node may
\* print nothing more at any time, so nothing is assumed of ProcessData.
FairSpec == Spec /\ WF_vars(ReadBlock)

-------------------------------------------------------------------------------
(* The message exchange format, stated over the lines received and without   *)
(* the reader's state: docs/extractor_message_exachange_format.md as the     *)
(* tests of the codec pin it down.                                           *)

\* The j-th line is a message of this kind, sent after INIT or INIT itself.
Message(j, tag) == consumed[j].tag = tag /\ consumed[j].params # <<>>

AfterInit(j) == \E i \in 1 .. j - 1 : Message(i, "INIT")

\* The lines a BLOCK_START at s and the line at j enclose.
Opens(s, j) ==
  /\ s < j /\ Message(s, "BLOCK_START") /\ AfterInit(s)
  /\ \A i \in s + 1 .. j - 1 : ~Message(i, "BLOCK_START") /\ ~Message(i, "BLOCK_END")

TrxLines(s, j) == {i \in s + 1 .. j - 1 : consumed[i].tag = "TRX"}

OneParam(line, Token) == Len(line.params) = 1 /\ line.params[1] \in Token

\* The line follows the format as the j-th of the stream, given those before it.
Follows(line, j) ==
  \/ line.tag \in {"NOT_FIRE", "BARE"}
  \/ line.tag = "OTHER" /\ line.params # <<>>
  \/ /\ line.tag = "INIT" /\ ~AfterInit(j)
     /\ Len(line.params) \in 6 .. 7
     /\ line.params[4] = 0
     /\ line.params[Len(line.params)] \in Uint32
  \/ line.tag \in {"BLOCK_START", "TRX", "BLOCK_END"} /\ line.params # <<>> /\ ~AfterInit(j)
  \/ line.tag = "BLOCK_START" /\ OneParam(line, Uint64)
  \/ /\ line.tag = "TRX" /\ OneParam(line, Payload)
     /\ \E s \in 1 .. j - 1 :
          /\ Opens(s, j)
          /\ TrxLines(s, j) = {} <=> Decode[line.params[1]].type \in {"GENESIS", "BLOCK_METADATA"}
  \/ /\ line.tag = "BLOCK_END" /\ OneParam(line, Uint64)
     /\ \E s \in 1 .. j - 1 :
          /\ Opens(s, j)
          /\ TrxLines(s, j) # {}
          /\ consumed[s].params = line.params

\* The place of i among the members of S, if it is one.
Rank(S, i) == Cardinality({e \in S : e <= i})

\* The block holds what the lines from the BLOCK_START at s to the j-th say: the
\* height printed at s, the chain id of INIT, and a transaction per TRX line in
\* between, in their order.
Holds(b, s, j) ==
  /\ consumed[s].params = <<b.height>>
  /\ \E i \in 1 .. s - 1 : /\ Message(i, "INIT")
                           /\ b.chainId = consumed[i].params[Len(consumed[i].params)]
  /\ Len(b.transactions) = Cardinality(TrxLines(s, j))
  /\ \A i \in TrxLines(s, j) :
       b.transactions[Rank(TrxLines(s, j), i)] = Decode[consumed[i].params[1]]

\* The BLOCK_END lines that ended a block the caller got.
BlockEnds ==
  {j \in 1 .. Len(consumed) :
     /\ Message(j, "BLOCK_END") /\ AfterInit(j)
     /\ j = Len(consumed) => caller \notin {"error", "unconverted"}}

BlockOf(j) == delivered[Rank(BlockEnds, j)].payload

-------------------------------------------------------------------------------
(* Properties                                                                *)

\* What the caller gets is exactly what the node printed: the k-th block is the
\* one the k-th accepted BLOCK_END closes, with the height of its BLOCK_START,
\* the chain id of INIT and every transaction printed in between, in order. No
\* transaction of a block that was started over, skipped or cut off leaks into
\* another block (readBlockStart, readTransaction, readBlockEnd, 219-326).
DeliveredMatchesLines ==
  /\ Len(delivered) = Cardinality(BlockEnds)
  /\ \A j \in BlockEnds : \E s \in 1 .. j - 1 : Opens(s, j) /\ Holds(BlockOf(j), s, j)

\* The reader rejects a line if and only if the format forbids it at that point
\* of the stream: it stops on the first line out of place, and a stream that
\* follows the format is read to its end (next, 77-140, and every handler).
ErrorIffIllegal ==
  \A j \in 1 .. Len(consumed) :
    ~Follows(consumed[j], j) <=> (j = Len(consumed) /\ caller = "error")

\* A caller is told io.EOF only when the node's output came to its end: output
\* cut short by an error of the scanner never passes for a complete stream
\* (ProcessData, 142-155, with next, 138-139).
EofOnlyAfterCleanEnd == caller = "eof" => producer = "eof" /\ lines = <<>>

\* The block the periodic statistics report is the one of the last BLOCK_END the
\* reader accepted: the last block the caller got, none before the first, and after
\* a failed conversion the block the caller did not get, the one the last line ends
\* (readBlockEnd, 311-314, before ReadBlock's conversion, 64-69).
StatsFollowDelivery ==
  LET last == delivered[Len(delivered)]
      line == consumed[Len(consumed)]
  IN  CASE caller = "unconverted" ->
             /\ line.tag = "BLOCK_END" /\ line.params = <<lastBlock.num>>
             /\ lastBlock.id = Uint64ToID(lastBlock.num)
        [] caller # "unconverted" /\ delivered = <<>> -> lastBlock = BlockRefEmpty
        [] caller # "unconverted" /\ delivered # <<>> ->
             lastBlock = [id |-> last.id, num |-> last.number]

\* The chain that ids and parent ids make of the delivered blocks is the one their
\* heights make, whichever blocks the lines had; and past the first streamable block,
\* a block whose parent was delivered names that parent as the last irreversible one
\* (block.go 12-29, extractor.go 15-49).
DeliveredLink ==
  \A i, j \in DOMAIN delivered :
    LET one   == delivered[i]
        other == delivered[j]
    IN  /\ one.id = other.id <=> one.number = other.number
        /\ other.previousId = one.id <=> other.number = one.number + 1
        /\ other.previousId = one.id /\ other.number > FirstStreamableBlock
             => other.libNum = one.number

\* The console reader is a source of well formed blocks of one chain that stops
\* for good at the first error (ReadBlock, 60-67).
Source == INSTANCE BlockSource WITH out <- delivered, ended <- (caller # "reading")

DeliversBlockSource == Source!Spec

\* What the reader keeps true between lines, and what makes it a BlockSource: the
\* active block is of the chain INIT named and well formed as far as it goes, and
\* every delivered header is the conversion of a well formed block of that chain
\* (readBlockStart, readTransaction, readBlockEnd, 219-326).
ActiveBlockInv ==
  activeBlock # NoBlock =>
    /\ initRead
    /\ activeBlock.chainId = chainID
    /\ activeBlock.transactions # <<>> => WellFormed(activeBlock)

DeliveredInv ==
  /\ delivered # <<>> => initRead
  /\ \A i \in DOMAIN delivered :
       /\ delivered[i] = BlockFromProto(delivered[i].payload)
       /\ WellFormed(delivered[i].payload)
       /\ delivered[i].payload.chainId = chainID

StreamInv ==
  /\ closed => producer = "eof"
  /\ caller = "eof" => closed /\ lines = <<>>

\* While the caller reads on, the reader's state is what the lines say: whether INIT
\* came and which chain it named, and that the active block is the one the last
\* BLOCK_START opened, with the transactions printed since.
RemembersInit ==
  /\ initRead <=> AfterInit(Len(consumed) + 1)
  /\ initRead => \E i \in 1 .. Len(consumed) :
                    /\ Message(i, "INIT")
                    /\ chainID = consumed[i].params[Len(consumed[i].params)]

RemembersBlock ==
  LET next == Len(consumed) + 1
  IN  /\ activeBlock = NoBlock => \A s \in 1 .. Len(consumed) : ~Opens(s, next)
      /\ activeBlock # NoBlock => \E s \in 1 .. Len(consumed) :
                                    Opens(s, next) /\ Holds(activeBlock, s, next)

RemembersLines == caller = "reading" => RemembersInit /\ RemembersBlock

LinesInv == RemembersLines /\ ErrorIffIllegal /\ DeliveredMatchesLines

BlocksInv == ActiveBlockInv /\ DeliveredInv /\ StreamInv /\ StatsFollowDelivery

ReaderInv == BlocksInv /\ LinesInv

\* Every line sent is read, unless the caller stopped at an error before it: the
\* buffered lines are drained even when the channel is closed behind them, and
\* EOF overtakes none of them (next, 78 and 138).
EveryLineRead ==
  \A n \in 1 .. MaxLines :
    Len(consumed) + Len(lines) >= n
      ~> Len(consumed) >= n \/ caller \in {"error", "unconverted", "panic"}

\* When the node's output ends, ReadBlock eventually tells its caller (138-139,
\* 149-152).
StreamEndReported == producer = "eof" ~> caller # "reading"
===============================================================================
