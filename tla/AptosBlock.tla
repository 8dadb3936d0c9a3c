------------------------------ MODULE AptosBlock ------------------------------
(*****************************************************************************)
(* The block and transaction types of the extractor (types/pb/aptos), the    *)
(* identifiers derived from a height, and the conversion to the chain        *)
(* agnostic header that the rest of the Firehose stack indexes blocks by     *)
(* (types/block.go, types/decoder.go).                                       *)
(*                                                                           *)
(* Abstracted: the protobuf encoding (a payload is the block it encodes),    *)
(* the fields of a transaction that no reader looks at, and the unit of a    *)
(* timestamp (a Nat; NilTimestamp is an unset protobuf field).               *)
(*****************************************************************************)
EXTENDS Integers, Sequences

CONSTANTS IdBytes,               \* width in bytes of a height, 8 in the code
          FirstStreamableBlock,  \* bstream.GetProtocolFirstStreamableBlock
          NilTimestamp,          \* a Timestamp field that is not set
          NoBlock                \* the nil *pbaptos.Block

Uint64 == 0 .. 256^IdBytes - 1        \* a height or a version
Uint32 == 0 .. 16^IdBytes - 1         \* a chain id, half as wide

ASSUME AptosBlockAssumption ==
  /\ IdBytes \in Nat \ {0}
  /\ FirstStreamableBlock \in Uint64
  /\ NilTimestamp \notin Nat

\* The facts of arithmetic the proofs need and the provers do not have: what a power
\* is, for the exponents the width of a height calls for.
ASSUME WeightAssumption ==
  \A base \in {16, 256} : /\ base^0 = 1
                          /\ \A i \in 1 .. IdBytes : base^i = base * base^(i - 1)

TransactionType == {"GENESIS", "BLOCK_METADATA", "STATE_CHECKPOINT", "USER"}

Timestamp == Nat \cup {NilTimestamp}

Transaction == [version : Uint64, type : TransactionType, timestamp : Timestamp]

Block == [height       : Uint64,
          chainId      : Uint32,
          timestamp    : Timestamp,
          transactions : Seq(Transaction)]

ASSUME NoBlockAssumption == NoBlock \notin Block

\* The transactions that may only be the first of a block.
IsBlockStartBoundaryType(trx) == trx.type \in {"BLOCK_METADATA", "GENESIS"}

\* A block opens with its only boundary transaction and takes its time from it.
WellFormed(b) ==
  /\ b \in Block
  /\ b.transactions # <<>>
  /\ \A i \in DOMAIN b.transactions :
       IsBlockStartBoundaryType(b.transactions[i]) <=> i = 1
  /\ b.timestamp = b.transactions[1].timestamp

-------------------------------------------------------------------------------
(* Identifiers: the height's big-endian bytes, in hexadecimal.               *)

Uint64ToHash(height) ==
  [i \in 1 .. IdBytes |-> (height \div 256^(IdBytes - i)) % 256]

Uint64ToID_LowDigits(height) ==
  [d \in 1 .. 2 * IdBytes |-> Uint64ToHash(height)[(d + 1) \div 2] % 16]

Uint64ToID(height) ==
  [d \in 1 .. 2 * IdBytes |->
     LET byte == Uint64ToHash(height)[(d + 1) \div 2]
     IN  IF d % 2 = 1 THEN byte \div 16 ELSE byte % 16]

EmptyID == <<>>

HexDigit == 0 .. 15

ID(b) == Uint64ToID(b.height)

PreviousNum_Own(b) == b.height

PreviousNum(b) == IF b.height = 0 THEN 0 ELSE b.height - 1

PreviousID(b) == IF b.height = 0 THEN EmptyID ELSE Uint64ToID(PreviousNum(b))

LIBNum_Unguarded(b) == b.height - 1
LIBNum_Own(b) == b.height
LIBNum_Strict(b) == IF b.height < FirstStreamableBlock THEN b.height ELSE b.height - 1

\* The block before this one is final, except at or below the first block the
\* network streams, which is its own last irreversible block.
LIBNum(b) == IF b.height <= FirstStreamableBlock THEN b.height ELSE b.height - 1

\* A nil timestamp reads as the Unix epoch.
AsTime(ts) == IF ts = NilTimestamp THEN 0 ELSE ts

AsRef(b) == [id |-> ID(b), num |-> b.height]

-------------------------------------------------------------------------------
(* The header under which a block travels to the merger, relayer, firehose.  *)

PayloadKind == "UNKNOWN"

Header == [id             : Seq(HexDigit),
           number         : Uint64,
           previousId     : Seq(HexDigit),
           timestamp      : Nat,
           libNum         : Uint64,
           payloadKind    : {PayloadKind},
           payloadVersion : {1},
           payload        : Block]

BlockFromProto(b) ==
  [id             |-> ID(b),
   number         |-> b.height,
   previousId     |-> PreviousID(b),
   timestamp      |-> AsTime(b.timestamp),
   libNum         |-> LIBNum(b),
   payloadKind    |-> PayloadKind,
   payloadVersion |-> 1,
   payload        |-> b]

CanDecode(blk) == blk.payloadKind = PayloadKind /\ blk.payloadVersion = 1

BlockDecoder(blk) == IF CanDecode(blk) THEN blk.payload ELSE NoBlock
===============================================================================
