--------------------------------- MODULE Wire ---------------------------------
(*****************************************************************************)
(* What the payload of a FIRE TRX line means: the extractor's messages, read *)
(* from and written to the protobuf wire.  readTransaction                   *)
(* (codec/console_reader.go) takes any bytes that parse for a Transaction,   *)
(* those of another message too.                                             *)
(*                                                                           *)
(* The schema is this repository's (ExtractorTypes), the rules of the wire   *)
(* are those of google.golang.org/protobuf, which the generated code calls:  *)
(* records may come in any order and any number of times, the last scalar    *)
(* wins, messages merge, lists grow, a member of a oneof drops the others,   *)
(* zeros are not written, and what is not understood is kept.                *)
(*                                                                           *)
(* Abstracted: bytes (a record is a field number, a wire type, and the       *)
(* number or the records it holds; a text is its payload), groups and fixed  *)
(* width numbers, which the schema does not use, and numbers that a field of *)
(* 32 bits would cut.  A text always parses as a message here, and any bytes *)
(* are a text: the runtime may refuse either, and then nothing is read.      *)
(*****************************************************************************)
EXTENDS ExtractorTypes, SequencesExt

CONSTANTS MaxRecords,     \* how many records a payload holds
          Record,         \* the records there are, those within others included
          Depth,          \* how deep each of them nests
          Sent,           \* the records that a payload of each type may hold
          NilTimestamp    \* a Timestamp field that is not set

\* What the runtime does with a message within a message: Unmarshal and Marshal below.
CONSTANTS UnmarshalNested(_, _, _), MarshalNested(_, _)

\* What the console reader looks at in a transaction.
Reader == INSTANCE AptosBlock
            WITH IdBytes <- 1, FirstStreamableBlock <- 0, NoBlock <- NilTimestamp

VARIABLES type,   \* the message the payload is read as
          wire,   \* the records of the payload so far
          msg     \* the message they make

vars == <<type, wire, msg>>

\* The largest number that every field of the schema keeps as it is.
MaxInt32 == 2147483647

\* A payload is finite: what is within a record nests less deep than the record.
ASSUME WireAssumption ==
  /\ MaxRecords \in Nat
  /\ Sent \in [DOMAIN Schema -> SUBSET Record]
  /\ Depth \in [Record -> Nat]
  /\ \A rec \in Record :
       /\ rec = [num |-> rec.num, wt |-> rec.wt, value |-> rec.value, body |-> rec.body]
       /\ rec.wt \in {"varint", "len"} /\ rec.num \in Nat
       /\ rec.value \in 0 .. MaxInt32
       /\ rec.body \in Seq(Record)
       /\ \A i \in DOMAIN rec.body : Depth[rec.body[i]] < Depth[rec]

\* A number above those the schema uses, for a field of a newer one.
NewerField == 15

-------------------------------------------------------------------------------
(* Records.                                                                  *)

Varint(num, value) == [num |-> num, wt |-> "varint", value |-> value, body |-> <<>>]
Bytes(num, body)   == [num |-> num, wt |-> "len", value |-> 0, body |-> body]

IsMessage(sort) == sort \in DOMAIN Schema
IsText(sort)    == sort \in {"string", "bytes"}
IsNumber(sort)  == ~IsMessage(sort) /\ ~IsText(sort)

\* A list of numbers is written packed, in one record, and read either way.
Packed(field) == field.repeats /\ IsNumber(field.sort)

Accepts(field, rec) ==
  /\ rec.num = field.num
  /\ \/ IsNumber(field.sort) /\ rec.wt = "varint"
     \/ (Packed(field) \/ ~IsNumber(field.sort)) /\ rec.wt = "len"

-------------------------------------------------------------------------------
(* Messages: each field is the sequence of the values it holds, none for a   *)
(* zero, one at most unless it repeats.                                      *)

FieldsOf(t) == DOMAIN Schema[t]

\* A new message, what Reset leaves.
New(t) == [f \in FieldsOf(t) \cup {"unknownFields"} |-> <<>>]

Zero(sort) == IF IsNumber(sort) THEN 0 ELSE <<>>

\* The getters: the field's value, or its zero.
Get(t, m, f) == IF m[f] = <<>> THEN Zero(Schema[t][f].sort) ELSE m[f][1]

\* The number, the truth or the text in a record, and the numbers packed in one:
\* no list is of truths.
Scalar(field, rec) ==
  IF IsText(field.sort) THEN rec.body
  ELSE IF field.sort = "bool" /\ rec.value # 0 THEN 1
  ELSE rec.value

Scalars(rec) == [i \in DOMAIN rec.body |-> rec.body[i].value]

\* The values a record puts in a field that holds old.  A zero that is not in a
\* oneof is no value at all.
ValuesRead(field, old, rec) ==
  CASE IsMessage(field.sort) /\ field.repeats ->
         Append(old, UnmarshalNested(field.sort, New(field.sort), rec.body))
    [] IsMessage(field.sort) /\ ~field.repeats ->
         <<UnmarshalNested(field.sort, IF old = <<>> THEN New(field.sort) ELSE old[1],
                           rec.body)>>
    [] ~IsMessage(field.sort) /\ field.repeats ->
         IF Packed(field) /\ rec.wt = "len" THEN old \o Scalars(rec)
         ELSE Append(old, Scalar(field, rec))
    [] OTHER -> IF field.group = NoOneof /\ Scalar(field, rec) = Zero(field.sort)
                THEN <<>> ELSE <<Scalar(field, rec)>>

Drops(t, f, g) ==
  /\ g \in FieldsOf(t) \ {f}
  /\ Schema[t][f].group # NoOneof
  /\ Schema[t][g].group = Schema[t][f].group

\* A field gets its values, and the other members of its oneof none.
Put(t, m, f, values) ==
  [g \in DOMAIN m |-> CASE g = f          -> values
                        [] Drops(t, f, g) -> <<>>
                        [] OTHER          -> m[g]]

Consume(t, m, rec) ==
  LET known == {f \in FieldsOf(t) : Accepts(Schema[t][f], rec)}
      f     == CHOOSE g \in known : TRUE
  IN  IF known = {}
      THEN [m EXCEPT !.unknownFields = Append(@, rec)]
      ELSE Put(t, m, f, ValuesRead(Schema[t][f], m[f], rec))

\* proto.Unmarshal, into a message that may hold something.
Unmarshal(t, m, records) ==
  LET read[n \in 0 .. Len(records)] ==
        IF n = 0 THEN m ELSE Consume(t, read[n - 1], records[n])
  IN  read[Len(records)]

-------------------------------------------------------------------------------
(* proto.Marshal: the fields by number, then what was not understood.        *)

RecordOf(field, value) ==
  CASE IsMessage(field.sort) -> Bytes(field.num, MarshalNested(field.sort, value))
    [] IsText(field.sort)    -> Bytes(field.num, value)
    [] OTHER                 -> Varint(field.num, value)

RecordsOf(field, values) ==
  IF Packed(field) /\ values # <<>>
  THEN <<Bytes(field.num, [i \in DOMAIN values |-> Varint(0, values[i])])>>
  ELSE [i \in DOMAIN values |-> RecordOf(field, values[i])]

\* What is written of the field of a number, if there is one.
RecordsAt(t, m, n) ==
  LET numbered == {f \in FieldsOf(t) : Schema[t][f].num = n}
      f        == CHOOSE g \in numbered : TRUE
  IN  IF numbered = {} THEN <<>> ELSE RecordsOf(Schema[t][f], m[f])

KnownRecords(t, m) == FlattenSeq([n \in 1 .. NewerField - 1 |-> RecordsAt(t, m, n)])

Marshal(t, m) == KnownRecords(t, m) \o m.unknownFields

-------------------------------------------------------------------------------
(* A payload, record after record.                                           *)

Init ==
  /\ type \in DOMAIN Schema
  /\ wire = <<>>
  /\ msg = New(type)

Read ==
  /\ Len(wire) < MaxRecords
  /\ \E rec \in Sent[type] :
       /\ wire' = Append(wire, rec)
       /\ msg' = Consume(type, msg, rec)
  /\ UNCHANGED type

Next == Read

Spec == Init /\ [][Next]_vars

-------------------------------------------------------------------------------
(* A transaction as the console reader takes it from a FIRE TRX line.        *)

\* An enumeration is open: a number it does not name is kept as it is.
TypeRead(value) ==
  IF value < Len(Transaction_TransactionType)
  THEN Transaction_TransactionType[value + 1] ELSE "UNNAMED"

TransactionRead(m) ==
  [version   |-> Get("Transaction", m, "version"),
   type      |-> TypeRead(Get("Transaction", m, "type")),
   timestamp |-> IF m.timestamp = <<>> THEN NilTimestamp
                 ELSE Get("Timestamp", m.timestamp[1], "seconds")]

-------------------------------------------------------------------------------
(* Properties.                                                               *)

\* TransactionTrimmed "is a real Transaction with most of the fields removed": a
\* transaction's payload read as one has the same version and timestamp, and
\* written back it is still the whole transaction.
TrimmedAgrees ==
  type = "Transaction" =>
    LET trimmed == Unmarshal("TransactionTrimmed", New("TransactionTrimmed"), wire)
        written == Marshal("TransactionTrimmed", trimmed)
    IN  /\ trimmed.version = msg.version
        /\ trimmed.timestamp = msg.timestamp
        /\ Unmarshal("Transaction", New("Transaction"), written) = msg

\* A TRX payload opens a block when the last type in it is GENESIS or
\* BLOCK_METADATA, and also when it has no type: an empty payload, one cut before
\* its type or one of another message passes readTransaction as the genesis.
MissingTypeOpensBlock ==
  type = "Transaction" =>
    LET types == {i \in DOMAIN wire : wire[i].num = 6 /\ wire[i].wt = "varint"}
    IN  Reader!IsBlockStartBoundaryType(TransactionRead(msg))
          <=> \A i \in types : (\A j \in types : j <= i) => wire[i].value \in {0, 1}

\* The payload of any other message the extractor has, on a TRX line by mistake and
\* as this schema writes it, never passes readTransaction as a state checkpoint or a
\* user's: if it parses at all it opens a block, so within one it is refused.
ForeignPayloadOpensBlock ==
  type # "Transaction" =>
    Reader!IsBlockStartBoundaryType(
      TransactionRead(Unmarshal("Transaction", New("Transaction"), KnownRecords(type, msg))))
===============================================================================
