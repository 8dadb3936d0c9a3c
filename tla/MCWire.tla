-------------------------------- MODULE MCWire --------------------------------
(*****************************************************************************)
(* Payloads of records that hold one record at most, and that one none.      *)
(*****************************************************************************)
EXTENDS Wire

\* A message within a message is written as one by itself.  The LET is for TLC's
\* coverage, which follows a constant's value through any other expression, here
\* without end.
MarshalWithin(t, m) == LET records == Marshal(t, m) IN records

\* The values a field is sent: of an enumeration, all and one it does not name, of
\* other numbers as many as make a type of each kind.
Numbers(sort) == IF sort \in DOMAIN Enums THEN 0 .. Len(Enums[sort]) ELSE 0 .. 2

\* Payloads of one record at most, for the fields that hold a message, a text or
\* a packed list.
Bodies(field) ==
  LET nums == IF IsMessage(field.sort)
              THEN {Schema[field.sort][f].num : f \in FieldsOf(field.sort)} ELSE {0}
  IN  {<<>>} \cup {<<Varint(n, 1)>> : n \in nums}
             \cup IF Packed(field) THEN {} ELSE {<<Bytes(n, <<>>)>> : n \in nums}

\* A field comes as what its type says, or as the other wire type.
Records(t) ==
  {Varint(NewerField, 1)}
    \cup UNION {   {Varint(Schema[t][f].num, v) : v \in Numbers(Schema[t][f].sort)}
              \cup {Bytes(Schema[t][f].num, b) : b \in Bodies(Schema[t][f])}
                : f \in FieldsOf(t)}

SentRecords == [t \in DOMAIN Schema |-> Records(t)]

\* A record sent, and the ones it may hold.
AllRecords ==
  LET sent == UNION {Records(t) : t \in DOMAIN Schema}
  IN  sent \cup UNION {ToSet(rec.body) : rec \in sent}

DepthOf == [rec \in AllRecords |-> Len(rec.body)]
===============================================================================
