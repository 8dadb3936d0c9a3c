------------------------------ MODULE WireProofs ------------------------------
(*****************************************************************************)
(* What a TRX payload is taken for, for payloads of any length whose records *)
(* nest to any depth, of any message of the schema.                          *)
(*****************************************************************************)
EXTENDS Wire, DataLemmas, TLAPS

-------------------------------------------------------------------------------
(* Reading a payload record by record.                                       *)

\* The messages a payload is read through, one per record read.
Reads(f, t, m, records) ==
  /\ f[0] = m
  /\ \A i \in 1 .. Len(records) : f[i] = Consume(t, f[i - 1], records[i])

\* A payload is read through some messages, and the last of them is what is read.
LEMMA ReadSteps ==
  ASSUME NEW t, NEW m, NEW records, NEW n \in Nat, Len(records) = n
  PROVE  \E f : Reads(f, t, m, records) /\ Unmarshal(t, m, records) = f[n]
<1> DEFINE Body(f, i) == IF i = 0 THEN m ELSE Consume(t, f[i - 1], records[i])
           Steps(f, k) == f = [i \in 0 .. k |-> Body(f, i)]
           G == {k \in 1 .. n + 1 : \E f : Steps(f, k - 1)}
<1>1. \A k \in 1 .. n + 1 : k \in G
  <2>1. 1 \in G
    <3> DEFINE f == [i \in 0 .. 0 |-> m]
    <3>1. \A i \in 0 .. 0 : Body(f, i) = m
      OBVIOUS
    <3>2. f = [i \in 0 .. 0 |-> Body(f, i)]
      <4> HIDE DEF Body
      <4> QED
        BY <3>1
    <3>3. \E g : Steps(g, 1 - 1)
      <4>1. 1 - 1 = 0
        OBVIOUS
      <4> HIDE DEF Body
      <4> QED
        BY <3>2, <4>1
    <3>4. 1 \in 1 .. n + 1
      OBVIOUS
    <3> HIDE DEF Steps
    <3> QED
      BY <3>3, <3>4
  <2>2. ASSUME NEW k \in 1 .. n + 1, k \in G, k < n + 1
        PROVE  k + 1 \in G
    <3>1. PICK g : Steps(g, k - 1)
      <4> HIDE DEF Steps
      <4> QED
        BY <2>2
    <3> DEFINE f == [i \in 0 .. k |-> IF i = k THEN Consume(t, g[k - 1], records[k]) ELSE g[i]]
    <3>2. ASSUME NEW i \in 0 .. k
          PROVE  f[i] = Body(f, i)
      <4>1. CASE i = k
        <5>1. k - 1 \in 0 .. k /\ k - 1 # k /\ k # 0 /\ k \in 0 .. k
          OBVIOUS
        <5>2. f[k - 1] = g[k - 1] /\ f[k] = Consume(t, g[k - 1], records[k])
          BY <5>1
        <5> HIDE DEF f
        <5> QED
          BY <4>1, <5>1, <5>2
      <4>2. CASE i # k
        <5>1. i \in 0 .. k - 1 /\ (i # 0 => i - 1 # k /\ i - 1 \in 0 .. k)
          BY <4>2
        <5>2. g[i] = Body(g, i)
          <6> HIDE DEF Body
          <6> QED
            BY <3>1, <5>1
        <5>3. f[i] = g[i] /\ (i # 0 => f[i - 1] = g[i - 1])
          BY <4>2, <5>1
        <5> HIDE DEF f
        <5> QED
          BY <5>2, <5>3
      <4> QED
        BY <4>1, <4>2
    <3>3. Steps(f, k)
      <4>1. f = [i \in 0 .. k |-> f[i]]
        OBVIOUS
      <4> HIDE DEF f, Body
      <4> QED
        BY <3>2, <4>1
    <3>4. k + 1 \in 1 .. n + 1 /\ (k + 1) - 1 = k
      BY <2>2
    <3> HIDE DEF f, Steps
    <3> QED
      BY <3>3, <3>4
  <2>3. n + 1 \in Nat /\ \A i \in 1 .. n + 1 : i < n + 1 => i + 1 \in 1 .. n + 1
    OBVIOUS
  <2> HIDE DEF G
  <2> QED
    BY <2>1, <2>2, <2>3, UpTo
<1>2. \E f : Steps(f, n)
  <2>1. n + 1 \in 1 .. n + 1 /\ (n + 1) - 1 = n
    OBVIOUS
  <2> HIDE DEF Steps
  <2> QED
    BY <1>1, <2>1
<1> DEFINE read == CHOOSE f : Steps(f, n)
<1>3. Steps(read, n)
  <2> HIDE DEF Steps
  <2> QED
    BY <1>2
<1>4. Unmarshal(t, m, records) = read[n]
  BY DEF Unmarshal
<1> HIDE DEF read
<1>5. \A i \in 0 .. n : read[i] = Body(read, i)
  <2> HIDE DEF Body
  <2> QED
    BY <1>3
<1>6. Reads(read, t, m, records)
  <2>1. read[0] = m
    BY <1>5
  <2>2. ASSUME NEW i \in 1 .. n
        PROVE  read[i] = Consume(t, read[i - 1], records[i])
    <3>1. i \in 0 .. n /\ i # 0
      OBVIOUS
    <3> QED
      BY <1>5, <3>1
  <2> QED
    BY <2>1, <2>2 DEF Reads
<1> QED
  BY <1>4, <1>6

\* There is one way to read a payload.
LEMMA ReadAlong ==
  ASSUME NEW t, NEW m, NEW records, NEW n \in Nat, Len(records) = n,
         NEW f, Reads(f, t, m, records)
  PROVE  Unmarshal(t, m, records) = f[n]
<1>1. PICK g : Reads(g, t, m, records) /\ Unmarshal(t, m, records) = g[n]
  BY ReadSteps
<1> DEFINE G == {i \in 1 .. n : f[i] = g[i]}
<1>2. f[0] = g[0]
  BY <1>1 DEF Reads
<1>3. ASSUME NEW i \in 1 .. n, f[i - 1] = g[i - 1]
      PROVE  i \in G
  BY <1>1, <1>3 DEF Reads
<1>4. \A i \in 1 .. n : i \in G
  <2>1. n # 0 => 1 \in G
    BY <1>2, <1>3
  <2>2. ASSUME NEW i \in 1 .. n, i \in G, i < n
        PROVE  i + 1 \in G
    <3>1. i + 1 \in 1 .. n /\ (i + 1) - 1 = i /\ f[i] = g[i]
      BY <2>2
    <3> HIDE DEF G
    <3> QED
      BY <1>3, <3>1
  <2> HIDE DEF G
  <2> QED
    BY <2>1, <2>2, UpTo
<1>5. f[n] = g[n]
  BY <1>2, <1>4
<1> QED
  BY <1>1, <1>5

\* Nothing read leaves the message as it was.
LEMMA ReadNothing ==
  ASSUME NEW t, NEW m
  PROVE  Unmarshal(t, m, <<>>) = m
<1> DEFINE f == [i \in 0 .. 0 |-> m]
<1>1. Reads(f, t, m, <<>>) /\ f[0] = m
  BY DEF Reads
<1>2. Len(<<>>) = 0
  OBVIOUS
<1> HIDE DEF f
<1> QED
  BY <1>1, <1>2, ReadAlong

\* A payload and another one after it.
LEMMA ReadJoined ==
  ASSUME NEW t, NEW m, NEW S, NEW a \in Seq(S), NEW b \in Seq(S)
  PROVE  Unmarshal(t, m, a \o b) = Unmarshal(t, Unmarshal(t, m, a), b)
<1> DEFINE k == Len(a)
           l == Len(b)
           ab == a \o b
<1>1. /\ k \in Nat /\ l \in Nat /\ Len(ab) = k + l
      /\ \A i \in 1 .. k : ab[i] = a[i]
      /\ \A i \in 1 .. l : ab[k + i] = b[i]
  BY Joined
<1>2. PICK f : Reads(f, t, m, a) /\ Unmarshal(t, m, a) = f[k]
  BY <1>1, ReadSteps
<1>3. PICK g : Reads(g, t, f[k], b) /\ Unmarshal(t, f[k], b) = g[l]
  BY <1>1, ReadSteps
<1> HIDE DEF k, l, ab
<1> DEFINE h == [i \in 0 .. k + l |-> IF i <= k THEN f[i] ELSE g[i - k]]
<1>4. /\ h[0] = f[0]
      /\ h[k + l] = g[l]
      /\ \A i \in 1 .. k + l : h[i] = IF i <= k THEN f[i] ELSE g[i - k]
      /\ \A i \in 1 .. k + l : h[i - 1] = IF i <= k + 1 THEN f[i - 1] ELSE g[(i - k) - 1]
  <2>1. h[k + l] = g[l]
    <3>1. CASE l = 0
      <4>1. k + l = k /\ k + l \in 0 .. k + l /\ k + l <= k
        BY <1>1, <3>1
      <4> QED
        BY <1>3, <3>1, <4>1 DEF Reads
    <3>2. CASE l # 0
      <4>1. k + l \in 0 .. k + l /\ ~(k + l <= k) /\ (k + l) - k = l
        BY <1>1, <3>2
      <4> QED
        BY <4>1
    <3> QED
      BY <3>1, <3>2
  <2>2. ASSUME NEW i \in 1 .. k + l
        PROVE  /\ h[i] = IF i <= k THEN f[i] ELSE g[i - k]
               /\ h[i - 1] = IF i <= k + 1 THEN f[i - 1] ELSE g[(i - k) - 1]
    <3>1. i \in 0 .. k + l /\ i - 1 \in 0 .. k + l /\ (i - 1 <= k <=> i <= k + 1)
          /\ (i - 1) - k = (i - k) - 1
      BY <1>1
    <3> QED
      BY <3>1
  <2>3. 0 \in 0 .. k + l /\ 0 <= k
    BY <1>1
  <2> QED
    BY <2>1, <2>2, <2>3
<1> HIDE DEF h
<1>5. Reads(h, t, m, ab)
  <2>1. h[0] = m
    BY <1>2, <1>4 DEF Reads
  <2>2. ASSUME NEW i \in 1 .. k + l
        PROVE  h[i] = Consume(t, h[i - 1], ab[i])
    <3>1. CASE i <= k
      <4>1. i \in 1 .. k /\ i <= k + 1
        BY <1>1, <3>1
      <4>2. f[i] = Consume(t, f[i - 1], a[i])
        BY <1>2, <4>1 DEF Reads, k
      <4> QED
        BY <1>1, <1>4, <3>1, <4>1, <4>2
    <3>2. CASE ~(i <= k)
      <4> DEFINE j == i - k
      <4>1. j \in 1 .. l /\ i = k + j /\ (i <= k + 1 <=> j = 1)
        BY <1>1, <3>2
      <4>2. g[j] = Consume(t, g[j - 1], b[j])
        BY <1>3, <4>1 DEF Reads, l
      <4>3. h[i] = g[j]
        BY <1>4, <3>2
      <4>4. h[i - 1] = g[j - 1]
        <5>1. CASE j = 1
          <6>1. i - 1 = k /\ i <= k + 1 /\ j - 1 = 0
            BY <1>1, <4>1, <5>1
          <6>2. g[0] = f[k]
            BY <1>3 DEF Reads
          <6> QED
            BY <1>4, <6>1, <6>2
        <5>2. CASE j # 1
          BY <1>4, <4>1, <5>2
        <5> QED
          BY <5>1, <5>2
      <4>5. ab[i] = b[j]
        BY <1>1, <4>1
      <4> QED
        BY <4>2, <4>3, <4>4, <4>5
    <3> QED
      BY <3>1, <3>2
  <2> QED
    BY <1>1, <2>1, <2>2 DEF Reads
<1>6. Unmarshal(t, m, ab) = h[k + l]
  BY <1>1, <1>5, ReadAlong
<1> QED
  BY <1>2, <1>3, <1>4, <1>6 DEF ab

\* One record.
LEMMA ReadOne ==
  ASSUME NEW t, NEW m, NEW rec
  PROVE  Unmarshal(t, m, <<rec>>) = Consume(t, m, rec)
<1> DEFINE f == [i \in 0 .. 1 |-> IF i = 0 THEN m ELSE Consume(t, m, rec)]
           records == <<rec>>
<1>1. Len(records) = 1 /\ records[1] = rec /\ 1 \in Nat
  OBVIOUS
<1>2. f[0] = m /\ f[1] = Consume(t, m, rec)
  OBVIOUS
<1> HIDE DEF f, records
<1>3. Reads(f, t, m, records)
  <2>1. ASSUME NEW i \in 1 .. 1
        PROVE  f[i] = Consume(t, f[i - 1], records[i])
    <3>1. i = 1 /\ i - 1 = 0
      OBVIOUS
    <3> QED
      BY <1>1, <1>2, <3>1
  <2> QED
    BY <1>1, <1>2, <2>1 DEF Reads
<1>4. Unmarshal(t, m, records) = f[Len(records)]
  <2>1. Len(records) \in Nat
    BY <1>1
  <2> QED
    BY <1>3, <2>1, ReadAlong
<1> QED
  BY <1>1, <1>2, <1>4 DEF records

\* One record more.
LEMMA ReadMore ==
  ASSUME NEW t, NEW m, NEW S, NEW a \in Seq(S), NEW rec \in S
  PROVE  Unmarshal(t, m, Append(a, rec)) = Consume(t, Unmarshal(t, m, a), rec)
<1> DEFINE b == <<rec>>
<1>1. Append(a, rec) = a \o b /\ b \in Seq(S)
  OBVIOUS
<1>2. \A p : Unmarshal(t, p, b) = Consume(t, p, rec)
  BY ReadOne
<1> HIDE DEF b
<1>3. Unmarshal(t, m, a \o b) = Unmarshal(t, Unmarshal(t, m, a), b)
  BY <1>1, ReadJoined
<1> QED
  BY <1>1, <1>2, <1>3

-------------------------------------------------------------------------------
(* The schema.                                                               *)

\* No two fields of a message have a number, no list is in a oneof, and no number is that
\* of a newer field.
Proper(message) ==
  /\ "unknownFields" \notin DOMAIN message
  /\ \A f \in DOMAIN message :
       /\ message[f].num \in 1 .. NewerField - 1
       /\ message[f].repeats => message[f].group = NoOneof
       /\ \A g \in DOMAIN message : message[g].num = message[f].num => g = f

\* The messages of the schema are proper, each by its own descriptors.
LEMMA SchemaProper == \A t \in DOMAIN Schema : Proper(Schema[t])
<1> USE DEF Proper, Field, NewerField
<1>1. Proper(Block)
  BY DEF Block, One, Many
<1>2. Proper(Transaction)
  BY DEF Transaction, One, OneOf
<1>3. Proper(TransactionTrimmed)
  BY DEF TransactionTrimmed, One
<1>4. Proper(BlockMetadataTransaction)
  BY DEF BlockMetadataTransaction, One, Many
<1>5. Proper(GenesisTransaction)
  BY DEF GenesisTransaction, One, Many
<1>6. Proper(StateCheckpointTransaction)
  BY DEF StateCheckpointTransaction, One
<1>7. Proper(UserTransaction)
  BY DEF UserTransaction, One, Many
<1>8. Proper(Event)
  BY DEF Event, One
<1>9. Proper(TransactionInfo)
  BY DEF TransactionInfo, One, Many, OneOf
<1>10. Proper(EventKey)
  BY DEF EventKey, One
<1>11. Proper(UserTransactionRequest)
  BY DEF UserTransactionRequest, One
<1>12. Proper(WriteSet)
  BY DEF WriteSet, One, OneOf
<1>13. Proper(ScriptWriteSet)
  BY DEF ScriptWriteSet, One
<1>14. Proper(DirectWriteSet)
  BY DEF DirectWriteSet, Many
<1>15. Proper(WriteSetChange)
  BY DEF WriteSetChange, One, OneOf
<1>16. Proper(DeleteModule)
  BY DEF DeleteModule, One
<1>17. Proper(DeleteResource)
  BY DEF DeleteResource, One
<1>18. Proper(DeleteTableItem)
  BY DEF DeleteTableItem, One
<1>19. Proper(DeleteTableData)
  BY DEF DeleteTableData, One
<1>20. Proper(WriteModule)
  BY DEF WriteModule, One
<1>21. Proper(WriteResource)
  BY DEF WriteResource, One
<1>22. Proper(WriteTableData)
  BY DEF WriteTableData, One
<1>23. Proper(WriteTableItem)
  BY DEF WriteTableItem, One
<1>24. Proper(TransactionPayload)
  BY DEF TransactionPayload, One, OneOf
<1>25. Proper(EntryFunctionPayload)
  BY DEF EntryFunctionPayload, One, Many
<1>26. Proper(MoveScriptBytecode)
  BY DEF MoveScriptBytecode, One
<1>27. Proper(ScriptPayload)
  BY DEF ScriptPayload, One, Many
<1>28. Proper(ModuleBundlePayload)
  BY DEF ModuleBundlePayload, Many
<1>29. Proper(MoveModuleBytecode)
  BY DEF MoveModuleBytecode, One
<1>30. Proper(MoveModule)
  BY DEF MoveModule, One, Many
<1>31. Proper(MoveFunction)
  BY DEF MoveFunction, One, Many
<1>32. Proper(MoveStruct)
  BY DEF MoveStruct, One, Many
<1>33. Proper(MoveStructGenericTypeParam)
  BY DEF MoveStructGenericTypeParam, One, Many
<1>34. Proper(MoveStructField)
  BY DEF MoveStructField, One
<1>35. Proper(MoveFunctionGenericTypeParam)
  BY DEF MoveFunctionGenericTypeParam, Many
<1>36. Proper(MoveType)
  BY DEF MoveType, One, OneOf
<1>37. Proper(WriteSetPayload)
  BY DEF WriteSetPayload, One
<1>38. Proper(EntryFunctionId)
  BY DEF EntryFunctionId, One
<1>39. Proper(MoveModuleId)
  BY DEF MoveModuleId, One
<1>40. Proper(MoveStructTag)
  BY DEF MoveStructTag, One, Many
<1>41. Proper(Signature)
  BY DEF Signature, One, OneOf
<1>42. Proper(Ed25519Signature)
  BY DEF Ed25519Signature, One
<1>43. Proper(MultiEd25519Signature)
  BY DEF MultiEd25519Signature, One, Many
<1>44. Proper(MultiAgentSignature)
  BY DEF MultiAgentSignature, One, Many
<1>45. Proper(AccountSignature)
  BY DEF AccountSignature, One, OneOf
<1>46. Proper(MoveType_ReferenceType)
  BY DEF MoveType_ReferenceType, One
<1>47. Proper(Timestamp)
  BY DEF Timestamp, One
<1> HIDE DEF Proper
<1> QED
  BY <1>1, <1>2, <1>3, <1>4, <1>5, <1>6, <1>7, <1>8, <1>9, <1>10, <1>11, <1>12, <1>13, <1>14, <1>15, <1>16, <1>17, <1>18, <1>19, <1>20, <1>21, <1>22, <1>23, <1>24, <1>25, <1>26, <1>27, <1>28, <1>29, <1>30, <1>31, <1>32, <1>33, <1>34, <1>35, <1>36, <1>37, <1>38, <1>39, <1>40, <1>41, <1>42, <1>43, <1>44, <1>45, <1>46, <1>47 DEF Schema

\* A record that a field accepts is that field's alone.
LEMMA KnownRecord ==
  ASSUME NEW t \in DOMAIN Schema, NEW m, NEW rec, NEW f \in FieldsOf(t), Accepts(Schema[t][f], rec)
  PROVE  Consume(t, m, rec) = Put(t, m, f, ValuesRead(Schema[t][f], m[f], rec))
<1> DEFINE known == {g \in FieldsOf(t) : Accepts(Schema[t][g], rec)}
<1>1. known = {f}
  <2>1. ASSUME NEW g \in FieldsOf(t), Accepts(Schema[t][g], rec)
        PROVE  g = f
    <3>1. Schema[t][g].num = Schema[t][f].num
      BY <2>1 DEF Accepts
    <3>2. f \in DOMAIN Schema[t] /\ g \in DOMAIN Schema[t] /\ Proper(Schema[t])
      BY SchemaProper DEF FieldsOf
    <3> HIDE DEF FieldsOf
    <3> QED
      BY <3>1, <3>2 DEF Proper
  <2> QED
    BY <2>1
<1>2. (CHOOSE g \in known : TRUE) = f /\ known # {}
  <2> HIDE DEF known
  <2> QED
    BY <1>1
<1> QED
  BY <1>2 DEF Consume

\* A record that no field accepts is kept.
LEMMA UnknownRecord ==
  ASSUME NEW t, NEW m, NEW rec, \A f \in FieldsOf(t) : ~Accepts(Schema[t][f], rec)
  PROVE  Consume(t, m, rec) = [m EXCEPT !.unknownFields = Append(@, rec)]
<1> DEFINE known == {g \in FieldsOf(t) : Accepts(Schema[t][g], rec)}
<1>1. known = {}
  OBVIOUS
<1> QED
  BY <1>1 DEF Consume

\* A message has its fields and what was not understood, whatever is read into it.
Slots(t) == FieldsOf(t) \cup {"unknownFields"}

\* A message of a type, as far as its slots go.
HasSlots(t, m) == m = [g \in Slots(t) |-> m[g]]

\* No record adds a slot to a message or takes one away.
LEMMA SlotsKept ==
  ASSUME NEW t \in DOMAIN Schema, NEW m, HasSlots(t, m), NEW rec
  PROVE  HasSlots(t, Consume(t, m, rec)) /\ DOMAIN m = Slots(t)
<1>1. DOMAIN m = Slots(t)
  BY DEF HasSlots
<1>2. CASE \E f \in FieldsOf(t) : Accepts(Schema[t][f], rec)
  <2>1. PICK f \in FieldsOf(t) : Accepts(Schema[t][f], rec)
    BY <1>2
  <2>2. \A values : HasSlots(t, Put(t, m, f, values))
    BY <1>1 DEF HasSlots, Put
  <2> QED
    BY <1>1, <2>1, <2>2, KnownRecord
<1>3. CASE \A f \in FieldsOf(t) : ~Accepts(Schema[t][f], rec)
  <2>1. Consume(t, m, rec) = [m EXCEPT !["unknownFields"] = Append(m["unknownFields"], rec)]
    BY <1>3, UnknownRecord
  <2> QED
    BY <1>1, <2>1 DEF HasSlots
<1> QED
  BY <1>1, <1>2, <1>3

-------------------------------------------------------------------------------
(* A payload, record after record.                                           *)

\* The payload is of records there are, and the message has the fields of its type.
PayloadInv ==
  /\ type \in DOMAIN Schema
  /\ wire \in Seq(Record)
  /\ HasSlots(type, msg)

\* A new message has its slots.
LEMMA NewHasSlots == \A t : HasSlots(t, New(t))
BY DEF HasSlots, New, Slots

\* At first the payload is empty and the message new.
LEMMA PayloadInit == Init => PayloadInv
BY NewHasSlots DEF Init, PayloadInv

\* A step is a record there is, at the end of the payload and read into the message.
LEMMA PayloadStep ==
  ASSUME PayloadInv, [Next]_vars
  PROVE  /\ PayloadInv'
         /\ \/ UNCHANGED vars
            \/ \E rec \in Record : /\ wire' = Append(wire, rec)
                                   /\ msg' = Consume(type, msg, rec)
                                   /\ type' = type
<1>1. CASE Next
  <2>1. PICK rec \in Sent[type] : wire' = Append(wire, rec) /\ msg' = Consume(type, msg, rec)
    BY <1>1 DEF Next, Read
  <2>2. rec \in Record /\ type' = type
    BY <1>1, <2>1, WireAssumption DEF Next, Read, PayloadInv
  <2>3. HasSlots(type, msg')
    BY <2>1, SlotsKept DEF PayloadInv
  <2>4. wire' \in Seq(Record)
    BY <2>1, <2>2 DEF PayloadInv
  <2> QED
    BY <2>1, <2>2, <2>3, <2>4 DEF PayloadInv
<1>2. CASE UNCHANGED vars
  BY <1>2 DEF PayloadInv, vars
<1> QED
  BY <1>1, <1>2

-------------------------------------------------------------------------------
(* The type a transaction's payload gives it.                                *)

\* The field of the type, an enumeration outside any oneof.
LEMMA TypeField ==
  /\ "Transaction" \in DOMAIN Schema
  /\ "type" \in FieldsOf("Transaction")
  /\ Schema["Transaction"]["type"] = One(6, "Transaction_TransactionType")
  /\ IsNumber("Transaction_TransactionType")
<1>1. "Transaction" \in DOMAIN Schema /\ Schema["Transaction"] = Transaction
  BY DEF Schema
<1>2. "type" \in DOMAIN Transaction /\ Transaction["type"] = One(6, "Transaction_TransactionType")
  BY DEF Transaction
<1>3. "Transaction_TransactionType" \notin DOMAIN Schema
  BY DEF Schema
<1>4. IsNumber("Transaction_TransactionType")
  BY <1>3 DEF IsNumber, IsMessage, IsText
<1> QED
  BY <1>1, <1>2, <1>4 DEF FieldsOf

\* A record with the transaction's type.
GivesType(rec) == rec.num = 6 /\ rec.wt = "varint"

\* What the field holds of a type: nothing of the first.
TypeHeld(value) == IF value = 0 THEN <<>> ELSE <<value>>

\* The type is what the record that gives one says, and no other record changes it.
LEMMA TypeOfRecord ==
  ASSUME NEW m, HasSlots("Transaction", m), NEW rec
  PROVE  Consume("Transaction", m, rec).type = IF GivesType(rec) THEN TypeHeld(rec.value) ELSE m.type
<1> DEFINE t == "Transaction"
           field == Schema[t]["type"]
<1>1. /\ t \in DOMAIN Schema /\ "type" \in FieldsOf(t) /\ "type" \in DOMAIN m
      /\ field.num = 6 /\ field.sort = "Transaction_TransactionType"
      /\ ~field.repeats /\ field.group = NoOneof
      /\ IsNumber(field.sort) /\ ~IsMessage(field.sort) /\ ~IsText(field.sort)
      /\ ~Packed(field)
  <2>1. t \in DOMAIN Schema /\ "type" \in FieldsOf(t) /\ "type" \in DOMAIN m
    BY TypeField, SlotsKept DEF Slots
  <2>2. field = One(6, "Transaction_TransactionType")
    BY TypeField
  <2> HIDE DEF field
  <2>3. /\ field.num = 6 /\ field.sort = "Transaction_TransactionType"
        /\ ~field.repeats /\ field.group = NoOneof
    BY <2>2 DEF One, Field
  <2> QED
    BY <2>1, <2>3, TypeField DEF IsNumber, Packed
<1> HIDE DEF t
<1>2. Accepts(field, rec) <=> GivesType(rec)
  BY <1>1 DEF Accepts, GivesType
<1>3. \A f \in FieldsOf(t) : ~Drops(t, f, "type")
  BY <1>1 DEF Drops
<1>4. ValuesRead(field, m["type"], rec) = TypeHeld(rec.value)
  BY <1>1 DEF ValuesRead, Scalar, TypeHeld, Zero
<1> HIDE DEF field
<1>5. CASE GivesType(rec)
  <2>1. Consume(t, m, rec) = Put(t, m, "type", ValuesRead(field, m["type"], rec))
    BY <1>1, <1>2, <1>5, KnownRecord DEF field
  <2>2. \A values : Put(t, m, "type", values)["type"] = values
    BY <1>1 DEF Put, Drops
  <2> QED
    BY <1>4, <1>5, <2>1, <2>2 DEF t
<1>6. CASE ~GivesType(rec)
  <2>1. CASE \E f \in FieldsOf(t) : Accepts(Schema[t][f], rec)
    <3>1. PICK f \in FieldsOf(t) : Accepts(Schema[t][f], rec)
      BY <2>1
    <3>2. f # "type"
      BY <1>2, <1>6, <3>1 DEF field
    <3>3. \A values : Put(t, m, f, values)["type"] = m["type"]
      BY <1>1, <1>3, <3>2 DEF Put
    <3>4. Consume(t, m, rec) = Put(t, m, f, ValuesRead(Schema[t][f], m[f], rec))
      BY <1>1, <3>1, KnownRecord
    <3> QED
      BY <1>6, <3>3, <3>4 DEF t
  <2>2. CASE \A f \in FieldsOf(t) : ~Accepts(Schema[t][f], rec)
    <3>1. Consume(t, m, rec) = [m EXCEPT !["unknownFields"] = Append(m["unknownFields"], rec)]
      BY <2>2, UnknownRecord
    <3> QED
      BY <1>1, <1>6, <3>1 DEF t
  <2> QED
    BY <2>1, <2>2
<1> QED
  BY <1>5, <1>6

\* The transaction's type is what the last record to give one says.
TypeInv ==
  type = "Transaction" =>
    \/ msg.type = <<>> /\ \A i \in DOMAIN wire : ~GivesType(wire[i])
    \/ \E i \in DOMAIN wire : /\ GivesType(wire[i])
                              /\ \A j \in DOMAIN wire : GivesType(wire[j]) => j <= i
                              /\ msg.type = TypeHeld(wire[i].value)

\* PayloadInv and TypeInv hold of every reachable state.
THEOREM TypeInvariant == Spec => [](PayloadInv /\ TypeInv)
<1>1. Init => PayloadInv /\ TypeInv
  <2> SUFFICES ASSUME Init, type = "Transaction"
               PROVE  msg.type = <<>> /\ \A i \in DOMAIN wire : ~GivesType(wire[i])
    BY PayloadInit DEF TypeInv
  <2>1. DOMAIN wire = {}
    BY DEF Init
  <2>2. msg["type"] = <<>>
    BY TypeField DEF Init, New
  <2> QED
    BY <2>1, <2>2
<1>2. PayloadInv /\ TypeInv /\ [Next]_vars => PayloadInv' /\ TypeInv'
  <2> SUFFICES ASSUME PayloadInv, TypeInv, [Next]_vars, type' = "Transaction"
               PROVE  TypeInv'
    BY PayloadStep DEF TypeInv
  <2>1. CASE UNCHANGED vars
    BY <2>1 DEF TypeInv, vars
  <2>2. ASSUME NEW rec \in Record,
               wire' = Append(wire, rec), msg' = Consume(type, msg, rec), type' = type
        PROVE  TypeInv'
    <3> DEFINE n == Len(wire)
    <3>1. /\ n \in Nat /\ DOMAIN wire = 1 .. n /\ DOMAIN wire' = 1 .. n + 1
          /\ wire'[n + 1] = rec /\ \A i \in 1 .. n : wire'[i] = wire[i]
      BY <2>2 DEF PayloadInv
    <3>2. msg'.type = IF GivesType(rec) THEN TypeHeld(rec.value) ELSE msg.type
      BY <2>2, TypeOfRecord DEF PayloadInv
    <3> HIDE DEF n
    <3>3. CASE GivesType(rec)
      <4>1. n + 1 \in DOMAIN wire' /\ \A j \in DOMAIN wire' : j <= n + 1
        BY <3>1
      <4> QED
        BY <3>1, <3>2, <3>3, <4>1 DEF TypeInv
    <3>4. CASE ~GivesType(rec)
      <4>1. \A j \in DOMAIN wire' : GivesType(wire'[j]) => j \in DOMAIN wire /\ wire'[j] = wire[j]
        BY <3>1, <3>4
      <4>2. \A j \in DOMAIN wire : j \in DOMAIN wire' /\ wire'[j] = wire[j]
        BY <3>1
      <4> QED
        BY <2>2, <3>2, <3>4, <4>1, <4>2 DEF TypeInv
    <3> QED
      BY <3>3, <3>4
  <2> QED
    BY <2>1, <2>2, PayloadStep
<1> QED
  BY <1>1, <1>2, PTL DEF Spec

\* What a value of the enumeration makes of the transaction.
LEMMA OpensBlock ==
  ASSUME NEW m, NEW value \in Nat, m.type = TypeHeld(value)
  PROVE  Reader!IsBlockStartBoundaryType(TransactionRead(m)) <=> value \in {0, 1}
<1>1. Get("Transaction", m, "type") = value
  <2>1. Zero(Schema["Transaction"]["type"].sort) = 0
    BY TypeField DEF Zero, One, Field
  <2>2. m["type"] = TypeHeld(value) /\ (value # 0 => <<value>> # <<>> /\ <<value>>[1] = value)
    OBVIOUS
  <2> QED
    BY <2>1, <2>2 DEF Get, TypeHeld
<1>2. TransactionRead(m).type = TypeRead(value)
  BY <1>1 DEF TransactionRead
<1>3. TypeRead(value) \in {"BLOCK_METADATA", "GENESIS"} <=> value \in {0, 1}
  BY DEF TypeRead, Transaction_TransactionType
<1> QED
  BY <1>2, <1>3 DEF Reader!IsBlockStartBoundaryType

\* A payload opens a block when the last type in it is one of a boundary, and when it
\* has none.
THEOREM MissingTypeOpens == Spec => []MissingTypeOpensBlock
<1>1. PayloadInv /\ TypeInv => MissingTypeOpensBlock
  <2> DEFINE types == {i \in DOMAIN wire : wire[i].num = 6 /\ wire[i].wt = "varint"}
             Opens == Reader!IsBlockStartBoundaryType(TransactionRead(msg))
             Newest(i) == \A j \in types : j <= i
  <2> SUFFICES ASSUME PayloadInv, TypeInv, type = "Transaction"
               PROVE  Opens <=> \A i \in types : Newest(i) => wire[i].value \in {0, 1}
    BY DEF MissingTypeOpensBlock
  <2>1. \A i \in DOMAIN wire : i \in types <=> GivesType(wire[i])
    BY DEF GivesType
  <2>2. \A i \in DOMAIN wire : i \in Nat /\ wire[i].value \in Nat
    BY WireAssumption DEF PayloadInv
  <2>3. types \subseteq DOMAIN wire
    OBVIOUS
  <2> HIDE DEF types, Opens
  <2>4. CASE msg.type = <<>> /\ \A i \in DOMAIN wire : ~GivesType(wire[i])
    <3>1. types = {}
      BY <2>1, <2>3, <2>4
    <3>2. msg.type = TypeHeld(0) /\ 0 \in Nat
      BY <2>4 DEF TypeHeld
    <3>3. Opens
      BY <3>2, OpensBlock DEF Opens
    <3> QED
      BY <3>1, <3>3
  <2>5. ASSUME NEW i \in DOMAIN wire, GivesType(wire[i]), msg.type = TypeHeld(wire[i].value),
               \A j \in DOMAIN wire : GivesType(wire[j]) => j <= i
        PROVE  Opens <=> \A k \in types : Newest(k) => wire[k].value \in {0, 1}
    <3>1. i \in types /\ Newest(i)
      BY <2>1, <2>3, <2>5
    <3>2. \A k \in types : Newest(k) => k = i
      BY <2>2, <2>3, <3>1
    <3>3. Opens <=> wire[i].value \in {0, 1}
      BY <2>2, <2>5, OpensBlock DEF Opens
    <3> QED
      BY <3>1, <3>2, <3>3
  <2> QED
    BY <2>4, <2>5 DEF TypeInv
<1> QED
  BY <1>1, TypeInvariant, PTL

-------------------------------------------------------------------------------
(* Sequences, whatever they are of.                                          *)

\* A sequence.
IsSeq(x) == \E S : x \in Seq(S)

\* A sequence is what it holds at each place.
LEMMA Listed ==
  ASSUME NEW x, IsSeq(x)
  PROVE  /\ Len(x) \in Nat /\ DOMAIN x = 1 .. Len(x)
         /\ x = [i \in 1 .. Len(x) |-> x[i]]
         /\ Len(x) = 0 <=> x = <<>>
BY DEF IsSeq

\* A function over the numbers from 1 up is one.
LEMMA Listing ==
  ASSUME NEW k \in Nat, NEW x, x = [i \in 1 .. k |-> x[i]]
  PROVE  IsSeq(x) /\ Len(x) = k /\ DOMAIN x = 1 .. k
<1> DEFINE S == {x[i] : i \in 1 .. k}
<1>1. x \in [1 .. k -> S]
  OBVIOUS
<1>2. x \in Seq(S) /\ Len(x) = k
  <2> HIDE DEF S
  <2> QED
    BY <1>1
<1> HIDE DEF S
<1>3. IsSeq(x)
  BY <1>2 DEF IsSeq
<1> QED
  BY <1>1, <1>2, <1>3

\* Two sequences with the same places and values are one.
LEMMA SameListing ==
  ASSUME NEW x, NEW y, IsSeq(x), IsSeq(y), Len(x) = Len(y),
         \A i \in 1 .. Len(x) : x[i] = y[i]
  PROVE  x = y
<1>1. x = [i \in 1 .. Len(x) |-> x[i]] /\ y = [i \in 1 .. Len(x) |-> y[i]]
  BY Listed
<1>2. [i \in 1 .. Len(x) |-> x[i]] = [i \in 1 .. Len(x) |-> y[i]]
  OBVIOUS
<1> QED
  BY <1>1, <1>2

\* One value more.
LEMMA Appended ==
  ASSUME NEW x, NEW v, IsSeq(x)
  PROVE  /\ IsSeq(Append(x, v)) /\ Len(Append(x, v)) = Len(x) + 1
         /\ Append(x, v) # <<>>
         /\ Append(x, v)[Len(x) + 1] = v
         /\ \A i \in 1 .. Len(x) : Append(x, v)[i] = x[i]
<1>1. PICK S : x \in Seq(S)
  BY DEF IsSeq
<1> DEFINE T == S \cup {v}
<1>2. x \in Seq(T) /\ v \in T
  BY <1>1
<1> HIDE DEF T
<1> DEFINE y == Append(x, v)
<1>3. /\ y \in Seq(T) /\ Len(y) = Len(x) + 1 /\ y # <<>>
      /\ y[Len(x) + 1] = v
      /\ \A i \in 1 .. Len(x) : y[i] = x[i]
  BY <1>2
<1> HIDE DEF y
<1>4. IsSeq(y)
  BY <1>3 DEF IsSeq
<1> QED
  BY <1>3, <1>4 DEF y

\* Two sequences are over one set, and so is the one after the other.
LEMMA BothOver ==
  ASSUME NEW x, NEW y, IsSeq(x), IsSeq(y)
  PROVE  \E S : x \in Seq(S) /\ y \in Seq(S) /\ x \o y \in Seq(S)
<1>1. PICK A : x \in Seq(A)
  BY DEF IsSeq
<1>2. PICK B : y \in Seq(B)
  BY DEF IsSeq
<1> DEFINE S == A \cup B
<1>3. x \in Seq(S) /\ y \in Seq(S)
  BY <1>1, <1>2
<1> HIDE DEF S
<1>4. x \o y \in Seq(S)
  BY <1>3, Joined
<1> QED
  BY <1>3, <1>4

-------------------------------------------------------------------------------
(* What is written is read back.                                             *)

\* The runtime does with a message within a message what it does with a message: the two
\* operators are the ones the module defines, as the configuration of the run has them.
\* It is a recursive definition, stated as the equation it means.  There are operators
\* that satisfy it, since Marshal uses MarshalNested only at the messages m holds and
\* Unmarshal uses UnmarshalNested only at the bodies of its records: they are defined by
\* recursion over how deep a message or a record nests.
NestedAsDefined ==
  \A t \in DOMAIN Schema : \A m :
    /\ MarshalNested(t, m) = Marshal(t, m)
    /\ \A records : UnmarshalNested(t, m, records) = Unmarshal(t, m, records)

\* A message that is read back as it was written.
Survives(t, m) == Unmarshal(t, New(t), Marshal(t, m)) = m

\* What a field may hold: one value unless it repeats, no zero but in a oneof,
\* messages that survive themselves, and truths.
Held(field, values) ==
  /\ IsSeq(values)
  /\ ~field.repeats => Len(values) <= 1
  /\ \A i \in 1 .. Len(values) :
       /\ ~IsMessage(field.sort) /\ ~field.repeats /\ field.group = NoOneof
            => values[i] # Zero(field.sort)
       /\ IsMessage(field.sort) => Survives(field.sort, values[i])
       /\ field.sort = "bool" /\ ~field.repeats => values[i] \in {0, 1}

\* A message: what its fields hold, one member of a oneof at most, and records that
\* none of its fields accepts.
Whole(t, m) ==
  /\ HasSlots(t, m)
  /\ \A f \in FieldsOf(t) : /\ Held(Schema[t][f], m[f])
                            /\ \A g : Drops(t, f, g) /\ m[f] # <<>> => m[g] = <<>>
  /\ IsSeq(m["unknownFields"])
  /\ \A i \in 1 .. Len(m["unknownFields"]) :
       \A f \in FieldsOf(t) : ~Accepts(Schema[t][f], m["unknownFields"][i])

\* What a record puts in a field, by the kind of the field: numbers packed in one record.
LEMMA PackedRead ==
  ASSUME NEW field, NEW old, NEW rec, Packed(field), rec.wt = "len"
  PROVE  ValuesRead(field, old, rec) = old \o Scalars(rec)
BY DEF ValuesRead, Packed, IsNumber

\* One more message in a list.
LEMMA ListRead ==
  ASSUME NEW field, NEW old, NEW rec, IsMessage(field.sort), field.repeats
  PROVE  ValuesRead(field, old, rec) =
           Append(old, UnmarshalNested(field.sort, New(field.sort), rec.body))
BY DEF ValuesRead, Packed, IsNumber

\* A message in a field that has one is merged into it.
LEMMA MessageRead ==
  ASSUME NEW field, NEW old, NEW rec, IsMessage(field.sort), ~field.repeats
  PROVE  ValuesRead(field, old, rec) =
           <<UnmarshalNested(field.sort, IF old = <<>> THEN New(field.sort) ELSE old[1], rec.body)>>
BY DEF ValuesRead, Packed, IsNumber

\* One more number or text in a list.
LEMMA ScalarsRead ==
  ASSUME NEW field, NEW old, NEW rec, ~IsMessage(field.sort), field.repeats,
         ~(Packed(field) /\ rec.wt = "len")
  PROVE  ValuesRead(field, old, rec) = Append(old, Scalar(field, rec))
BY DEF ValuesRead

\* A number or a text, and a zero only in a oneof.
LEMMA ScalarRead ==
  ASSUME NEW field, NEW old, NEW rec, ~IsMessage(field.sort), ~field.repeats
  PROVE  ValuesRead(field, old, rec) =
           IF field.group = NoOneof /\ Scalar(field, rec) = Zero(field.sort)
           THEN <<>> ELSE <<Scalar(field, rec)>>
BY DEF ValuesRead, Packed

\* The first of a list.
LEMMA AppendedFirst == \A v : Append(<<>>, v) = <<v>>
OBVIOUS

\* A value, its record, and the value again.
LEMMA ValueBack ==
  ASSUME NestedAsDefined, NEW field, ~Packed(field), NEW v, NEW old,
         IsMessage(field.sort) => Survives(field.sort, v),
         ~IsMessage(field.sort) /\ ~field.repeats /\ field.group = NoOneof => v # Zero(field.sort),
         field.sort = "bool" /\ ~field.repeats => v \in {0, 1},
         ~field.repeats => old = <<>>
  PROVE  /\ Accepts(field, RecordOf(field, v))
         /\ ValuesRead(field, old, RecordOf(field, v)) = Append(old, v)
<1> DEFINE rec == RecordOf(field, v)
           s == field.sort
<1>1. ~field.repeats => Append(old, v) = <<v>>
  BY AppendedFirst
<1>2. CASE IsMessage(s)
  <2>1. rec = Bytes(field.num, MarshalNested(s, v))
    BY <1>2 DEF RecordOf, IsText, IsMessage, Schema
  <2>2. rec.num = field.num /\ rec.wt = "len" /\ rec.body = MarshalNested(s, v)
    BY <2>1 DEF Bytes
  <2>3. s \in DOMAIN Schema /\ Survives(s, v)
    BY <1>2 DEF IsMessage
  <2> HIDE DEF rec
  <2>4. UnmarshalNested(s, New(s), rec.body) = v
    <3>1. MarshalNested(s, v) = Marshal(s, v)
      BY <2>3 DEF NestedAsDefined
    <3>2. \A m : UnmarshalNested(s, m, Marshal(s, v)) = Unmarshal(s, m, Marshal(s, v))
      BY <2>3 DEF NestedAsDefined
    <3> QED
      BY <2>2, <2>3, <3>1, <3>2 DEF Survives
  <2> HIDE DEF s
  <2>5. ValuesRead(field, old, rec) = Append(old, v)
    <3>1. CASE field.repeats
      BY <1>2, <2>4, <3>1, ListRead DEF s
    <3>2. CASE ~field.repeats
      <4>1. old = <<>> /\ Append(old, v) = <<v>>
        BY <1>1, <3>2
      <4>2. ValuesRead(field, old, rec) = <<UnmarshalNested(s, New(s), rec.body)>>
        BY <1>2, <3>2, <4>1, MessageRead DEF s
      <4> QED
        BY <2>4, <4>1, <4>2
    <3> QED
      BY <3>1, <3>2
  <2>6. Accepts(field, rec)
    BY <1>2, <2>2 DEF Accepts, IsNumber, s
  <2> QED
    BY <2>5, <2>6 DEF rec
<1>3. CASE ~IsMessage(s)
  <2>1. IsNumber(s) <=> ~IsText(s)
    BY <1>3 DEF IsNumber
  <2>2. rec.num = field.num /\ rec.wt = (IF IsText(s) THEN "len" ELSE "varint") /\ Scalar(field, rec) = v
    <3>1. CASE IsText(s)
      BY <1>3, <2>1, <3>1 DEF RecordOf, Bytes, Scalar
    <3>2. CASE ~IsText(s)
      <4>1. rec = Varint(field.num, v)
        BY <1>3, <3>2 DEF RecordOf
      <4>2. rec.num = field.num /\ rec.wt = "varint" /\ rec.value = v
        BY <4>1 DEF Varint
      <4>3. s = "bool" => v \in {0, 1}
        BY <2>1, <3>2 DEF Packed
      <4> HIDE DEF rec
      <4>4. Scalar(field, rec) = v
        BY <3>2, <4>2, <4>3 DEF Scalar
      <4> QED
        BY <3>2, <4>2, <4>4
    <3> QED
      BY <3>1, <3>2
  <2> HIDE DEF rec
  <2>3. Accepts(field, rec)
    BY <2>1, <2>2 DEF Accepts
  <2>4. ValuesRead(field, old, rec) = Append(old, v)
    <3>1. CASE field.repeats
      BY <1>3, <2>2, <3>1, ScalarsRead
    <3>2. CASE ~field.repeats
      <4>1. ValuesRead(field, old, rec) = <<v>>
        BY <1>3, <2>2, <3>2, ScalarRead
      <4> QED
        BY <1>1, <3>2, <4>1
    <3> QED
      BY <3>1, <3>2
  <2> QED
    BY <2>3, <2>4 DEF rec
<1> QED
  BY <1>2, <1>3

\* A list of numbers is written and read as one record.
LEMMA PackedBack ==
  ASSUME NEW field, Packed(field), NEW values, IsSeq(values), values # <<>>
  PROVE  \E rec : /\ RecordsOf(field, values) = <<rec>>
                  /\ Accepts(field, rec)
                  /\ ValuesRead(field, <<>>, rec) = values
<1> DEFINE body == [i \in DOMAIN values |-> Varint(0, values[i])]
           rec == Bytes(field.num, body)
<1>1. RecordsOf(field, values) = <<rec>>
  BY DEF RecordsOf
<1>2. rec.num = field.num /\ rec.wt = "len" /\ rec.body = body
  BY DEF Bytes
<1>3. \A i \in DOMAIN values : body[i].value = values[i]
  BY DEF Varint
<1> HIDE DEF rec
<1>4. Accepts(field, rec)
  BY <1>2 DEF Accepts
<1>5. Scalars(rec) = values
  <2>1. DOMAIN rec.body = DOMAIN values
    BY <1>2
  <2>2. [i \in DOMAIN values |-> rec.body[i].value] = [i \in DOMAIN values |-> values[i]]
    BY <1>2, <1>3
  <2>3. values = [i \in DOMAIN values |-> values[i]]
    BY Listed
  <2> HIDE DEF body
  <2> QED
    BY <2>1, <2>2, <2>3 DEF Scalars
<1>6. ValuesRead(field, <<>>, rec) = <<>> \o values
  BY <1>2, <1>5, PackedRead
<1>7. <<>> \o values = values
  BY DEF IsSeq
<1> QED
  BY <1>1, <1>4, <1>6, <1>7

\* A field's records put in it what they were written from.
LEMMA FieldBack ==
  ASSUME NestedAsDefined, NEW t \in DOMAIN Schema, NEW f \in FieldsOf(t), NEW values,
         Held(Schema[t][f], values), NEW m, HasSlots(t, m), m[f] = <<>>,
         values # <<>> => \A g : Drops(t, f, g) => m[g] = <<>>
  PROVE  /\ IsSeq(RecordsOf(Schema[t][f], values))
         /\ Unmarshal(t, m, RecordsOf(Schema[t][f], values)) = [m EXCEPT ![f] = values]
<1> DEFINE field == Schema[t][f]
           records == RecordsOf(field, values)
           n == Len(values)
           Filled(x) == [m EXCEPT ![f] = x]
<1>1. /\ n \in Nat /\ DOMAIN values = 1 .. n /\ values = [i \in 1 .. n |-> values[i]]
      /\ n = 0 <=> values = <<>>
  BY Listed DEF Held
<1>2. f \in DOMAIN m /\ DOMAIN m = Slots(t) /\ m = [g \in Slots(t) |-> m[g]]
  BY DEF HasSlots, Slots
<1>3. ASSUME NEW x, values # <<>>
      PROVE  \A y : Put(t, Filled(y), f, x) = Filled(x)
  <2> SUFFICES ASSUME NEW y
               PROVE  Put(t, Filled(y), f, x) = Filled(x)
    OBVIOUS
  <2>1. DOMAIN Filled(y) = Slots(t) /\ \A g \in Slots(t) : g # f => Filled(y)[g] = m[g]
    BY <1>2
  <2> DEFINE p == Filled(y)
  <2>2. ASSUME NEW g \in Slots(t)
        PROVE  (CASE g = f -> x [] Drops(t, f, g) -> <<>> [] OTHER -> p[g])
                 = IF g = f THEN x ELSE m[g]
    <3>1. Drops(t, f, g) => g # f /\ m[g] = <<>>
      BY <1>3 DEF Drops
    <3> HIDE DEF p
    <3>2. CASE g = f
      BY <3>1, <3>2
    <3>3. CASE g # f
      BY <2>1, <3>1, <3>3 DEF p
    <3> QED
      BY <3>2, <3>3
  <2>3. Put(t, p, f, x) = [g \in Slots(t) |-> IF g = f THEN x ELSE m[g]]
    BY <2>1, <2>2 DEF Put
  <2>4. Filled(x) = [g \in Slots(t) |-> IF g = f THEN x ELSE m[g]]
    BY <1>2
  <2> QED
    BY <2>3, <2>4
<1>4. m = Filled(<<>>)
  BY <1>2
<1>5. \A y : Filled(y)[f] = y
  BY <1>2
<1> HIDE DEF Filled
<1>6. CASE values = <<>>
  <2>1. records = <<>>
    BY <1>1, <1>6 DEF RecordsOf
  <2>2. IsSeq(records)
    BY <2>1, <1>6 DEF Held
  <2> QED
    BY <1>4, <1>6, <2>1, <2>2, ReadNothing DEF Filled
<1>7. CASE values # <<>> /\ Packed(field)
  <2>1. PICK rec : /\ records = <<rec>>
                   /\ Accepts(field, rec)
                   /\ ValuesRead(field, <<>>, rec) = values
    BY <1>7, PackedBack DEF Held
  <2>2. Unmarshal(t, m, records) = Consume(t, m, rec)
    BY <2>1, ReadOne
  <2>3. Consume(t, m, rec) = Put(t, m, f, values)
    BY <2>1, KnownRecord
  <2>4. IsSeq(records)
    <3>1. <<rec>> \in Seq({rec})
      OBVIOUS
    <3> QED
      BY <2>1, <3>1 DEF IsSeq
  <2> QED
    BY <1>3, <1>4, <1>7, <2>2, <2>3, <2>4 DEF Filled
<1>8. CASE values # <<>> /\ ~Packed(field)
  <2>1. records = [i \in 1 .. n |-> RecordOf(field, values[i])]
    BY <1>1, <1>8 DEF RecordsOf
  <2>2. IsSeq(records) /\ Len(records) = n /\ \A i \in 1 .. n : records[i] = RecordOf(field, values[i])
    <3>1. \A i \in 1 .. n : records[i] = RecordOf(field, values[i])
      BY <2>1
    <3>2. records = [i \in 1 .. n |-> records[i]]
      BY <2>1
    <3> HIDE DEF records
    <3> QED
      BY <1>1, <3>1, <3>2, Listing
  <2> HIDE DEF records
  <2> DEFINE some(i) == [j \in 1 .. i |-> values[j]]
             path == [i \in 0 .. n |-> Filled(some(i))]
  <2>3. path[0] = m /\ path[n] = Filled(values)
    <3>1. some(n) = values /\ n \in 0 .. n /\ 0 \in 0 .. n
      BY <1>1
    <3>2. some(0) = <<>>
      OBVIOUS
    <3> HIDE DEF some
    <3> QED
      BY <1>4, <3>1, <3>2
  <2>4. ASSUME NEW i \in 1 .. n
        PROVE  path[i] = Consume(t, path[i - 1], records[i])
    <3>1. i - 1 \in Nat /\ i \in 0 .. n /\ i - 1 \in 0 .. n
      BY <1>1
    <3> DEFINE old == some(i - 1)
    <3>2. old = [j \in 1 .. i - 1 |-> old[j]] /\ \A j \in 1 .. i - 1 : old[j] = values[j]
      OBVIOUS
    <3>3. IsSeq(old) /\ Len(old) = i - 1
      <4> HIDE DEF old
      <4> QED
        BY <3>1, <3>2, Listing
    <3>4. ~field.repeats => old = <<>>
      <4>1. ~field.repeats => i - 1 = 0
        BY <1>1 DEF Held
      <4> HIDE DEF old
      <4> QED
        BY <3>3, <4>1, Listed
    <3>5. some(i) = Append(old, values[i])
      <4> DEFINE more == Append(old, values[i])
                 new == some(i)
      <4>1. new = [j \in 1 .. i |-> new[j]] /\ \A j \in 1 .. i : new[j] = values[j]
        OBVIOUS
      <4> HIDE DEF old, new
      <4>2. IsSeq(new) /\ Len(new) = i
        <5>1. i \in Nat
          OBVIOUS
        <5> QED
          BY <4>1, <5>1, Listing
      <4>3. /\ IsSeq(more) /\ Len(more) = i /\ more[i] = values[i]
            /\ \A j \in 1 .. i - 1 : more[j] = old[j]
        BY <3>1, <3>3, Appended
      <4> HIDE DEF more
      <4>4. \A j \in 1 .. i : new[j] = more[j]
        BY <3>1, <3>2, <4>1, <4>3
      <4>5. new = more
        BY <4>2, <4>3, <4>4, SameListing
      <4> QED
        BY <4>5 DEF new, more
    <3> HIDE DEF old
    <3>6. /\ Accepts(field, records[i])
          /\ ValuesRead(field, old, records[i]) = some(i)
      <4>1. /\ IsMessage(field.sort) => Survives(field.sort, values[i])
            /\ ~IsMessage(field.sort) /\ ~field.repeats /\ field.group = NoOneof
                 => values[i] # Zero(field.sort)
            /\ field.sort = "bool" /\ ~field.repeats => values[i] \in {0, 1}
        BY DEF Held
      <4> HIDE DEF field, some
      <4>2. /\ Accepts(field, RecordOf(field, values[i]))
            /\ ValuesRead(field, old, RecordOf(field, values[i])) = Append(old, values[i])
        BY <1>8, <3>4, <4>1, ValueBack
      <4> QED
        BY <2>2, <3>5, <4>2
    <3>7. path[i - 1] = Filled(old) /\ path[i] = Filled(some(i))
      BY <3>1 DEF old
    <3> HIDE DEF path, some
    <3>8. Consume(t, path[i - 1], records[i]) = Put(t, Filled(old), f, some(i))
      <4>1. \A p : Consume(t, p, records[i]) = Put(t, p, f, ValuesRead(field, p[f], records[i]))
        BY <3>6, KnownRecord
      <4>2. Filled(old)[f] = old
        BY <1>5
      <4> HIDE DEF field
      <4> QED
        BY <3>6, <3>7, <4>1, <4>2
    <3> QED
      BY <1>3, <1>8, <3>7, <3>8
  <2> HIDE DEF path
  <2>5. Reads(path, t, m, records)
    BY <2>2, <2>3, <2>4 DEF Reads
  <2>6. Unmarshal(t, m, records) = path[n]
    <3>1. Len(records) \in Nat
      BY <1>1, <2>2
    <3>2. Unmarshal(t, m, records) = path[Len(records)]
      BY <2>5, <3>1, ReadAlong
    <3> QED
      BY <2>2, <3>2
  <2> QED
    BY <2>2, <2>3, <2>6 DEF records, Filled
<1> QED
  BY <1>6, <1>7, <1>8

\* The records written of a number: those of its field, or none.
LEMMA WrittenAt ==
  ASSUME NEW t \in DOMAIN Schema, NEW m, NEW n
  PROVE  \/ RecordsAt(t, m, n) = <<>> /\ \A f \in FieldsOf(t) : Schema[t][f].num # n
         \/ \E f \in FieldsOf(t) : /\ Schema[t][f].num = n
                                   /\ \A g \in FieldsOf(t) : Schema[t][g].num = n => g = f
                                   /\ RecordsAt(t, m, n) = RecordsOf(Schema[t][f], m[f])
<1> DEFINE numbered == {f \in FieldsOf(t) : Schema[t][f].num = n}
           f == CHOOSE g \in numbered : TRUE
<1>1. CASE numbered = {}
  BY <1>1 DEF RecordsAt
<1>2. CASE numbered # {}
  <2>1. f \in numbered
    <3> HIDE DEF numbered
    <3> QED
      BY <1>2
  <2>2. RecordsAt(t, m, n) = RecordsOf(Schema[t][f], m[f])
    BY <1>2 DEF RecordsAt
  <2> HIDE DEF f
  <2>3. f \in DOMAIN Schema[t] /\ Schema[t][f].num = n
    BY <2>1 DEF FieldsOf
  <2>4. \A g \in DOMAIN Schema[t] : Schema[t][g].num = n => g = f
    BY <2>3, SchemaProper DEF Proper
  <2> QED
    BY <2>2, <2>3, <2>4 DEF FieldsOf
<1> QED
  BY <1>1, <1>2

\* The fields of a message whose numbers are at most n, as one of type u.
Upto(t, m, u, n) ==
  [g \in Slots(u) |-> IF g \in FieldsOf(t) /\ Schema[t][g].num <= n THEN m[g] ELSE <<>>]

\* The fields of number n read back, after those before it.
LEMMA NumberBack ==
  ASSUME NestedAsDefined, NEW t \in DOMAIN Schema, NEW u \in DOMAIN Schema, NEW m, Whole(t, m),
         \A f \in FieldsOf(t) : f \in FieldsOf(u) /\ Schema[u][f] = Schema[t][f],
         NEW n \in Nat \ {0}
  PROVE  /\ IsSeq(RecordsAt(t, m, n))
         /\ Unmarshal(u, Upto(t, m, u, n - 1), RecordsAt(t, m, n)) = Upto(t, m, u, n)
<1> DEFINE before == Upto(t, m, u, n - 1)
<1>1. \A f \in FieldsOf(t) : f \in DOMAIN Schema[t] /\ Schema[t][f].num \in Nat
  BY SchemaProper DEF FieldsOf, Proper
<1>2. CASE RecordsAt(t, m, n) = <<>> /\ \A f \in FieldsOf(t) : Schema[t][f].num # n
  <2>1. \A f \in FieldsOf(t) : Schema[t][f].num <= n - 1 <=> Schema[t][f].num <= n
    BY <1>1, <1>2
  <2>2. before = Upto(t, m, u, n)
    BY <2>1 DEF Upto
  <2>3. <<>> \in Seq({})
    OBVIOUS
  <2>4. IsSeq(RecordsAt(t, m, n))
    BY <1>2, <2>3 DEF IsSeq
  <2> QED
    BY <1>2, <2>2, <2>4, ReadNothing
<1>3. ASSUME NEW f \in FieldsOf(t), Schema[t][f].num = n,
             \A g \in FieldsOf(t) : Schema[t][g].num = n => g = f,
             RecordsAt(t, m, n) = RecordsOf(Schema[t][f], m[f])
      PROVE  /\ IsSeq(RecordsAt(t, m, n))
             /\ Unmarshal(u, before, RecordsAt(t, m, n)) = Upto(t, m, u, n)
  <2>1. f \in FieldsOf(u) /\ Schema[u][f] = Schema[t][f] /\ Held(Schema[u][f], m[f])
    BY <1>3 DEF Whole
  <2>2. HasSlots(u, before)
    BY DEF Upto, HasSlots
  <2>3. before[f] = <<>>
    BY <1>3, <2>1 DEF Upto, Slots
  <2>4. ASSUME m[f] # <<>>, NEW g, Drops(u, f, g)
        PROVE  before[g] = <<>>
    <3>1. g \in Slots(u)
      BY <2>4 DEF Drops, Slots
    <3>2. g \in FieldsOf(t) => Drops(t, f, g)
      BY <2>1, <2>4 DEF Drops
    <3>3. g \in FieldsOf(t) => m[g] = <<>>
      BY <2>4, <3>2 DEF Whole
    <3> QED
      BY <3>1, <3>3 DEF Upto
  <2>5. /\ IsSeq(RecordsOf(Schema[u][f], m[f]))
        /\ Unmarshal(u, before, RecordsOf(Schema[u][f], m[f])) = [before EXCEPT ![f] = m[f]]
    <3> HIDE DEF before
    <3> QED
      BY <2>1, <2>2, <2>3, <2>4, FieldBack
  <2>6. [before EXCEPT ![f] = m[f]] = Upto(t, m, u, n)
    <3>1. ASSUME NEW g \in FieldsOf(t)
          PROVE  Schema[t][g].num <= n <=> g = f \/ Schema[t][g].num <= n - 1
      BY <1>1, <1>3
    <3> QED
      BY <2>1, <3>1 DEF Upto
  <2> QED
    BY <1>3, <2>1, <2>5, <2>6
<1> QED
  BY <1>2, <1>3, WrittenAt

\* All fields of a message read back, as those of a type that has them.
LEMMA KnownBack ==
  ASSUME NestedAsDefined, NEW t \in DOMAIN Schema, NEW u \in DOMAIN Schema, NEW m, Whole(t, m),
         \A f \in FieldsOf(t) : f \in FieldsOf(u) /\ Schema[u][f] = Schema[t][f]
  PROVE  /\ IsSeq(KnownRecords(t, m))
         /\ Unmarshal(u, New(u), KnownRecords(t, m)) =
              [g \in Slots(u) |-> IF g \in FieldsOf(t) THEN m[g] ELSE <<>>]
<1> DEFINE last == NewerField - 1
           s == [n \in 1 .. last |-> RecordsAt(t, m, n)]
<1>1. last \in Nat \ {0} /\ KnownRecords(t, m) = FlattenSeq(s)
  BY DEF KnownRecords, NewerField
<1>2. \A f \in FieldsOf(t) : Schema[t][f].num \in 1 .. last
  <2>1. \A f \in FieldsOf(t) : f \in DOMAIN Schema[t]
    BY DEF FieldsOf
  <2> QED
    BY <2>1, SchemaProper DEF Proper
<1> HIDE DEF last
<1>3. Len(s) = last /\ \A n \in 1 .. last : s[n] = RecordsAt(t, m, n)
  BY <1>1
<1> HIDE DEF s
<1>4. PICK f : /\ f[1] = s[1]
               /\ \A i \in 2 .. last : f[i] = f[i - 1] \o s[i]
               /\ FlattenSeq(s) = f[last]
  BY <1>1, <1>3, FlattenSteps
<1> DEFINE Part(n) == Upto(t, m, u, n)
           G == {n \in 1 .. last : IsSeq(f[n]) /\ Unmarshal(u, New(u), f[n]) = Part(n)}
<1>5. \A n \in 1 .. last : /\ IsSeq(s[n])
                           /\ Unmarshal(u, Part(n - 1), s[n]) = Part(n)
  BY <1>3, NumberBack
<1>6. Part(0) = New(u)
  <2>1. \A g \in FieldsOf(t) : ~(Schema[t][g].num <= 0)
    BY <1>1, <1>2
  <2> QED
    BY <2>1 DEF Upto, New, Slots
<1>7. Part(last) = [g \in Slots(u) |-> IF g \in FieldsOf(t) THEN m[g] ELSE <<>>]
  <2>1. \A g \in FieldsOf(t) : Schema[t][g].num <= last
    BY <1>1, <1>2
  <2> QED
    BY <2>1 DEF Upto
<1> HIDE DEF Part
<1>8. \A n \in 1 .. last : n \in G
  <2>1. 1 \in G
    <3>1. 1 \in 1 .. last /\ 1 - 1 = 0
      BY <1>1
    <3> QED
      BY <1>4, <1>5, <1>6, <3>1
  <2>2. ASSUME NEW n \in 1 .. last, n \in G, n < last
        PROVE  n + 1 \in G
    <3>1. n + 1 \in 2 .. last /\ n + 1 \in 1 .. last /\ (n + 1) - 1 = n
      BY <1>1, <2>2
    <3>2. IsSeq(f[n]) /\ Unmarshal(u, New(u), f[n]) = Part(n)
      BY <2>2
    <3>3. IsSeq(s[n + 1]) /\ Unmarshal(u, Part(n), s[n + 1]) = Part(n + 1)
      BY <1>5, <3>1
    <3>4. PICK S : f[n] \in Seq(S) /\ s[n + 1] \in Seq(S) /\ f[n] \o s[n + 1] \in Seq(S)
      BY <3>2, <3>3, BothOver
    <3>5. Unmarshal(u, New(u), f[n] \o s[n + 1]) = Unmarshal(u, Unmarshal(u, New(u), f[n]), s[n + 1])
      BY <3>4, ReadJoined
    <3>6. f[n + 1] = f[n] \o s[n + 1]
      BY <1>4, <3>1
    <3>7. IsSeq(f[n + 1])
      BY <3>4, <3>6 DEF IsSeq
    <3> QED
      BY <3>1, <3>2, <3>3, <3>5, <3>6, <3>7
  <2> HIDE DEF G
  <2> QED
    BY <1>1, <2>1, <2>2, UpTo
<1>9. last \in 1 .. last
  BY <1>1
<1> QED
  BY <1>1, <1>4, <1>7, <1>8, <1>9

\* Records that no field accepts are kept in the order they come in.
LEMMA UnknownBack ==
  ASSUME NEW t \in DOMAIN Schema, NEW m, HasSlots(t, m), m["unknownFields"] = <<>>,
         NEW records, IsSeq(records),
         \A i \in 1 .. Len(records) : \A f \in FieldsOf(t) : ~Accepts(Schema[t][f], records[i])
  PROVE  Unmarshal(t, m, records) = [m EXCEPT !["unknownFields"] = records]
<1> DEFINE n == Len(records)
           Filled(x) == [m EXCEPT !["unknownFields"] = x]
           some(i) == [j \in 1 .. i |-> records[j]]
           path == [i \in 0 .. n |-> Filled(some(i))]
<1>1. n \in Nat /\ records = [i \in 1 .. n |-> records[i]]
  BY Listed
<1>2. "unknownFields" \in DOMAIN m /\ m = [g \in Slots(t) |-> m[g]]
  BY DEF HasSlots, Slots
<1>3. /\ Filled(<<>>) = m
      /\ \A x : Filled(x)["unknownFields"] = x
      /\ \A x, y : [Filled(x) EXCEPT !["unknownFields"] = y] = Filled(y)
  BY <1>2
<1> HIDE DEF Filled
<1>4. path[0] = m /\ path[n] = Filled(records)
  <2>1. some(n) = records /\ n \in 0 .. n /\ 0 \in 0 .. n
    BY <1>1
  <2>2. some(0) = <<>>
    OBVIOUS
  <2> HIDE DEF some
  <2> QED
    BY <1>3, <2>1, <2>2
<1>5. ASSUME NEW i \in 1 .. n
      PROVE  path[i] = Consume(t, path[i - 1], records[i])
  <2>1. i \in 0 .. n /\ i - 1 \in 0 .. n /\ i - 1 \in Nat /\ i \in Nat
    BY <1>1
  <2> DEFINE old == some(i - 1)
             new == some(i)
             more == Append(old, records[i])
  <2>2. /\ old = [j \in 1 .. i - 1 |-> old[j]] /\ \A j \in 1 .. i - 1 : old[j] = records[j]
        /\ new = [j \in 1 .. i |-> new[j]] /\ \A j \in 1 .. i : new[j] = records[j]
    OBVIOUS
  <2> HIDE DEF old, new
  <2>3. IsSeq(old) /\ Len(old) = i - 1 /\ IsSeq(new) /\ Len(new) = i
    BY <2>1, <2>2, Listing
  <2>4. /\ IsSeq(more) /\ Len(more) = i /\ more[i] = records[i]
        /\ \A j \in 1 .. i - 1 : more[j] = old[j]
    BY <2>1, <2>3, Appended
  <2> HIDE DEF more
  <2>5. \A j \in 1 .. i : new[j] = more[j]
    BY <2>1, <2>2, <2>4
  <2>6. new = more
    BY <2>3, <2>4, <2>5, SameListing
  <2>7. path[i - 1] = Filled(old) /\ path[i] = Filled(new)
    BY <2>1 DEF old, new
  <2> HIDE DEF path
  <2>8. Consume(t, Filled(old), records[i]) =
          [Filled(old) EXCEPT !["unknownFields"] = Append(Filled(old)["unknownFields"], records[i])]
    BY UnknownRecord
  <2> QED
    BY <1>3, <2>6, <2>7, <2>8 DEF more
<1> HIDE DEF path
<1>6. Reads(path, t, m, records)
  BY <1>4, <1>5 DEF Reads
<1>7. Unmarshal(t, m, records) = path[n]
  <2>1. Len(records) \in Nat
    BY <1>1
  <2> QED
    BY <1>6, <2>1, ReadAlong
<1> QED
  BY <1>4, <1>7 DEF Filled

\* What is written of a message reads back as the message.
LEMMA WholeSurvives ==
  ASSUME NestedAsDefined, NEW t \in DOMAIN Schema, NEW m, Whole(t, m)
  PROVE  Survives(t, m)
<1> DEFINE unknown == m["unknownFields"]
           head == KnownRecords(t, m)
           read == [g \in Slots(t) |-> IF g \in FieldsOf(t) THEN m[g] ELSE <<>>]
<1>1. IsSeq(head) /\ Unmarshal(t, New(t), head) = read
  BY KnownBack
<1>2. /\ IsSeq(unknown) /\ m = [g \in Slots(t) |-> m[g]]
      /\ \A i \in 1 .. Len(unknown) : \A f \in FieldsOf(t) : ~Accepts(Schema[t][f], unknown[i])
  BY DEF Whole, HasSlots
<1>3. "unknownFields" \notin FieldsOf(t)
  BY SchemaProper DEF Proper, FieldsOf
<1>4. HasSlots(t, read) /\ read["unknownFields"] = <<>>
  BY <1>3 DEF HasSlots, Slots
<1>5. [read EXCEPT !["unknownFields"] = unknown] = m
  BY <1>2, <1>3 DEF Slots
<1> HIDE DEF read, unknown, head
<1>6. Unmarshal(t, read, unknown) = m
  BY <1>2, <1>4, <1>5, UnknownBack
<1>7. PICK S : head \in Seq(S) /\ unknown \in Seq(S)
  BY <1>1, <1>2, BothOver
<1>8. Unmarshal(t, New(t), head \o unknown) = m
  BY <1>1, <1>6, <1>7, ReadJoined
<1>9. Marshal(t, m) = head \o unknown
  BY DEF Marshal, head, unknown
<1> QED
  BY <1>8, <1>9 DEF Survives

-------------------------------------------------------------------------------
(* What is read is whole, and so are the messages it holds.                  *)

\* The messages in the fields of a message.
Inner(t, m) ==
  {p \in [f : {f \in FieldsOf(t) : IsMessage(Schema[t][f].sort)}, i : Nat] :
     p.i \in 1 .. Len(m[p.f])}

\* Messages of each type that are whole and hold but one another.
Closed(T) ==
  \A t \in DOMAIN Schema : \A m \in T[t] :
    Whole(t, m) /\ \A p \in Inner(t, m) : m[p.f][p.i] \in T[Schema[t][p.f].sort]

\* Whole to any depth.
Sound(t, m) == \E T : Closed(T) /\ m \in T[t]

\* What is whole to any depth is whole, and so is what it holds.
LEMMA SoundParts ==
  ASSUME NEW t \in DOMAIN Schema, NEW m, Sound(t, m)
  PROVE  Whole(t, m) /\ \A p \in Inner(t, m) : Sound(Schema[t][p.f].sort, m[p.f][p.i])
<1>1. PICK T : Closed(T) /\ m \in T[t]
  BY DEF Sound
<1>2. Whole(t, m) /\ \A p \in Inner(t, m) : m[p.f][p.i] \in T[Schema[t][p.f].sort]
  BY <1>1 DEF Closed
<1> QED
  BY <1>1, <1>2 DEF Sound

\* And the other way round.
LEMMA SoundWhole ==
  ASSUME NEW t \in DOMAIN Schema, NEW m, Whole(t, m),
         \A p \in Inner(t, m) : Sound(Schema[t][p.f].sort, m[p.f][p.i])
  PROVE  Sound(t, m)
<1> DEFINE Sort(p) == Schema[t][p.f].sort
           With(p) == CHOOSE T : Closed(T) /\ m[p.f][p.i] \in T[Sort(p)]
           Others(u) == UNION {With(p)[u] : p \in Inner(t, m)}
           All == [u \in DOMAIN Schema |-> IF u = t THEN Others(u) \cup {m} ELSE Others(u)]
<1>1. \A p \in Inner(t, m) : Closed(With(p)) /\ m[p.f][p.i] \in With(p)[Sort(p)]
  <2> SUFFICES ASSUME NEW p \in Inner(t, m)
               PROVE  Closed(With(p)) /\ m[p.f][p.i] \in With(p)[Sort(p)]
    OBVIOUS
  <2>1. \E T : Closed(T) /\ m[p.f][p.i] \in T[Sort(p)]
    BY DEF Sound
  <2> QED
    BY <2>1
<1> HIDE DEF With
<1>2. \A u : \A x : x \in Others(u) <=> \E p \in Inner(t, m) : x \in With(p)[u]
  OBVIOUS
<1> HIDE DEF Others
<1>3. \A u \in DOMAIN Schema : \A x : x \in All[u] <=> x \in Others(u) \/ (x = m /\ u = t)
  OBVIOUS
<1>4. m \in All[t]
  BY <1>3
<1>5. \A u \in DOMAIN Schema : \A x, q : q \in Inner(u, x) => Schema[u][q.f].sort \in DOMAIN Schema
  BY DEF Inner, IsMessage
<1> HIDE DEF All
<1>6. ASSUME NEW u \in DOMAIN Schema, NEW x \in All[u]
      PROVE  Whole(u, x) /\ \A q \in Inner(u, x) : x[q.f][q.i] \in All[Schema[u][q.f].sort]
  <2>1. CASE x = m /\ u = t
    <3>1. \A q \in Inner(t, m) : m[q.f][q.i] \in All[Sort(q)]
      BY <1>1, <1>2, <1>3, <1>5
    <3> QED
      BY <2>1, <3>1
  <2>2. ASSUME NEW p \in Inner(t, m), x \in With(p)[u]
        PROVE  Whole(u, x) /\ \A q \in Inner(u, x) : x[q.f][q.i] \in All[Schema[u][q.f].sort]
    <3>1. Whole(u, x) /\ \A q \in Inner(u, x) : x[q.f][q.i] \in With(p)[Schema[u][q.f].sort]
      BY <1>1, <2>2 DEF Closed
    <3> QED
      BY <1>2, <1>3, <1>5, <3>1
  <2> QED
    BY <1>2, <1>3, <2>1, <2>2
<1>7. Closed(All)
  BY <1>6 DEF Closed
<1> QED
  BY <1>4, <1>7 DEF Sound

\* A new message is whole.
LEMMA NewSound ==
  ASSUME NEW t \in DOMAIN Schema
  PROVE  Sound(t, New(t))
<1> DEFINE m == New(t)
<1>1. HasSlots(t, m) /\ \A g \in Slots(t) : m[g] = <<>>
  BY NewHasSlots DEF New, Slots
<1> HIDE DEF m
<1>2. IsSeq(<<>>) /\ Len(<<>>) = 0
  <2>1. <<>> \in Seq({})
    OBVIOUS
  <2> QED
    BY <2>1 DEF IsSeq
<1>3. \A g \in Slots(t) : IsSeq(m[g]) /\ Len(m[g]) = 0
  BY <1>1, <1>2
<1>4. \A f \in FieldsOf(t) : Held(Schema[t][f], m[f])
  BY <1>3 DEF Held, Slots
<1>5. Whole(t, m)
  BY <1>1, <1>3, <1>4 DEF Whole, Slots
<1>6. Inner(t, m) = {}
  BY <1>3 DEF Inner, Slots
<1> QED
  BY <1>5, <1>6, SoundWhole DEF m

\* A record that leaves whole whatever whole message it is read into.
KeepsSound(rec) ==
  \A t \in DOMAIN Schema : \A m : Sound(t, m) => Sound(t, Consume(t, m, rec))

\* A payload of such records is such a record.
LEMMA PayloadSound ==
  ASSUME NEW t \in DOMAIN Schema, NEW m, Sound(t, m), NEW records, IsSeq(records),
         \A i \in 1 .. Len(records) : KeepsSound(records[i])
  PROVE  Sound(t, Unmarshal(t, m, records))
<1> DEFINE n == Len(records)
<1>1. n \in Nat
  BY Listed
<1>2. PICK f : Reads(f, t, m, records) /\ Unmarshal(t, m, records) = f[n]
  BY <1>1, ReadSteps
<1> DEFINE G == {i \in 1 .. n : Sound(t, f[i])}
<1>3. Sound(t, f[0])
  BY <1>2 DEF Reads
<1>4. ASSUME NEW i \in 1 .. n, Sound(t, f[i - 1])
      PROVE  i \in G
  BY <1>2, <1>4 DEF Reads, KeepsSound
<1>5. \A i \in 1 .. n : i \in G
  <2>1. n # 0 => 1 \in G
    <3>1. 1 - 1 = 0
      OBVIOUS
    <3> QED
      BY <1>1, <1>3, <1>4, <3>1
  <2>2. ASSUME NEW i \in 1 .. n, i \in G, i < n
        PROVE  i + 1 \in G
    <3>1. i + 1 \in 1 .. n /\ (i + 1) - 1 = i /\ Sound(t, f[i])
      BY <1>1, <2>2
    <3> HIDE DEF G
    <3> QED
      BY <1>4, <3>1
  <2> HIDE DEF G, n
  <2> QED
    BY <1>1, <2>1, <2>2, UpTo
<1> QED
  BY <1>1, <1>2, <1>3, <1>5

\* A sequence of one.
LEMMA Single == \A x : IsSeq(<<x>>) /\ Len(<<x>>) = 1 /\ <<x>>[1] = x
<1>1. \A x : <<x>> \in Seq({x})
  OBVIOUS
<1> QED
  BY <1>1 DEF IsSeq

\* A sequence of none.
LEMMA Nothing == IsSeq(<<>>) /\ Len(<<>>) = 0
<1>1. <<>> \in Seq({})
  OBVIOUS
<1> QED
  BY <1>1 DEF IsSeq

\* What a record puts in a field is what the field may hold.
LEMMA ValuesSound ==
  ASSUME NestedAsDefined, NEW field, NEW old, NEW rec, Held(field, old), IsSeq(rec.body),
         \A i \in 1 .. Len(rec.body) : KeepsSound(rec.body[i]),
         IsMessage(field.sort) => \A i \in 1 .. Len(old) : Sound(field.sort, old[i])
  PROVE  LET new == ValuesRead(field, old, rec)
         IN  /\ Held(field, new)
             /\ IsMessage(field.sort) => \A i \in 1 .. Len(new) : Sound(field.sort, new[i])
<1> DEFINE s == field.sort
           new == ValuesRead(field, old, rec)
<1>1. CASE IsMessage(s)
  <2>1. s \in DOMAIN Schema
    BY <1>1 DEF IsMessage
  <2>2. ASSUME NEW m, Sound(s, m)
        PROVE  /\ Sound(s, UnmarshalNested(s, m, rec.body))
               /\ Survives(s, UnmarshalNested(s, m, rec.body))
    <3> DEFINE inner == UnmarshalNested(s, m, rec.body)
    <3>1. inner = Unmarshal(s, m, rec.body)
      BY <2>1 DEF NestedAsDefined
    <3>2. Sound(s, Unmarshal(s, m, rec.body))
      BY <2>1, <2>2, PayloadSound
    <3> HIDE DEF inner, s
    <3>3. Sound(s, inner) /\ Whole(s, inner)
      BY <2>1, <3>1, <3>2, SoundParts
    <3>4. Survives(s, inner)
      BY <2>1, <3>3, WholeSurvives
    <3> QED
      BY <3>3, <3>4 DEF inner
  <2>3. CASE field.repeats
    <3> DEFINE inner == UnmarshalNested(s, New(s), rec.body)
    <3>1. new = Append(old, inner)
      BY <1>1, <2>3, ListRead
    <3>2. Sound(s, inner) /\ Survives(s, inner)
      BY <2>1, <2>2, NewSound
    <3> HIDE DEF inner, new
    <3>3. /\ IsSeq(old) /\ Len(old) \in Nat
          /\ IsSeq(new) /\ Len(new) = Len(old) + 1 /\ new[Len(old) + 1] = inner
          /\ \A i \in 1 .. Len(old) : new[i] = old[i]
      BY <3>1, Appended, Listed DEF Held
    <3>4. \A i \in 1 .. Len(new) : i = Len(old) + 1 \/ i \in 1 .. Len(old)
      BY <3>3
    <3>5. \A i \in 1 .. Len(old) : Sound(s, old[i]) /\ Survives(s, old[i])
      BY <1>1 DEF Held
    <3>6. \A i \in 1 .. Len(new) : Sound(s, new[i]) /\ Survives(s, new[i])
      BY <3>2, <3>3, <3>4, <3>5
    <3> QED
      BY <1>1, <2>3, <3>3, <3>6 DEF Held, new
  <2>4. CASE ~field.repeats
    <3> DEFINE into == IF old = <<>> THEN New(s) ELSE old[1]
               inner == UnmarshalNested(s, into, rec.body)
    <3>1. new = <<inner>>
      BY <1>1, <2>4, MessageRead
    <3>2. Sound(s, into)
      <4>1. old # <<>> => 1 \in 1 .. Len(old)
        BY Listed DEF Held
      <4> QED
        BY <1>1, <2>1, <4>1, NewSound
    <3> HIDE DEF into
    <3>3. Sound(s, inner) /\ Survives(s, inner)
      BY <2>2, <3>2
    <3> HIDE DEF inner, new
    <3>4. IsSeq(new) /\ Len(new) = 1 /\ new[1] = inner
      BY <3>1, Single
    <3>5. \A i \in 1 .. Len(new) : Sound(s, new[i]) /\ Survives(s, new[i])
      BY <3>3, <3>4
    <3>6. s # "bool"
      BY <1>1 DEF IsMessage, Schema
    <3>7. Held(field, new)
      BY <1>1, <3>4, <3>5, <3>6 DEF Held, s
    <3> QED
      BY <3>5, <3>7 DEF new, s
  <2> QED
    BY <2>3, <2>4
<1>2. CASE ~IsMessage(s)
  <2>1. CASE field.repeats
    <3>1. IsSeq(new)
      <4>1. CASE Packed(field) /\ rec.wt = "len"
        <5>1. IsSeq(Scalars(rec))
          <6> DEFINE x == Scalars(rec)
                     k == Len(rec.body)
          <6>1. k \in Nat /\ x = [i \in 1 .. k |-> rec.body[i].value]
            BY Listed DEF Scalars
          <6>2. x = [i \in 1 .. k |-> x[i]]
            BY <6>1
          <6> HIDE DEF x, k
          <6> QED
            BY <6>1, <6>2, Listing DEF x
        <5>2. PICK S : old \o Scalars(rec) \in Seq(S)
          BY <5>1, BothOver DEF Held
        <5> QED
          BY <4>1, <5>2, PackedRead DEF IsSeq
      <4>2. CASE ~(Packed(field) /\ rec.wt = "len")
        <5>1. new = Append(old, Scalar(field, rec))
          BY <1>2, <2>1, <4>2, ScalarsRead
        <5>2. IsSeq(Append(old, Scalar(field, rec)))
          BY Appended DEF Held
        <5> HIDE DEF new
        <5> QED
          BY <5>1, <5>2
      <4> QED
        BY <4>1, <4>2
    <3> HIDE DEF new
    <3> QED
      BY <1>2, <2>1, <3>1 DEF Held, new
  <2>2. CASE ~field.repeats
    <3> DEFINE x == Scalar(field, rec)
    <3>1. new = IF field.group = NoOneof /\ x = Zero(s) THEN <<>> ELSE <<x>>
      BY <1>2, <2>2, ScalarRead
    <3>2. s = "bool" => x \in {0, 1}
      BY DEF Scalar, IsText
    <3> HIDE DEF new, x
    <3>3. /\ IsSeq(new) /\ Len(new) <= 1
          /\ \A i \in 1 .. Len(new) : /\ field.group = NoOneof => new[i] # Zero(s)
                                      /\ s = "bool" => new[i] \in {0, 1}
      <4>1. CASE field.group = NoOneof /\ x = Zero(s)
        BY <3>1, <4>1, Nothing
      <4>2. CASE ~(field.group = NoOneof /\ x = Zero(s))
        BY <3>1, <3>2, <4>2, Single
      <4> QED
        BY <4>1, <4>2
    <3>4. Held(field, new)
      BY <1>2, <2>2, <3>3 DEF Held, s
    <3> QED
      BY <1>2, <3>4 DEF new, s
  <2> QED
    BY <2>1, <2>2
<1> QED
  BY <1>1, <1>2

\* What each slot holds when a field has got its values.
LEMMA PutAt ==
  ASSUME NEW t \in DOMAIN Schema, NEW m, HasSlots(t, m), NEW f \in FieldsOf(t), NEW values
  PROVE  /\ HasSlots(t, Put(t, m, f, values))
         /\ Put(t, m, f, values)[f] = values
         /\ \A g \in Slots(t) : g # f =>
              Put(t, m, f, values)[g] = IF Drops(t, f, g) THEN <<>> ELSE m[g]
         /\ "unknownFields" \in Slots(t) /\ ~Drops(t, f, "unknownFields") /\ f # "unknownFields"
<1>1. DOMAIN m = Slots(t)
  BY DEF HasSlots
<1>2. f \in Slots(t) /\ ~Drops(t, f, f)
  BY DEF Slots, Drops
<1>3. "unknownFields" \in Slots(t) /\ "unknownFields" \notin FieldsOf(t)
  BY SchemaProper DEF Proper, FieldsOf, Slots
<1>4. ~Drops(t, f, "unknownFields") /\ f # "unknownFields"
  BY <1>3 DEF Drops
<1>5. HasSlots(t, Put(t, m, f, values))
  BY <1>1 DEF HasSlots, Put
<1>6. Put(t, m, f, values)[f] = values
  BY <1>1, <1>2 DEF Put
<1>7. ASSUME NEW g \in Slots(t), g # f
      PROVE  Put(t, m, f, values)[g] = IF Drops(t, f, g) THEN <<>> ELSE m[g]
  BY <1>1, <1>7 DEF Put
<1> QED
  BY <1>3, <1>4, <1>5, <1>6, <1>7

\* A record keeps a message whole if those within it do.
LEMMA RecordSound ==
  ASSUME NestedAsDefined, NEW rec, IsSeq(rec.body),
         \A i \in 1 .. Len(rec.body) : KeepsSound(rec.body[i])
  PROVE  KeepsSound(rec)
<1> SUFFICES ASSUME NEW t \in DOMAIN Schema, NEW m, Sound(t, m)
             PROVE  Sound(t, Consume(t, m, rec))
  BY DEF KeepsSound
<1>1. /\ Whole(t, m)
      /\ \A p \in Inner(t, m) : Sound(Schema[t][p.f].sort, m[p.f][p.i])
  BY SoundParts
<1>2. HasSlots(t, m) /\ DOMAIN m = Slots(t) /\ m = [g \in Slots(t) |-> m[g]]
  BY <1>1 DEF Whole, HasSlots
<1>3. CASE \E f \in FieldsOf(t) : Accepts(Schema[t][f], rec)
  <2>1. PICK f \in FieldsOf(t) : Accepts(Schema[t][f], rec)
    BY <1>3
  <2> DEFINE new == ValuesRead(Schema[t][f], m[f], rec)
             after == Put(t, m, f, new)
  <2>2. Consume(t, m, rec) = after
    BY <2>1, KnownRecord
  <2>3. \A g \in FieldsOf(t) : Held(Schema[t][g], m[g])
    BY <1>1 DEF Whole
  <2>4. /\ Held(Schema[t][f], new)
        /\ IsMessage(Schema[t][f].sort) => \A i \in 1 .. Len(new) : Sound(Schema[t][f].sort, new[i])
    <3>1. IsMessage(Schema[t][f].sort) => \A i \in 1 .. Len(m[f]) : Sound(Schema[t][f].sort, m[f][i])
      <4> SUFFICES ASSUME IsMessage(Schema[t][f].sort), NEW i \in 1 .. Len(m[f])
                   PROVE  Sound(Schema[t][f].sort, m[f][i])
        OBVIOUS
      <4> DEFINE p == [f |-> f, i |-> i]
      <4>1. i \in Nat /\ p \in Inner(t, m) /\ p.f = f /\ p.i = i
        BY DEF Inner
      <4> HIDE DEF p
      <4> QED
        BY <1>1, <4>1
    <3> DEFINE field == Schema[t][f]
               old == m[f]
    <3>2. Held(field, old)
      BY <2>3
    <3>3. IsMessage(field.sort) => \A i \in 1 .. Len(old) : Sound(field.sort, old[i])
      BY <3>1
    <3> HIDE DEF field, old
    <3>4. LET x == ValuesRead(field, old, rec)
          IN  /\ Held(field, x)
              /\ IsMessage(field.sort) => \A i \in 1 .. Len(x) : Sound(field.sort, x[i])
      BY <3>2, <3>3, ValuesSound
    <3> QED
      BY <3>4 DEF field, old
  <2> HIDE DEF new
  <2>5. /\ HasSlots(t, after)
        /\ after[f] = new
        /\ \A g \in FieldsOf(t) : g # f => after[g] = IF Drops(t, f, g) THEN <<>> ELSE m[g]
        /\ after["unknownFields"] = m["unknownFields"]
    BY <1>2, PutAt DEF Slots
  <2> HIDE DEF after
  <2>6. ASSUME NEW g \in FieldsOf(t)
        PROVE  /\ Held(Schema[t][g], after[g])
               /\ \A h : Drops(t, g, h) /\ after[g] # <<>> => after[h] = <<>>
    <3>1. Held(Schema[t][g], <<>>)
      BY Nothing DEF Held
    <3>2. Held(Schema[t][g], after[g])
      BY <2>3, <2>4, <2>5, <3>1
    <3>3. ASSUME NEW h, Drops(t, g, h), after[g] # <<>>
          PROVE  after[h] = <<>>
      <4>1. h \in FieldsOf(t) /\ h # g
        BY <3>3 DEF Drops
      <4>2. CASE g = f
        BY <2>5, <3>3, <4>1, <4>2
      <4>3. CASE h = f
        <5>1. Drops(t, f, g)
          BY <3>3, <4>3 DEF Drops
        <5> QED
          BY <2>5, <3>3, <4>1, <4>3, <5>1
      <4>4. CASE g # f /\ h # f
        <5>1. ~Drops(t, f, g) /\ after[g] = m[g]
          BY <2>5, <3>3, <4>4
        <5>2. m[h] = <<>>
          BY <1>1, <3>3, <5>1 DEF Whole
        <5> QED
          BY <2>5, <4>1, <4>4, <5>2
      <4> QED
        BY <4>2, <4>3, <4>4
    <3> QED
      BY <3>2, <3>3
  <2>7. Whole(t, after)
    <3>1. /\ IsSeq(after["unknownFields"])
          /\ \A i \in 1 .. Len(after["unknownFields"]) :
               \A g \in FieldsOf(t) : ~Accepts(Schema[t][g], after["unknownFields"][i])
      BY <1>1, <2>5 DEF Whole
    <3> QED
      BY <2>5, <2>6, <3>1 DEF Whole
  <2>8. ASSUME NEW p \in Inner(t, after)
        PROVE  Sound(Schema[t][p.f].sort, after[p.f][p.i])
    <3>1. p.f \in FieldsOf(t) /\ IsMessage(Schema[t][p.f].sort) /\ p.i \in 1 .. Len(after[p.f])
      BY DEF Inner
    <3>2. CASE p.f = f
      BY <2>4, <2>5, <3>1, <3>2
    <3>3. CASE p.f # f
      <4>1. after[p.f] = m[p.f]
        BY <2>5, <3>1, <3>3, Nothing
      <4>2. p \in Inner(t, m)
        BY <4>1 DEF Inner
      <4> QED
        BY <1>1, <4>1, <4>2
    <3> QED
      BY <3>2, <3>3
  <2> QED
    BY <2>2, <2>7, <2>8, SoundWhole
<1>4. CASE \A f \in FieldsOf(t) : ~Accepts(Schema[t][f], rec)
  <2> DEFINE old == m["unknownFields"]
             new == Append(old, rec)
             after == [m EXCEPT !["unknownFields"] = new]
  <2>1. Consume(t, m, rec) = after
    BY <1>4, UnknownRecord
  <2>2. "unknownFields" \notin FieldsOf(t)
    BY SchemaProper DEF Proper, FieldsOf
  <2>3. /\ HasSlots(t, after) /\ after["unknownFields"] = new
        /\ \A g \in FieldsOf(t) : after[g] = m[g]
    BY <1>2, <2>2 DEF HasSlots, Slots
  <2> HIDE DEF after
  <2>4. /\ IsSeq(old) /\ Len(old) \in Nat
        /\ \A i \in 1 .. Len(old) : \A f \in FieldsOf(t) : ~Accepts(Schema[t][f], old[i])
    BY <1>1, Listed DEF Whole
  <2> HIDE DEF old
  <2>5. /\ IsSeq(new) /\ Len(new) = Len(old) + 1 /\ new[Len(old) + 1] = rec
        /\ \A i \in 1 .. Len(old) : new[i] = old[i]
    BY <2>4, Appended
  <2> HIDE DEF new
  <2>6. \A i \in 1 .. Len(new) : \A f \in FieldsOf(t) : ~Accepts(Schema[t][f], new[i])
    <3>1. \A i \in 1 .. Len(new) : i = Len(old) + 1 \/ i \in 1 .. Len(old)
      BY <2>4, <2>5
    <3> QED
      BY <1>4, <2>4, <2>5, <3>1
  <2>7. ASSUME NEW g \in FieldsOf(t)
        PROVE  /\ Held(Schema[t][g], after[g])
               /\ \A h : Drops(t, g, h) /\ after[g] # <<>> => after[h] = <<>>
    <3>1. \A h : Drops(t, g, h) => h \in FieldsOf(t)
      BY DEF Drops
    <3> QED
      BY <1>1, <2>3, <3>1 DEF Whole
  <2>8. Whole(t, after)
    BY <2>3, <2>5, <2>6, <2>7 DEF Whole
  <2>9. Inner(t, after) = Inner(t, m)
    BY <2>3 DEF Inner
  <2>10. \A p \in Inner(t, m) : after[p.f] = m[p.f]
    BY <2>3 DEF Inner
  <2> QED
    BY <1>1, <2>1, <2>8, <2>9, <2>10, SoundWhole
<1> QED
  BY <1>3, <1>4

\* Every record keeps a message whole: the records within nest less deep.
LEMMA RecordsSound ==
  ASSUME NestedAsDefined
  PROVE  \A rec \in Record : KeepsSound(rec)
<1> DEFINE bad == {rec \in Record : ~KeepsSound(rec)}
           depths == {Depth[rec] : rec \in bad}
<1> SUFFICES ASSUME bad # {}
             PROVE  FALSE
  OBVIOUS
<1>1. depths \in SUBSET Nat /\ depths # {}
  BY WireAssumption
<1>2. PICK d \in depths : \A e \in depths : d <= e
  <2> HIDE DEF depths
  <2> QED
    BY <1>1, LeastElement
<1>3. PICK rec \in bad : Depth[rec] = d
  BY <1>2
<1>4. rec \in Record /\ ~KeepsSound(rec)
  BY <1>3
<1>5. /\ rec.body \in Seq(Record)
      /\ \A i \in DOMAIN rec.body : Depth[rec.body[i]] < d
  BY <1>3, <1>4, WireAssumption
<1>6. IsSeq(rec.body) /\ DOMAIN rec.body = 1 .. Len(rec.body)
  BY <1>5 DEF IsSeq
<1>7. ASSUME NEW i \in 1 .. Len(rec.body)
      PROVE  KeepsSound(rec.body[i])
  <2>1. rec.body[i] \in Record /\ Depth[rec.body[i]] < d
    BY <1>5, <1>6
  <2>2. Depth[rec.body[i]] \in Nat /\ d \in Nat
    BY <1>1, <1>2, <2>1, WireAssumption
  <2>3. rec.body[i] \notin bad
    <3> SUFFICES ASSUME rec.body[i] \in bad
                 PROVE  FALSE
      OBVIOUS
    <3>1. Depth[rec.body[i]] \in depths
      OBVIOUS
    <3> HIDE DEF depths, bad
    <3>2. d <= Depth[rec.body[i]]
      BY <1>2, <3>1
    <3> QED
      BY <2>1, <2>2, <3>2
  <2> QED
    BY <2>1, <2>3
<1> QED
  BY <1>4, <1>6, <1>7, RecordSound

\* The message read is whole, and so are the messages it holds.
MessageInv == PayloadInv /\ Sound(type, msg)

\* Whatever the payload, the message read from it is whole to any depth.
LEMMA MessageInvariant ==
  ASSUME NestedAsDefined
  PROVE  Spec => []MessageInv
<1>1. Init => MessageInv
  BY PayloadInit, NewSound DEF Init, MessageInv
<1>2. MessageInv /\ [Next]_vars => MessageInv'
  <2> SUFFICES ASSUME MessageInv, [Next]_vars
               PROVE  Sound(type, msg)'
    BY PayloadStep DEF MessageInv
  <2>1. CASE UNCHANGED vars
    BY <2>1 DEF MessageInv, vars
  <2>2. ASSUME NEW rec \in Record, msg' = Consume(type, msg, rec), type' = type
        PROVE  Sound(type, msg)'
    <3>1. KeepsSound(rec)
      BY <2>2, RecordsSound
    <3>2. Sound(type, Consume(type, msg, rec))
      BY <3>1 DEF KeepsSound, MessageInv, PayloadInv
    <3> QED
      BY <2>2, <3>2
  <2> QED
    BY <2>1, <2>2, PayloadStep DEF MessageInv
<1> QED
  BY <1>1, <1>2, PTL DEF Spec

-------------------------------------------------------------------------------
(* The payload of another message, read as a transaction.                    *)

\* A field of a message that has the number of the transaction's type is a list, a
\* truth or a message.
Sixth(message) ==
  \A f \in DOMAIN message :
    message[f].num = 6 =>
      \/ message[f].repeats
      \/ message[f].sort \in {"bool", "TransactionPayload", "WriteResource", "MoveType_ReferenceType"}

\* So it is of every message but the transaction.
LEMMA SixthFields == \A t \in DOMAIN Schema \ {"Transaction"} : Sixth(Schema[t])
<1> USE DEF Sixth, Field, One, Many, OneOf
<1>1. Sixth(Block)
  BY DEF Block
<1>2. Sixth(TransactionTrimmed)
  BY DEF TransactionTrimmed
<1>3. Sixth(BlockMetadataTransaction)
  BY DEF BlockMetadataTransaction
<1>4. Sixth(GenesisTransaction)
  BY DEF GenesisTransaction
<1>5. Sixth(StateCheckpointTransaction)
  BY DEF StateCheckpointTransaction
<1>6. Sixth(UserTransaction)
  BY DEF UserTransaction
<1>7. Sixth(Event)
  BY DEF Event
<1>8. Sixth(TransactionInfo)
  BY DEF TransactionInfo
<1>9. Sixth(EventKey)
  BY DEF EventKey
<1>10. Sixth(UserTransactionRequest)
  BY DEF UserTransactionRequest
<1>11. Sixth(WriteSet)
  BY DEF WriteSet
<1>12. Sixth(ScriptWriteSet)
  BY DEF ScriptWriteSet
<1>13. Sixth(DirectWriteSet)
  BY DEF DirectWriteSet
<1>14. Sixth(WriteSetChange)
  BY DEF WriteSetChange
<1>15. Sixth(DeleteModule)
  BY DEF DeleteModule
<1>16. Sixth(DeleteResource)
  BY DEF DeleteResource
<1>17. Sixth(DeleteTableItem)
  BY DEF DeleteTableItem
<1>18. Sixth(DeleteTableData)
  BY DEF DeleteTableData
<1>19. Sixth(WriteModule)
  BY DEF WriteModule
<1>20. Sixth(WriteResource)
  BY DEF WriteResource
<1>21. Sixth(WriteTableData)
  BY DEF WriteTableData
<1>22. Sixth(WriteTableItem)
  BY DEF WriteTableItem
<1>23. Sixth(TransactionPayload)
  BY DEF TransactionPayload
<1>24. Sixth(EntryFunctionPayload)
  BY DEF EntryFunctionPayload
<1>25. Sixth(MoveScriptBytecode)
  BY DEF MoveScriptBytecode
<1>26. Sixth(ScriptPayload)
  BY DEF ScriptPayload
<1>27. Sixth(ModuleBundlePayload)
  BY DEF ModuleBundlePayload
<1>28. Sixth(MoveModuleBytecode)
  BY DEF MoveModuleBytecode
<1>29. Sixth(MoveModule)
  BY DEF MoveModule
<1>30. Sixth(MoveFunction)
  BY DEF MoveFunction
<1>31. Sixth(MoveStruct)
  BY DEF MoveStruct
<1>32. Sixth(MoveStructGenericTypeParam)
  BY DEF MoveStructGenericTypeParam
<1>33. Sixth(MoveStructField)
  BY DEF MoveStructField
<1>34. Sixth(MoveFunctionGenericTypeParam)
  BY DEF MoveFunctionGenericTypeParam
<1>35. Sixth(MoveType)
  BY DEF MoveType
<1>36. Sixth(WriteSetPayload)
  BY DEF WriteSetPayload
<1>37. Sixth(EntryFunctionId)
  BY DEF EntryFunctionId
<1>38. Sixth(MoveModuleId)
  BY DEF MoveModuleId
<1>39. Sixth(MoveStructTag)
  BY DEF MoveStructTag
<1>40. Sixth(Signature)
  BY DEF Signature
<1>41. Sixth(Ed25519Signature)
  BY DEF Ed25519Signature
<1>42. Sixth(MultiEd25519Signature)
  BY DEF MultiEd25519Signature
<1>43. Sixth(MultiAgentSignature)
  BY DEF MultiAgentSignature
<1>44. Sixth(AccountSignature)
  BY DEF AccountSignature
<1>45. Sixth(MoveType_ReferenceType)
  BY DEF MoveType_ReferenceType
<1>46. Sixth(Timestamp)
  BY DEF Timestamp
<1> HIDE DEF Sixth
<1> QED
  BY <1>1, <1>2, <1>3, <1>4, <1>5, <1>6, <1>7, <1>8, <1>9, <1>10, <1>11, <1>12, <1>13, <1>14, <1>15, <1>16, <1>17, <1>18, <1>19, <1>20, <1>21, <1>22, <1>23, <1>24, <1>25, <1>26, <1>27, <1>28, <1>29, <1>30, <1>31, <1>32, <1>33, <1>34, <1>35, <1>36, <1>37, <1>38, <1>39, <1>40, <1>41, <1>42, <1>43, <1>44, <1>45, <1>46 DEF Schema

\* A record that gives a transaction no type but a boundary's.
Opens(rec) == GivesType(rec) => rec.value \in {0, 1}

\* A payload of such records.
AllOpen(records) == IsSeq(records) /\ \A i \in 1 .. Len(records) : Opens(records[i])

\* What is written of one number.
LEMMA NumberOpens ==
  ASSUME NestedAsDefined, NEW t \in DOMAIN Schema, t # "Transaction", NEW m, Whole(t, m),
         NEW n \in Nat \ {0}
  PROVE  AllOpen(RecordsAt(t, m, n))
<1> DEFINE records == RecordsAt(t, m, n)
<1>1. IsSeq(records)
  BY NumberBack
<1>2. ASSUME NEW i \in 1 .. Len(records)
      PROVE  Opens(records[i])
  <2>1. Len(records) \in Nat /\ DOMAIN records = 1 .. Len(records)
    BY <1>1, Listed
  <2>2. records # <<>>
    <3> HIDE DEF records
    <3> QED
      BY <1>1, <2>1, Listed
  <2>3. PICK f \in FieldsOf(t) : records = RecordsOf(Schema[t][f], m[f])
    BY <2>2, WrittenAt
  <2> HIDE DEF records
  <2> DEFINE field == Schema[t][f]
             values == m[f]
  <2>4. /\ IsSeq(values)
        /\ \A j \in 1 .. Len(values) : field.sort = "bool" /\ ~field.repeats => values[j] \in {0, 1}
    BY DEF Whole, Held
  <2>5. field.num = 6 => field.repeats \/ field.sort = "bool" \/ IsMessage(field.sort)
    <3>1. f \in DOMAIN Schema[t] /\ Sixth(Schema[t])
      BY SixthFields DEF FieldsOf
    <3>2. \A s \in {"TransactionPayload", "WriteResource", "MoveType_ReferenceType"} : s \in DOMAIN Schema
      BY DEF Schema
    <3> QED
      BY <3>1, <3>2 DEF Sixth, IsMessage
  <2>6. records = RecordsOf(field, values)
    BY <2>3
  <2> HIDE DEF field, values
  <2>7. CASE Packed(field) /\ values # <<>>
    <3>1. PICK body : records = <<Bytes(field.num, body)>>
      BY <2>6, <2>7 DEF RecordsOf
    <3>2. i = 1
      BY <2>1, <3>1
    <3>3. records[i].wt = "len"
      BY <3>1, <3>2 DEF Bytes
    <3> QED
      BY <3>3 DEF Opens, GivesType
  <2>8. CASE ~(Packed(field) /\ values # <<>>)
    <3>1. records = [j \in DOMAIN values |-> RecordOf(field, values[j])]
      BY <2>6, <2>8 DEF RecordsOf
    <3>2. i \in DOMAIN values /\ DOMAIN values = 1 .. Len(values)
      BY <2>1, <2>4, <3>1, Listed
    <3>3. records[i] = RecordOf(field, values[i]) /\ values # <<>>
      BY <3>1, <3>2
    <3>4. CASE IsMessage(field.sort) \/ IsText(field.sort)
      <4>1. \E body : records[i] = Bytes(field.num, body)
        BY <3>3, <3>4 DEF RecordOf
      <4>2. records[i].wt = "len"
        BY <4>1 DEF Bytes
      <4> QED
        BY <4>2 DEF Opens, GivesType
    <3>5. CASE ~IsMessage(field.sort) /\ ~IsText(field.sort)
      <4>1. records[i] = Varint(field.num, values[i])
        BY <3>3, <3>5 DEF RecordOf
      <4>2. records[i].num = field.num /\ records[i].value = values[i]
        BY <4>1 DEF Varint
      <4>3. ~field.repeats
        BY <2>8, <3>3, <3>5 DEF Packed, IsNumber
      <4>4. GivesType(records[i]) => field.sort = "bool"
        BY <2>5, <3>5, <4>2, <4>3 DEF GivesType
      <4> QED
        BY <2>4, <3>2, <4>2, <4>3, <4>4 DEF Opens
    <3> QED
      BY <3>4, <3>5
  <2> QED
    BY <2>7, <2>8
<1> QED
  BY <1>1, <1>2 DEF AllOpen

\* One payload after another.
LEMMA BothOpen ==
  ASSUME NEW a, NEW b, AllOpen(a), AllOpen(b)
  PROVE  AllOpen(a \o b)
<1>1. PICK S : a \in Seq(S) /\ b \in Seq(S) /\ a \o b \in Seq(S)
  BY BothOver DEF AllOpen
<1> DEFINE ab == a \o b
           k == Len(a)
<1>2. /\ k \in Nat /\ Len(b) \in Nat /\ Len(ab) = k + Len(b)
      /\ \A i \in 1 .. k : ab[i] = a[i]
      /\ \A i \in 1 .. Len(b) : ab[k + i] = b[i]
  BY <1>1, Joined
<1>3. IsSeq(ab)
  BY <1>1 DEF IsSeq
<1> HIDE DEF ab
<1>4. ASSUME NEW i \in 1 .. Len(ab)
      PROVE  Opens(ab[i])
  <2>1. CASE i \in 1 .. k
    BY <1>2, <2>1 DEF AllOpen
  <2>2. CASE i \notin 1 .. k
    <3>1. i - k \in 1 .. Len(b) /\ k + (i - k) = i
      BY <1>2, <2>2
    <3>2. ab[k + (i - k)] = b[i - k] /\ Opens(b[i - k])
      BY <1>2, <3>1 DEF AllOpen
    <3> QED
      BY <3>1, <3>2
  <2> QED
    BY <2>1, <2>2
<1> QED
  BY <1>3, <1>4 DEF AllOpen, ab

\* All that is written of what the message's type knows.
LEMMA KnownOpens ==
  ASSUME NestedAsDefined, NEW t \in DOMAIN Schema, t # "Transaction", NEW m, Whole(t, m)
  PROVE  AllOpen(KnownRecords(t, m))
<1> DEFINE last == NewerField - 1
           s == [n \in 1 .. last |-> RecordsAt(t, m, n)]
<1>1. last \in Nat \ {0} /\ KnownRecords(t, m) = FlattenSeq(s)
  BY DEF KnownRecords, NewerField
<1> HIDE DEF last
<1>2. Len(s) = last /\ \A n \in 1 .. last : s[n] = RecordsAt(t, m, n)
  BY <1>1
<1>3. \A n \in 1 .. last : AllOpen(s[n])
  BY <1>2, NumberOpens
<1> HIDE DEF s
<1>4. PICK f : /\ f[1] = s[1]
               /\ \A i \in 2 .. last : f[i] = f[i - 1] \o s[i]
               /\ FlattenSeq(s) = f[last]
  BY <1>1, <1>2, FlattenSteps
<1> DEFINE G == {n \in 1 .. last : AllOpen(f[n])}
<1>5. \A n \in 1 .. last : n \in G
  <2>1. 1 \in G
    BY <1>1, <1>3, <1>4
  <2>2. ASSUME NEW n \in 1 .. last, n \in G, n < last
        PROVE  n + 1 \in G
    <3>1. n + 1 \in 2 .. last /\ n + 1 \in 1 .. last /\ (n + 1) - 1 = n
      BY <1>1, <2>2
    <3>2. f[n + 1] = f[n] \o s[n + 1]
      BY <1>4, <3>1
    <3>3. AllOpen(f[n]) /\ AllOpen(s[n + 1])
      BY <1>3, <2>2, <3>1
    <3>4. AllOpen(f[n + 1])
      BY <3>2, <3>3, BothOpen
    <3> QED
      BY <3>1, <3>4
  <2> HIDE DEF G
  <2> QED
    BY <1>1, <2>1, <2>2, UpTo
<1>6. last \in 1 .. last
  BY <1>1
<1> QED
  BY <1>1, <1>4, <1>5, <1>6

\* A transaction read from such a payload is a boundary.
LEMMA OpenRead ==
  ASSUME NEW records, AllOpen(records)
  PROVE  \E value \in {0, 1} :
           Unmarshal("Transaction", New("Transaction"), records).type = TypeHeld(value)
<1> DEFINE t == "Transaction"
           n == Len(records)
           Boundary(m) == HasSlots(t, m) /\ \E value \in {0, 1} : m.type = TypeHeld(value)
<1>1. n \in Nat
  BY Listed DEF AllOpen
<1>2. PICK f : Reads(f, t, New(t), records) /\ Unmarshal(t, New(t), records) = f[n]
  BY <1>1, ReadSteps
<1>3. t \in DOMAIN Schema
  BY TypeField
<1>4. Boundary(f[0])
  <2>1. f[0] = New(t)
    BY <1>2 DEF Reads
  <2>2. HasSlots(t, New(t))
    BY NewHasSlots
  <2>3. New(t)["type"] = <<>>
    BY TypeField DEF New
  <2> QED
    BY <2>1, <2>2, <2>3 DEF TypeHeld
<1>5. ASSUME NEW i \in 1 .. n, Boundary(f[i - 1])
      PROVE  Boundary(f[i])
  <2> DEFINE m == f[i - 1]
  <2>1. f[i] = Consume(t, m, records[i]) /\ Opens(records[i])
    BY <1>2 DEF Reads, AllOpen
  <2> HIDE DEF m
  <2>2. HasSlots(t, m)
    BY <1>5 DEF m
  <2>3. HasSlots(t, Consume(t, m, records[i]))
    BY <1>3, <2>2, SlotsKept
  <2>4. Consume(t, m, records[i]).type =
          IF GivesType(records[i]) THEN TypeHeld(records[i].value) ELSE m.type
    BY <2>2, TypeOfRecord
  <2>5. GivesType(records[i]) => records[i].value \in {0, 1}
    BY <2>1 DEF Opens
  <2>6. \E value \in {0, 1} : m.type = TypeHeld(value)
    BY <1>5 DEF m
  <2>7. \E value \in {0, 1} : Consume(t, m, records[i]).type = TypeHeld(value)
    BY <2>4, <2>5, <2>6
  <2> QED
    BY <2>1, <2>3, <2>7
<1> HIDE DEF Boundary
<1> DEFINE G == {i \in 1 .. n : Boundary(f[i])}
<1>6. \A i \in 1 .. n : i \in G
  <2>1. n # 0 => 1 \in G
    <3>1. n # 0 => 1 \in 1 .. n /\ 1 - 1 = 0
      BY <1>1
    <3> QED
      BY <1>4, <1>5, <3>1
  <2>2. ASSUME NEW i \in 1 .. n, i \in G, i < n
        PROVE  i + 1 \in G
    <3>1. i + 1 \in 1 .. n /\ (i + 1) - 1 = i /\ Boundary(f[i])
      BY <1>1, <2>2
    <3> HIDE DEF n
    <3> QED
      BY <1>5, <3>1
  <2> HIDE DEF G, n
  <2> QED
    BY <1>1, <2>1, <2>2, UpTo
<1>7. Boundary(f[n])
  BY <1>1, <1>4, <1>6
<1> QED
  BY <1>2, <1>7 DEF Boundary

\* The payload of any other message, as this schema writes it, is taken for the first
\* transaction of a block.
THEOREM ForeignPayloadOpens ==
  ASSUME NestedAsDefined
  PROVE  Spec => []ForeignPayloadOpensBlock
<1>1. MessageInv => ForeignPayloadOpensBlock
  <2> SUFFICES ASSUME MessageInv, type # "Transaction"
               PROVE  ForeignPayloadOpensBlock
    BY DEF ForeignPayloadOpensBlock
  <2> DEFINE read == Unmarshal("Transaction", New("Transaction"), KnownRecords(type, msg))
  <2>1. type \in DOMAIN Schema /\ Whole(type, msg)
    BY SoundParts DEF MessageInv, PayloadInv
  <2>2. PICK value \in {0, 1} : read.type = TypeHeld(value)
    BY <2>1, KnownOpens, OpenRead
  <2> HIDE DEF read
  <2>3. Reader!IsBlockStartBoundaryType(TransactionRead(read))
    BY <2>2, OpensBlock
  <2> QED
    BY <2>3 DEF ForeignPayloadOpensBlock, read
<1>2. Spec => []MessageInv
  BY MessageInvariant
<1> QED
  BY <1>1, <1>2, PTL

-------------------------------------------------------------------------------
(* A transaction read as a trimmed one.                                      *)

\* The two fields of the trimmed transaction are the transaction's, in no oneof.
LEMMA TrimmedFields ==
  /\ "Transaction" \in DOMAIN Schema /\ "TransactionTrimmed" \in DOMAIN Schema
  /\ FieldsOf("TransactionTrimmed") = {"timestamp", "version"}
  /\ \A f \in {"timestamp", "version"} :
       /\ f \in FieldsOf("Transaction")
       /\ Schema["Transaction"][f] = Schema["TransactionTrimmed"][f]
       /\ Schema["TransactionTrimmed"][f].group = NoOneof
<1>1. /\ "Transaction" \in DOMAIN Schema /\ "TransactionTrimmed" \in DOMAIN Schema
      /\ Schema["Transaction"] = Transaction
      /\ Schema["TransactionTrimmed"] = TransactionTrimmed
  BY DEF Schema
<1>2. DOMAIN TransactionTrimmed = {"timestamp", "version"}
  BY DEF TransactionTrimmed
<1>3. \A f \in {"timestamp", "version"} :
        f \in DOMAIN Transaction /\ Transaction[f] = TransactionTrimmed[f]
  BY DEF Transaction, TransactionTrimmed
<1>4. \A f \in {"timestamp", "version"} : TransactionTrimmed[f].group = NoOneof
  BY DEF TransactionTrimmed, One, Field
<1> QED
  BY <1>1, <1>2, <1>3, <1>4 DEF FieldsOf

\* A transaction with another time and version.
Stamped(m, time, number) == [m EXCEPT !["timestamp"] = time, !["version"] = number]

\* Slot by slot.
LEMMA StampedAt ==
  ASSUME NEW m, HasSlots("Transaction", m), NEW x, NEW y
  PROVE  /\ HasSlots("Transaction", Stamped(m, x, y))
         /\ Stamped(m, x, y) = [g \in Slots("Transaction") |->
                                  IF g = "timestamp" THEN x ELSE IF g = "version" THEN y ELSE m[g]]
<1>1. DOMAIN m = Slots("Transaction") /\ "timestamp" # "version"
  BY DEF HasSlots
<1>2. "timestamp" \in Slots("Transaction") /\ "version" \in Slots("Transaction")
  BY TrimmedFields DEF Slots
<1> HIDE DEF Slots
<1>3. Stamped(m, x, y) = [g \in Slots("Transaction") |->
                            IF g = "timestamp" THEN x ELSE IF g = "version" THEN y ELSE m[g]]
  BY <1>1, <1>2 DEF Stamped
<1> QED
  BY <1>3 DEF HasSlots

\* What a transaction makes of a record of its time or its version: nothing else changes.
LEMMA StampRead ==
  ASSUME NEW m, HasSlots("Transaction", m), NEW rec, NEW f \in {"timestamp", "version"},
         Accepts(Schema["TransactionTrimmed"][f], rec), NEW x, NEW y
  PROVE  /\ Consume("Transaction", m, rec)[f] =
              ValuesRead(Schema["TransactionTrimmed"][f], m[f], rec)
         /\ \A g \in {"timestamp", "version"} : g # f => Consume("Transaction", m, rec)[g] = m[g]
         /\ Stamped(Consume("Transaction", m, rec), x, y) = Stamped(m, x, y)
<1> DEFINE t == "Transaction"
           field == Schema["TransactionTrimmed"][f]
           after == Consume(t, m, rec)
<1>1. /\ t \in DOMAIN Schema /\ f \in FieldsOf(t) /\ Schema[t][f] = field /\ field.group = NoOneof
      /\ \A g \in {"timestamp", "version"} : g \in Slots(t)
  BY TrimmedFields DEF Slots
<1>2. \A g : ~Drops(t, f, g)
  BY <1>1 DEF Drops
<1>3. after = Put(t, m, f, ValuesRead(field, m[f], rec))
  BY <1>1, KnownRecord
<1>4. /\ HasSlots(t, after)
      /\ after[f] = ValuesRead(field, m[f], rec)
      /\ \A g \in Slots(t) : g # f => after[g] = m[g]
  BY <1>1, <1>2, <1>3, PutAt
<1> HIDE DEF after
<1>5. Stamped(after, x, y) = Stamped(m, x, y)
  BY <1>4, StampedAt
<1> QED
  BY <1>1, <1>4, <1>5 DEF after

\* Every other record is read as it were, whatever the time and the version.
LEMMA StampAside ==
  ASSUME NEW m, HasSlots("Transaction", m), NEW rec, NEW x, NEW y,
         \A f \in {"timestamp", "version"} : ~Accepts(Schema["TransactionTrimmed"][f], rec)
  PROVE  /\ \A g \in {"timestamp", "version"} : Consume("Transaction", m, rec)[g] = m[g]
         /\ Consume("Transaction", Stamped(m, x, y), rec) = Stamped(Consume("Transaction", m, rec), x, y)
<1> DEFINE t == "Transaction"
           two == {"timestamp", "version"}
           after == Consume(t, m, rec)
           stamped == Stamped(m, x, y)
           other == Consume(t, stamped, rec)
           Stamp(g) == IF g = "timestamp" THEN x ELSE y
<1>1. /\ t \in DOMAIN Schema
      /\ \A g \in two : g \in FieldsOf(t) /\ g \in Slots(t) /\ Schema[t][g].group = NoOneof
                          /\ ~Accepts(Schema[t][g], rec)
      /\ "unknownFields" \in Slots(t) /\ "unknownFields" \notin two
  BY TrimmedFields DEF Slots
<1>2. /\ HasSlots(t, stamped)
      /\ \A g \in two : stamped[g] = Stamp(g)
      /\ \A g \in Slots(t) : g \notin two => stamped[g] = m[g]
  BY <1>1, StampedAt
<1> HIDE DEF stamped
<1>3. HasSlots(t, after) /\ HasSlots(t, other)
  BY <1>1, <1>2, SlotsKept
<1>4. /\ \A g \in two : after[g] = m[g] /\ other[g] = stamped[g]
      /\ \A g \in Slots(t) : g \notin two => other[g] = after[g]
  <2>1. CASE \E f \in FieldsOf(t) : Accepts(Schema[t][f], rec)
    <3>1. PICK f \in FieldsOf(t) : Accepts(Schema[t][f], rec)
      BY <2>1
    <3>2. f \notin two /\ f \in Slots(t) /\ \A g \in two : ~Drops(t, f, g)
      BY <1>1, <3>1 DEF Drops, Slots
    <3>3. stamped[f] = m[f]
      BY <1>2, <3>2
    <3> DEFINE new == ValuesRead(Schema[t][f], m[f], rec)
    <3>4. after = Put(t, m, f, new) /\ other = Put(t, stamped, f, new)
      BY <1>1, <3>1, <3>3, KnownRecord
    <3> HIDE DEF after, other, new
    <3>5. /\ after[f] = new /\ other[f] = new
          /\ \A g \in Slots(t) : g # f =>
               /\ after[g] = IF Drops(t, f, g) THEN <<>> ELSE m[g]
               /\ other[g] = IF Drops(t, f, g) THEN <<>> ELSE stamped[g]
      BY <1>1, <1>2, <3>4, PutAt
    <3> HIDE DEF two
    <3> QED
      BY <1>1, <1>2, <3>2, <3>5
  <2>2. CASE \A f \in FieldsOf(t) : ~Accepts(Schema[t][f], rec)
    <3>1. after = [m EXCEPT !["unknownFields"] = Append(m["unknownFields"], rec)]
      BY <2>2, UnknownRecord
    <3>2. other = [stamped EXCEPT !["unknownFields"] = Append(stamped["unknownFields"], rec)]
      BY <2>2, UnknownRecord
    <3>3. DOMAIN m = Slots(t) /\ DOMAIN stamped = Slots(t)
      BY <1>2 DEF HasSlots
    <3>4. stamped["unknownFields"] = m["unknownFields"]
      BY <1>1, <1>2
    <3> HIDE DEF after, other, two
    <3> QED
      BY <1>1, <1>2, <3>1, <3>2, <3>3, <3>4
  <2> QED
    BY <2>1, <2>2
<1> HIDE DEF after, other
<1>5. other = Stamped(after, x, y)
  <2>1. Stamped(after, x, y) = [g \in Slots(t) |->
                                  IF g = "timestamp" THEN x ELSE IF g = "version" THEN y ELSE after[g]]
    BY <1>3, StampedAt
  <2>2. \A g \in Slots(t) :
          other[g] = IF g = "timestamp" THEN x ELSE IF g = "version" THEN y ELSE after[g]
    BY <1>2, <1>4
  <2> QED
    BY <1>3, <2>1, <2>2 DEF HasSlots
<1> QED
  BY <1>4, <1>5 DEF after, other, stamped

\* One record more, after any sequence of them.
LEMMA ReadAfter ==
  ASSUME NEW t, NEW m, NEW a, IsSeq(a), NEW rec
  PROVE  Unmarshal(t, m, Append(a, rec)) = Consume(t, Unmarshal(t, m, a), rec)
<1>1. PICK A : a \in Seq(A)
  BY DEF IsSeq
<1> DEFINE B == A \cup {rec}
<1>2. a \in Seq(B) /\ rec \in B
  BY <1>1
<1> HIDE DEF B
<1> QED
  BY <1>2, ReadMore

\* What a payload is as a trimmed transaction, beside what it is as a transaction: the
\* same time and version, and, kept as unknown, records that make all the rest of the
\* transaction, whatever the time and version they are read over.
Agrees(m, trimmed) ==
  /\ HasSlots("Transaction", m)
  /\ Sound("TransactionTrimmed", trimmed)
  /\ \A f \in {"timestamp", "version"} : trimmed[f] = m[f]
  /\ \A x, y : Unmarshal("Transaction", Stamped(New("Transaction"), x, y), trimmed["unknownFields"])
                 = Stamped(m, x, y)

\* The empty payload.
LEMMA NewAgrees == Agrees(New("Transaction"), New("TransactionTrimmed"))
<1>1. Sound("TransactionTrimmed", New("TransactionTrimmed"))
  BY NewSound, TrimmedFields
<1>2. HasSlots("Transaction", New("Transaction"))
  BY NewHasSlots
<1>3. \A f \in {"timestamp", "version"} : New("TransactionTrimmed")[f] = New("Transaction")[f]
  BY TrimmedFields DEF New
<1>4. New("TransactionTrimmed")["unknownFields"] = <<>>
  BY DEF New
<1> QED
  BY <1>1, <1>2, <1>3, <1>4, ReadNothing DEF Agrees

\* One record more in the payload.
LEMMA MoreAgrees ==
  ASSUME NestedAsDefined, NEW m, NEW trimmed, Agrees(m, trimmed), NEW rec \in Record
  PROVE  Agrees(Consume("Transaction", m, rec), Consume("TransactionTrimmed", trimmed, rec))
<1> DEFINE t == "Transaction"
           u == "TransactionTrimmed"
           two == {"timestamp", "version"}
           unknown == trimmed["unknownFields"]
           after == Consume(t, m, rec)
           less == Consume(u, trimmed, rec)
<1>1. /\ t \in DOMAIN Schema /\ u \in DOMAIN Schema /\ FieldsOf(u) = two
      /\ \A f \in two : Schema[u][f].group = NoOneof
      /\ HasSlots(t, m) /\ \A f \in two : trimmed[f] = m[f]
  BY TrimmedFields DEF Agrees
<1>2. /\ HasSlots(u, trimmed) /\ IsSeq(unknown)
  BY <1>1, SoundParts DEF Agrees, Whole
<1>3. \A x, y : Unmarshal(t, Stamped(New(t), x, y), unknown) = Stamped(m, x, y)
  BY DEF Agrees
<1>4. HasSlots(t, after) /\ Sound(u, less)
  BY <1>1, SlotsKept, RecordsSound DEF Agrees, KeepsSound
<1> SUFFICES /\ \A f \in two : less[f] = after[f]
             /\ \A x, y : Unmarshal(t, Stamped(New(t), x, y), less["unknownFields"])
                            = Stamped(after, x, y)
  BY <1>4 DEF Agrees
<1>5. CASE \E f \in two : Accepts(Schema[u][f], rec)
  <2>1. PICK f \in two : Accepts(Schema[u][f], rec)
    BY <1>5
  <2> DEFINE new == ValuesRead(Schema[u][f], m[f], rec)
  <2>2. less = Put(u, trimmed, f, new)
    BY <1>1, <2>1, KnownRecord
  <2>3. \A g : ~Drops(u, f, g)
    BY <1>1 DEF Drops
  <2>4. \A g \in two : g \in Slots(u)
    BY <1>1 DEF Slots
  <2> HIDE DEF less, new
  <2>5. /\ less[f] = new
        /\ \A g \in two : g # f => less[g] = trimmed[g]
        /\ less["unknownFields"] = unknown
    <3>1. f \in FieldsOf(u)
      BY <1>1
    <3>2. /\ Put(u, trimmed, f, new)[f] = new
          /\ \A g \in Slots(u) : g # f => Put(u, trimmed, f, new)[g] = trimmed[g]
          /\ "unknownFields" \in Slots(u) /\ "unknownFields" # f
      BY <1>1, <1>2, <2>3, <3>1, PutAt
    <3> QED
      BY <2>2, <2>4, <3>2
  <2>6. /\ after[f] = new
        /\ \A g \in two : g # f => after[g] = m[g]
        /\ \A x, y : Stamped(after, x, y) = Stamped(m, x, y)
    BY <1>1, <2>1, StampRead DEF new
  <2> HIDE DEF after, unknown, two
  <2> QED
    BY <1>1, <1>3, <2>5, <2>6
<1>6. CASE \A f \in two : ~Accepts(Schema[u][f], rec)
  <2>1. less = [trimmed EXCEPT !["unknownFields"] = Append(unknown, rec)]
    BY <1>1, <1>6, UnknownRecord
  <2>2. "unknownFields" \notin two /\ DOMAIN trimmed = Slots(u) /\ "unknownFields" \in Slots(u)
    BY <1>2 DEF HasSlots, Slots
  <2> HIDE DEF less
  <2>3. less["unknownFields"] = Append(unknown, rec) /\ \A f \in two : less[f] = trimmed[f]
    BY <2>1, <2>2
  <2>4. \A f \in two : after[f] = m[f]
    BY <1>1, <1>6, StampAside
  <2>5. ASSUME NEW x, NEW y
        PROVE  Unmarshal(t, Stamped(New(t), x, y), Append(unknown, rec)) = Stamped(after, x, y)
    <3>1. Unmarshal(t, Stamped(New(t), x, y), Append(unknown, rec)) =
            Consume(t, Unmarshal(t, Stamped(New(t), x, y), unknown), rec)
      BY <1>2, ReadAfter
    <3>2. Consume(t, Stamped(m, x, y), rec) = Stamped(after, x, y)
      BY <1>1, <1>6, StampAside
    <3> QED
      BY <1>3, <3>1, <3>2
  <2> HIDE DEF after, unknown
  <2> QED
    BY <1>1, <2>3, <2>4, <2>5
<1> QED
  BY <1>5, <1>6

\* The trimmed transaction, written back, is the transaction.
LEMMA TrimmedBack ==
  ASSUME NestedAsDefined, NEW m, NEW trimmed, Agrees(m, trimmed)
  PROVE  Unmarshal("Transaction", New("Transaction"), Marshal("TransactionTrimmed", trimmed)) = m
<1> DEFINE t == "Transaction"
           u == "TransactionTrimmed"
           head == KnownRecords(u, trimmed)
           unknown == trimmed["unknownFields"]
           x == trimmed["timestamp"]
           y == trimmed["version"]
           read == [g \in Slots(t) |-> IF g \in FieldsOf(u) THEN trimmed[g] ELSE <<>>]
<1>1. /\ t \in DOMAIN Schema /\ u \in DOMAIN Schema /\ FieldsOf(u) = {"timestamp", "version"}
      /\ \A f \in FieldsOf(u) : f \in FieldsOf(t) /\ Schema[t][f] = Schema[u][f]
  BY TrimmedFields
<1>2. Whole(u, trimmed) /\ IsSeq(unknown)
  BY <1>1, SoundParts DEF Agrees, Whole
<1>3. IsSeq(head) /\ Unmarshal(t, New(t), head) = read
  <2> HIDE DEF t, u
  <2> QED
    BY <1>1, <1>2, KnownBack
<1>4. read = Stamped(New(t), x, y)
  <2>1. HasSlots(t, New(t)) /\ \A g \in Slots(t) : New(t)[g] = <<>>
    BY NewHasSlots DEF New, Slots
  <2>2. Stamped(New(t), x, y) = [g \in Slots(t) |->
                                   IF g = "timestamp" THEN x ELSE IF g = "version" THEN y ELSE New(t)[g]]
    BY <2>1, StampedAt
  <2>3. \A g \in Slots(t) : (IF g \in FieldsOf(u) THEN trimmed[g] ELSE <<>>)
                              = IF g = "timestamp" THEN x ELSE IF g = "version" THEN y ELSE New(t)[g]
    BY <1>1, <2>1
  <2> QED
    BY <2>2, <2>3
<1>5. Stamped(m, x, y) = m
  <2>1. HasSlots(t, m) /\ x = m["timestamp"] /\ y = m["version"]
    BY DEF Agrees
  <2>2. Stamped(m, x, y) = [g \in Slots(t) |->
                              IF g = "timestamp" THEN x ELSE IF g = "version" THEN y ELSE m[g]]
    BY <2>1, StampedAt
  <2>3. \A g \in Slots(t) : (IF g = "timestamp" THEN x ELSE IF g = "version" THEN y ELSE m[g]) = m[g]
    BY <2>1
  <2> QED
    BY <2>1, <2>2, <2>3 DEF HasSlots
<1>6. Unmarshal(t, Stamped(New(t), x, y), unknown) = Stamped(m, x, y)
  BY DEF Agrees
<1> HIDE DEF head, unknown, read
<1>7. PICK S : head \in Seq(S) /\ unknown \in Seq(S)
  BY <1>2, <1>3, BothOver
<1>8. Unmarshal(t, New(t), head \o unknown) = Unmarshal(t, Unmarshal(t, New(t), head), unknown)
  BY <1>7, ReadJoined
<1>9. Marshal(u, trimmed) = head \o unknown
  BY DEF Marshal, head, unknown
<1> QED
  BY <1>3, <1>4, <1>5, <1>6, <1>8, <1>9

\* A transaction's payload is a transaction and, in the same records, a trimmed one.
TrimmedInv ==
  type = "Transaction" =>
    Agrees(msg, Unmarshal("TransactionTrimmed", New("TransactionTrimmed"), wire))

\* A transaction's payload read as a trimmed one has the transaction's version and time,
\* and written back it is the whole transaction.
THEOREM TrimmedTransactionAgrees ==
  ASSUME NestedAsDefined
  PROVE  Spec => []TrimmedAgrees
<1>1. Init => PayloadInv /\ TrimmedInv
  BY PayloadInit, NewAgrees, ReadNothing DEF Init, TrimmedInv
<1>2. PayloadInv /\ TrimmedInv /\ [Next]_vars => PayloadInv' /\ TrimmedInv'
  <2> SUFFICES ASSUME PayloadInv, TrimmedInv, [Next]_vars
               PROVE  TrimmedInv'
    BY PayloadStep
  <2>1. CASE UNCHANGED vars
    BY <2>1 DEF TrimmedInv, vars
  <2>2. ASSUME NEW rec \in Record, wire' = Append(wire, rec), msg' = Consume(type, msg, rec),
               type' = type, type = "Transaction"
        PROVE  TrimmedInv'
    <3> DEFINE u == "TransactionTrimmed"
               trimmed == Unmarshal(u, New(u), wire)
               more == Unmarshal(u, New(u), wire')
    <3>1. more = Consume(u, trimmed, rec)
      BY <2>2, ReadMore DEF PayloadInv
    <3>2. Agrees(msg, trimmed)
      BY <2>2 DEF TrimmedInv
    <3> HIDE DEF trimmed, more
    <3>3. Agrees(msg', more)
      BY <2>2, <3>1, <3>2, MoreAgrees
    <3> QED
      BY <3>3 DEF TrimmedInv, more
  <2> QED
    BY <2>1, <2>2, PayloadStep DEF TrimmedInv
<1>3. TrimmedInv => TrimmedAgrees
  <2> SUFFICES ASSUME TrimmedInv, type = "Transaction"
               PROVE  TrimmedAgrees
    BY DEF TrimmedAgrees
  <2> DEFINE trimmed == Unmarshal("TransactionTrimmed", New("TransactionTrimmed"), wire)
  <2>1. Agrees(msg, trimmed)
    BY DEF TrimmedInv
  <2> HIDE DEF trimmed
  <2>2. /\ trimmed["version"] = msg["version"]
        /\ trimmed["timestamp"] = msg["timestamp"]
    BY <2>1 DEF Agrees
  <2>3. Unmarshal("Transaction", New("Transaction"), Marshal("TransactionTrimmed", trimmed)) = msg
    BY <2>1, TrimmedBack
  <2> QED
    BY <2>2, <2>3 DEF TrimmedAgrees, trimmed
<1> QED
  BY <1>1, <1>2, <1>3, PTL DEF Spec
===============================================================================
