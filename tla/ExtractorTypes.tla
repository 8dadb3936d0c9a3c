---------------------------- MODULE ExtractorTypes ----------------------------
(*****************************************************************************)
(* The messages and the enumerations of the extractor                        *)
(* (types/pb/aptos/extractor/v1/extractor.pb.go), as the schema that package *)
(* registers: a message is a record from the name of a field to its          *)
(* descriptor, an enumeration the sequence of its names, whose first is the  *)
(* zero value.  The struct, the protobuf tags, the oneof wrappers and the    *)
(* getters of a Go type all say what is one entry here; Wire.tla gives them  *)
(* their meaning.                                                            *)
(*****************************************************************************)
EXTENDS Naturals, Sequences

\* A field: its number on the wire, the scalar, enumeration or message it
\* holds, whether it repeats, and the oneof it is a member of.
Field(num, sort, repeats, group) ==
  [num |-> num, sort |-> sort, repeats |-> repeats, group |-> group]

NoOneof == ""

One(num, sort) == Field(num, sort, FALSE, NoOneof)
Many(num, sort) == Field(num, sort, TRUE, NoOneof)
OneOf(group, num, sort) == Field(num, sort, FALSE, group)

-------------------------------------------------------------------------------
MoveTypes == <<"Bool", "U8", "U64", "U128", "Address", "Signer", "Vector",
               "Struct", "GenericTypeParam", "Reference", "Unparsable">>

MoveAbility == <<"COPY", "DROP", "STORE", "KEY">>

\* The zero value proto3 style guides ask for.
Transaction_TransactionType_Unspecified == <<"UNSPECIFIED", "GENESIS",
  "BLOCK_METADATA", "STATE_CHECKPOINT", "USER">>

Transaction_TransactionType == <<"GENESIS", "BLOCK_METADATA",
                                 "STATE_CHECKPOINT", "USER">>

WriteSet_WriteSetType == <<"SCRIPT_WRITE_SET", "DIRECT_WRITE_SET">>

WriteSetChange_Type == <<"DELETE_MODULE", "DELETE_RESOURCE",
                         "DELETE_TABLE_ITEM", "WRITE_MODULE", "WRITE_RESOURCE",
                         "WRITE_TABLE_ITEM">>

TransactionPayload_Type == <<"ENTRY_FUNCTION_PAYLOAD", "SCRIPT_PAYLOAD",
                             "MODULE_BUNDLE_PAYLOAD">>

MoveFunction_Visibility == <<"PRIVATE", "PUBLIC", "FRIEND">>

Signature_Type == <<"ED25519", "MULTI_ED25519", "MULTI_AGENT">>

AccountSignature_Type == <<"ED25519", "MULTI_ED25519">>

-------------------------------------------------------------------------------
Block ==
  [timestamp |-> One(1, "Timestamp"), height |-> One(2, "uint64"),
   transactions |-> Many(3, "Transaction"), chain_id |-> One(4, "uint32")]

Transaction ==
  [timestamp |-> One(1, "Timestamp"), version |-> One(2, "uint64"),
   info |-> One(3, "TransactionInfo"), epoch |-> One(4, "uint64"),
   block_height |-> One(5, "uint64"),
   type |-> One(6, "Transaction_TransactionType"),
   block_metadata |-> OneOf("txn_data", 7, "BlockMetadataTransaction"),
   genesis |-> OneOf("txn_data", 8, "GenesisTransaction"),
   state_checkpoint |-> OneOf("txn_data", 9, "StateCheckpointTransaction"),
   user |-> OneOf("txn_data", 10, "UserTransaction")]

\* The two fields numbered as they are listed, not as in Transaction.
TransactionTrimmed_Renumbered ==
  [version |-> One(1, "uint64"), timestamp |-> One(2, "Timestamp")]

TransactionTrimmed ==
  [timestamp |-> One(1, "Timestamp"), version |-> One(2, "uint64")]

BlockMetadataTransaction ==
  [id |-> One(1, "string"), round |-> One(2, "uint64"),
   events |-> Many(3, "Event"), previous_block_votes_bitvec |-> One(4, "bytes"),
   proposer |-> One(5, "string"), failed_proposer_indices |-> Many(6, "uint32")]

GenesisTransaction ==
  [payload |-> One(1, "WriteSet"), events |-> Many(2, "Event")]

StateCheckpointTransaction == [f \in {} |-> f]

UserTransaction ==
  [request |-> One(1, "UserTransactionRequest"), events |-> Many(2, "Event")]

Event ==
  [key |-> One(1, "EventKey"), sequence_number |-> One(2, "uint64"),
   type |-> One(3, "MoveType"), type_str |-> One(5, "string"),
   data |-> One(4, "string")]

\* The two fields of the outcome the other way round.
TransactionInfo_Renumbered ==
  [hash |-> One(1, "bytes"), state_change_hash |-> One(2, "bytes"),
   event_root_hash |-> One(3, "bytes"),
   state_checkpoint_hash |-> OneOf("state_checkpoint_hash", 4, "bytes"),
   gas_used |-> One(6, "uint64"), success |-> One(5, "bool"),
   vm_status |-> One(7, "string"), accumulator_root_hash |-> One(8, "bytes"),
   changes |-> Many(9, "WriteSetChange")]

TransactionInfo ==
  [hash |-> One(1, "bytes"), state_change_hash |-> One(2, "bytes"),
   event_root_hash |-> One(3, "bytes"),
   state_checkpoint_hash |-> OneOf("state_checkpoint_hash", 4, "bytes"),
   gas_used |-> One(5, "uint64"), success |-> One(6, "bool"),
   vm_status |-> One(7, "string"), accumulator_root_hash |-> One(8, "bytes"),
   changes |-> Many(9, "WriteSetChange")]

EventKey ==
  [creation_number |-> One(1, "uint64"), account_address |-> One(2, "string")]

UserTransactionRequest ==
  [sender |-> One(1, "string"), sequence_number |-> One(2, "uint64"),
   max_gas_amount |-> One(3, "uint64"), gas_unit_price |-> One(4, "uint64"),
   expiration_timestamp_secs |-> One(5, "Timestamp"),
   payload |-> One(6, "TransactionPayload"), signature |-> One(7, "Signature")]

WriteSet ==
  [write_set_type |-> One(1, "WriteSet_WriteSetType"),
   script_write_set |-> OneOf("write_set", 2, "ScriptWriteSet"),
   direct_write_set |-> OneOf("write_set", 3, "DirectWriteSet")]

ScriptWriteSet ==
  [execute_as |-> One(1, "string"), script |-> One(2, "ScriptPayload")]

DirectWriteSet ==
  [write_set_change |-> Many(1, "WriteSetChange"), events |-> Many(2, "Event")]

WriteSetChange ==
  [type |-> One(1, "WriteSetChange_Type"),
   delete_module |-> OneOf("change", 2, "DeleteModule"),
   delete_resource |-> OneOf("change", 3, "DeleteResource"),
   delete_table_item |-> OneOf("change", 4, "DeleteTableItem"),
   write_module |-> OneOf("change", 5, "WriteModule"),
   write_resource |-> OneOf("change", 6, "WriteResource"),
   write_table_item |-> OneOf("change", 7, "WriteTableItem")]

DeleteModule ==
  [address |-> One(1, "string"), state_key_hash |-> One(2, "bytes"),
   module |-> One(3, "MoveModuleId")]

DeleteResource ==
  [address |-> One(1, "string"), state_key_hash |-> One(2, "bytes"),
   type |-> One(3, "MoveStructTag"), type_str |-> One(4, "string")]

DeleteTableItem ==
  [state_key_hash |-> One(1, "bytes"), handle |-> One(2, "string"),
   key |-> One(3, "string"), data |-> One(4, "DeleteTableData")]

DeleteTableData ==
  [key |-> One(1, "string"), key_type |-> One(2, "string")]

WriteModule ==
  [address |-> One(1, "string"), state_key_hash |-> One(2, "bytes"),
   data |-> One(3, "MoveModuleBytecode")]

WriteResource ==
  [address |-> One(1, "string"), state_key_hash |-> One(2, "bytes"),
   type |-> One(3, "MoveStructTag"), type_str |-> One(4, "string"),
   data |-> One(5, "string")]

WriteTableData ==
  [key |-> One(1, "string"), key_type |-> One(2, "string"),
   value |-> One(3, "string"), value_type |-> One(4, "string")]

WriteTableItem ==
  [state_key_hash |-> One(1, "bytes"), handle |-> One(2, "string"),
   key |-> One(3, "string"), data |-> One(4, "WriteTableData")]

TransactionPayload ==
  [type |-> One(1, "TransactionPayload_Type"),
   entry_function_payload |-> OneOf("payload", 2, "EntryFunctionPayload"),
   script_payload |-> OneOf("payload", 3, "ScriptPayload"),
   module_bundle_payload |-> OneOf("payload", 4, "ModuleBundlePayload"),
   write_set_payload |-> OneOf("payload", 5, "WriteSetPayload")]

EntryFunctionPayload ==
  [function |-> One(1, "EntryFunctionId"),
   type_arguments |-> Many(2, "MoveType"), arguments |-> Many(3, "string")]

MoveScriptBytecode ==
  [bytecode |-> One(1, "bytes"), abi |-> One(2, "MoveFunction")]

ScriptPayload ==
  [code |-> One(1, "MoveScriptBytecode"),
   type_arguments |-> Many(2, "MoveType"), arguments |-> Many(3, "string")]

ModuleBundlePayload ==
  [modules |-> Many(1, "MoveModuleBytecode")]

MoveModuleBytecode ==
  [bytecode |-> One(1, "bytes"), abi |-> One(2, "MoveModule")]

MoveModule ==
  [address |-> One(1, "string"), name |-> One(2, "string"),
   friends |-> Many(3, "MoveModuleId"),
   exposed_functions |-> Many(4, "MoveFunction"),
   structs |-> Many(5, "MoveStruct")]

MoveFunction ==
  [name |-> One(1, "string"), visibility |-> One(2, "MoveFunction_Visibility"),
   is_entry |-> One(3, "bool"),
   generic_type_params |-> Many(4, "MoveFunctionGenericTypeParam"),
   params |-> Many(5, "MoveType"), return |-> Many(6, "MoveType")]

MoveStruct ==
  [name |-> One(1, "string"), is_native |-> One(2, "bool"),
   abilities |-> Many(3, "MoveAbility"),
   generic_type_params |-> Many(4, "MoveStructGenericTypeParam"),
   fields |-> Many(5, "MoveStructField")]

MoveStructGenericTypeParam ==
  [constraints |-> Many(1, "MoveAbility"), is_phantom |-> One(2, "bool")]

MoveStructField ==
  [name |-> One(1, "string"), type |-> One(2, "MoveType")]

MoveFunctionGenericTypeParam ==
  [constraints |-> Many(1, "MoveAbility")]

MoveType ==
  [type |-> One(1, "MoveTypes"), vector |-> OneOf("content", 3, "MoveType"),
   struct |-> OneOf("content", 4, "MoveStructTag"),
   generic_type_param_index |-> OneOf("content", 5, "uint32"),
   reference |-> OneOf("content", 6, "MoveType_ReferenceType"),
   unparsable |-> OneOf("content", 7, "string")]

WriteSetPayload ==
  [write_set |-> One(1, "WriteSet")]

EntryFunctionId ==
  [module |-> One(1, "MoveModuleId"), name |-> One(2, "string")]

MoveModuleId ==
  [address |-> One(1, "string"), name |-> One(2, "string")]

MoveStructTag ==
  [address |-> One(1, "string"), module |-> One(2, "string"),
   name |-> One(3, "string"), generic_type_params |-> Many(4, "MoveType")]

Signature ==
  [type |-> One(1, "Signature_Type"),
   ed25519 |-> OneOf("signature", 2, "Ed25519Signature"),
   multi_ed25519 |-> OneOf("signature", 3, "MultiEd25519Signature"),
   multi_agent |-> OneOf("signature", 4, "MultiAgentSignature")]

Ed25519Signature ==
  [public_key |-> One(1, "bytes"), signature |-> One(2, "bytes")]

MultiEd25519Signature ==
  [public_keys |-> Many(1, "bytes"), signatures |-> Many(2, "bytes"),
   threshold |-> One(3, "uint32"), public_key_indices |-> Many(4, "uint32")]

MultiAgentSignature ==
  [sender |-> One(1, "AccountSignature"),
   secondary_signer_addresses |-> Many(2, "string"),
   secondary_signers |-> Many(3, "AccountSignature")]

AccountSignature ==
  [type |-> One(1, "AccountSignature_Type"),
   ed25519 |-> OneOf("signature", 2, "Ed25519Signature"),
   multi_ed25519 |-> OneOf("signature", 3, "MultiEd25519Signature")]

MoveType_ReferenceType ==
  [mutable |-> One(1, "bool"), to |-> One(2, "MoveType")]

\* The timestamps of transactions and blocks (types/pb/aptos/util/timestamp).
Timestamp == [seconds |-> One(1, "int64"), nanos |-> One(2, "int32")]

-------------------------------------------------------------------------------
Enums ==
  [MoveTypes |-> MoveTypes, MoveAbility |-> MoveAbility,
   Transaction_TransactionType |-> Transaction_TransactionType,
   WriteSet_WriteSetType |-> WriteSet_WriteSetType,
   WriteSetChange_Type |-> WriteSetChange_Type,
   TransactionPayload_Type |-> TransactionPayload_Type,
   MoveFunction_Visibility |-> MoveFunction_Visibility,
   Signature_Type |-> Signature_Type,
   AccountSignature_Type |-> AccountSignature_Type]

\* Every message of the file, by name.
Schema ==
  [Block |-> Block, Transaction |-> Transaction,
   TransactionTrimmed |-> TransactionTrimmed,
   BlockMetadataTransaction |-> BlockMetadataTransaction,
   GenesisTransaction |-> GenesisTransaction,
   StateCheckpointTransaction |-> StateCheckpointTransaction,
   UserTransaction |-> UserTransaction, Event |-> Event,
   TransactionInfo |-> TransactionInfo, EventKey |-> EventKey,
   UserTransactionRequest |-> UserTransactionRequest, WriteSet |-> WriteSet,
   ScriptWriteSet |-> ScriptWriteSet, DirectWriteSet |-> DirectWriteSet,
   WriteSetChange |-> WriteSetChange, DeleteModule |-> DeleteModule,
   DeleteResource |-> DeleteResource, DeleteTableItem |-> DeleteTableItem,
   DeleteTableData |-> DeleteTableData, WriteModule |-> WriteModule,
   WriteResource |-> WriteResource, WriteTableData |-> WriteTableData,
   WriteTableItem |-> WriteTableItem, TransactionPayload |-> TransactionPayload,
   EntryFunctionPayload |-> EntryFunctionPayload,
   MoveScriptBytecode |-> MoveScriptBytecode, ScriptPayload |-> ScriptPayload,
   ModuleBundlePayload |-> ModuleBundlePayload,
   MoveModuleBytecode |-> MoveModuleBytecode, MoveModule |-> MoveModule,
   MoveFunction |-> MoveFunction, MoveStruct |-> MoveStruct,
   MoveStructGenericTypeParam |-> MoveStructGenericTypeParam,
   MoveStructField |-> MoveStructField,
   MoveFunctionGenericTypeParam |-> MoveFunctionGenericTypeParam,
   MoveType |-> MoveType, WriteSetPayload |-> WriteSetPayload,
   EntryFunctionId |-> EntryFunctionId, MoveModuleId |-> MoveModuleId,
   MoveStructTag |-> MoveStructTag, Signature |-> Signature,
   Ed25519Signature |-> Ed25519Signature,
   MultiEd25519Signature |-> MultiEd25519Signature,
   MultiAgentSignature |-> MultiAgentSignature,
   AccountSignature |-> AccountSignature,
   MoveType_ReferenceType |-> MoveType_ReferenceType, Timestamp |-> Timestamp]
===============================================================================
