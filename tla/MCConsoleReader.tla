--------------------------- MODULE MCConsoleReader ---------------------------
(*****************************************************************************)
(* Line alphabets for ConsoleReader. Each is a small set of lines out of     *)
(* which TLC builds every stream of at most MaxLines lines.                  *)
(*****************************************************************************)
EXTENDS ConsoleReader

CONSTANTS meta, genesis, user

Payloads == {meta, genesis, user}

Decoded ==
  [p \in Payloads |->
     CASE p = meta    -> [version |-> 1, type |-> "BLOCK_METADATA", timestamp |-> 5]
       [] p = genesis -> [version |-> 0, type |-> "GENESIS", timestamp |-> NilTimestamp]
       [] p = user    -> [version |-> 2, type |-> "USER", timestamp |-> 6]]

InitLine(params)  == [tag |-> "INIT", params |-> params]
StartLine(params) == [tag |-> "BLOCK_START", params |-> params]
TrxLine(params)   == [tag |-> "TRX", params |-> params]
EndLine(params)   == [tag |-> "BLOCK_END", params |-> params]
OtherLine(params) == [tag |-> "OTHER", params |-> params]
NotFireLine       == [tag |-> "NOT_FIRE", params |-> <<>>]
BareLine          == [tag |-> "BARE", params |-> <<>>]

\* Long streams of well formed lines, in every order.
OrderLines ==
  {InitLine(<<Word, Word, Word, 0, 0, 3>>),
   StartLine(<<0>>), StartLine(<<1>>),
   TrxLine(<<meta>>), TrxLine(<<user>>),
   EndLine(<<0>>), EndLine(<<1>>)}

\* Short streams with every way a line can be out of format.
FormatLines ==
  {InitLine(<<Word, Word, Word, 0, 0, 3>>),
   InitLine(<<Word, Word, Word, 0, 0, Word, 4>>),
   InitLine(<<Word, Word, Word, 1, 0, 3>>),
   InitLine(<<Word, Word, Word, Word, 0, 3>>),
   InitLine(<<Word, Word, Word, 0, 0, 16>>),
   InitLine(<<Word, Word, Word, 0, 0>>),
   InitLine(<<>>),
   StartLine(<<0>>), StartLine(<<0, 0>>), StartLine(<<Word>>),
   TrxLine(<<genesis>>), TrxLine(<<user>>), TrxLine(<<Word>>), TrxLine(<<user, user>>),
   EndLine(<<0>>), EndLine(<<1>>), EndLine(<<Word>>), EndLine(<<0, 0>>), EndLine(<<>>),
   OtherLine(<<Word>>), OtherLine(<<>>), NotFireLine, BareLine}

-------------------------------------------------------------------------------
(* What the documents say and the reader does not do. Each is the property   *)
(* of a run that refutes it.                                                 *)

\* docs/extractor_message_exachange_format.md:36 formats INIT with five parameters
\* (an example at :10), so that such a line, the first of its kind and of major
\* version 0, is accepted.
DocumentedInitAccepted ==
  \A j \in 1 .. Len(consumed) :
    /\ consumed[j].tag = "INIT" /\ Len(consumed[j].params) = 5
    /\ consumed[j].params[4] = 0 /\ ~AfterInit(j)
    => ~(j = Len(consumed) /\ caller = "error")

\* docs/extractor_message_exachange_format.md:27: a message not prefixed by `FIRE '
\* is ignored, whatever it is.
UnprefixedIgnored ==
  \A j \in 1 .. Len(consumed) :
    consumed[j].tag \in {"NOT_FIRE", "BARE"} /\ j = Len(consumed) => caller \in {"reading", "eof"}

\* An INIT line is accepted only if the fifth parameter, the minor version that
\* console_reader.go:183 names in its error, is an integer.
MinorVersionParsed ==
  initRead => \A j \in 1 .. Len(consumed) :
                Message(j, "INIT") /\ ~AfterInit(j) => consumed[j].params[5] \in Uint64

\* common-flag.go:55-59: the flag common-chain-id is used to ensure the data is of
\* the right network.
CommonChainId == 3

ReadsRightNetwork ==
  \A i \in DOMAIN delivered : delivered[i].payload.chainId = CommonChainId

DocInitLines == {InitLine(<<Word, Word, Word, 0, 0>>), NotFireLine}

BareLines == {InitLine(<<Word, Word, Word, 0, 0, 3>>), NotFireLine, BareLine}

MinorLines == {InitLine(<<Word, Word, Word, 0, 0, 3>>), InitLine(<<Word, Word, Word, 0, Word, 3>>)}

NetworkLines ==
  {InitLine(<<Word, Word, Word, 0, 0, 3>>), InitLine(<<Word, Word, Word, 0, 0, 4>>),
   StartLine(<<1>>), TrxLine(<<meta>>), EndLine(<<1>>)}
===============================================================================
