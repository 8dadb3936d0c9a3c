------------------------------- MODULE Archive -------------------------------
(*****************************************************************************)
(* The stores of blocks and the tools that read them (tools/blocks.go,       *)
(* tools/check.go, types/init.go). The reader node stores one file a block,  *)
(* the merger (external) bundles them into merged files once a bundle is     *)
(* complete, and the tools find a block again by its number: `print blocks', *)
(* `print block' and `print one-block', and what `check merged-blocks'       *)
(* prints of each block.                                                     *)
(*                                                                           *)
(* External, modelled from how the tools use it: the merger's files, named   *)
(* by their first number, and the names and the order of a store's walk.     *)
(* Abstracted: what is printed is the headers printed.                       *)
(*****************************************************************************)
EXTENDS HeaderChain, FiniteSets

CONSTANTS BundleSize, \* of a merged file, 100 in the code
          NameDigits, \* the digits a number is padded to in a name, 10 in the code
          MostDigits, \* that a number can have, 20 in the code
          ShownDigits \* the digits of an id that are printed, 7 in the code

ASSUME ArchiveAssumption ==
  /\ BundleSize \in Nat \ {0}
  /\ NameDigits \in Nat \ {0}
  /\ MostDigits \in Nat \ {0}
  /\ ShownDigits \in 1 .. 2 * IdBytes
  /\ MaxHeight < 10^MostDigits

\* What a power of ten is, as in AptosBlock.tla.
ASSUME DecimalAssumption ==
  /\ 10^0 = 1
  /\ \A k \in 1 .. MostDigits + NameDigits : 10^k = 10 * 10^(k - 1)

VARIABLES
  oneBlocks,  \* the numbers that have a one-block file
  mergedFiles \* the merged files, by their first number

archiveVars == <<vars, oneBlocks, mergedFiles>>

-------------------------------------------------------------------------------
(* Names and files.                                                          *)

\* The decimal digits of a number.
Digits(n) ==
  LET Length == CHOOSE k \in 1 .. MostDigits : n < 10^k /\ (k = 1 \/ n >= 10^(k - 1))
  IN  [i \in 1 .. Length |-> (n \div 10^(Length - i)) % 10]

\* A faulty variant, which a run must tell from FileName (as every definition named
\* after another one and a mistake).
FileName_Unpadded(n) == Digits(n)

\* Sprintf("%010d", n): at least that many digits, and more if the number has more.
FileName(n) == [i \in 1 .. NameDigits - Len(Digits(n)) |-> 0] \o Digits(n)

HasPrefix(name, prefix) ==
  Len(prefix) <= Len(name) /\ SubSeq(name, 1, Len(prefix)) = prefix

\* What blockWriterFactory writes at the head of a file, and whether
\* blockReaderFactory reads on from there.
WriterHeader == [contentType |-> "ETH", version |-> 1]

ReaderAccepts(header) == header.contentType = "UNKNOWN" \/ header.version = 1

-------------------------------------------------------------------------------
(* The stores.                                                               *)

ArchiveInit ==
  /\ Init
  /\ oneBlocks = {tip.number}
  /\ mergedFiles = {}

\* The next block of the chain, in a file of its own.
StoreOneBlock ==
  /\ Extend
  /\ oneBlocks' = oneBlocks \cup {tip'.number}
  /\ UNCHANGED mergedFiles

\* A bundle is merged once the chain has left it, and its one-block files go.
Bundle(base) == {n \in oneBlocks : n \div BundleSize = base \div BundleSize}

Merge(base) ==
  /\ base % BundleSize = 0
  /\ base + BundleSize <= tip.number
  /\ Bundle(base) # {}
  /\ mergedFiles' = mergedFiles \cup {[base |-> base, header |-> WriterHeader, numbers |-> Bundle(base)]}
  /\ oneBlocks' = oneBlocks \ Bundle(base)
  /\ UNCHANGED vars

ArchiveNext == StoreOneBlock \/ \E base \in 0 .. MaxHeight : Merge(base)

ArchiveSpec == ArchiveInit /\ [][ArchiveNext]_archiveVars

-------------------------------------------------------------------------------
(* The tools.                                                                *)

\* ID()[0:7] and PreviousID()[0:7] panic on a shorter id.
Printable(header) == Len(header.id) >= ShownDigits /\ Len(header.previousId) >= ShownDigits

Lines(numbers) == {BlockFromProto(BlockAt(n)) : n \in numbers}

\* What a command ends with: the numbers it printed, or how it failed.
Printed(numbers) ==
  IF \A header \in Lines(numbers) : Printable(header)
  THEN [result |-> "ok", shown |-> numbers]
  ELSE [result |-> "panic", shown |-> {}]

NotFound == [result |-> "not found", shown |-> {}]

OpenObject(base) ==
  {f \in mergedFiles : FileName(f.base) = FileName(base) /\ ReaderAccepts(f.header)}

printBlocksE(num) ==
  IF OpenObject(num) = {} THEN NotFound
  ELSE Printed((CHOOSE f \in OpenObject(num) : TRUE).numbers)

MergedBlockNum_Rounded(num) == ((num + BundleSize \div 2) \div BundleSize) * BundleSize

MergedBlockNum(num) == num - (num % BundleSize)

\* The whole file is read, for the one block.
printBlockE(num) ==
  LET files == OpenObject(MergedBlockNum(num))
  IN  IF files = {} THEN NotFound
      ELSE Printed((CHOOSE f \in files : TRUE).numbers \cap {num})

\* The files whose names the number's name is a prefix of. What is in them is never
\* printed: printBlock asserts that a Block is a Transaction.
Walk(num) == {n \in oneBlocks : HasPrefix(FileName(n), FileName(num))}

printOneBlockE(num) ==
  IF Walk(num) = {} THEN [result |-> "ok", shown |-> {}]
  ELSE [result |-> "panic", shown |-> {}]

\* The parent `check merged-blocks' prints: block.PreviousID() and, in 64 bits,
\* block.Number-1.
PreviousRef_Own(header) == [id |-> header.previousId, num |-> header.number]

PreviousRef(header) ==
  [id |-> header.previousId, num |-> (header.number - 1) % 256^IdBytes]

-------------------------------------------------------------------------------
(* Properties                                                                *)

\* `print block' shows every block that is in a merged file, and it alone, and `print
\* blocks' lists the bundle it is in, given the number of the file; except for block
\* zero, whose empty previous id neither can slice, and for which `print blocks' shows
\* nothing of its bundle. A block missing from a file goes unmentioned (blocks.go
\* 70-183, with the names the merger gives its files).
FindsArchivedBlocks ==
  \A num \in 0 .. MaxHeight :
    LET holding == {f \in mergedFiles : num \in f.numbers}
        printed == printBlockE(num)
    IN  /\ holding = {} => printed.shown = {} /\ printed.result # "panic"
        /\ \A f \in holding :
             /\ IF num = 0 THEN printed.result = "panic"
                ELSE printed = [result |-> "ok", shown |-> {num}]
             /\ IF 0 \in f.numbers THEN printBlocksE(f.base).result = "panic"
                ELSE printBlocksE(f.base) = [result |-> "ok", shown |-> f.numbers]

\* The prefix `print one-block' walks is that of the block's own file, and of no other
\* as long as numbers have fewer digits than names are padded to; from there on it is
\* also that of ten times as large numbers (blocks.go 185-240).
WalksItsOwnFile ==
  \A num \in 0 .. MaxHeight :
    /\ num \in oneBlocks => num \in Walk(num)
    /\ num < 10^(NameDigits - 1) => Walk(num) \subseteq {num}
    /\ \A n \in Walk(num) : n # num => n >= 10 * num

\* The stores: a number is in a one-block file until its bundle is merged behind the
\* tip, and in that bundle's file, the only one of its name, from then on.
StoresInv ==
  /\ tip.number \in 0 .. MaxHeight
  /\ oneBlocks \subseteq 0 .. tip.number
  /\ \A f \in mergedFiles :
       /\ f.base \in 0 .. MaxHeight /\ f.base % BundleSize = 0
       /\ f.base + BundleSize <= tip.number
       /\ f.header = WriterHeader
       /\ f.numbers \subseteq 0 .. MaxHeight
       /\ \A n \in f.numbers : n \div BundleSize = f.base \div BundleSize
       /\ \A n \in oneBlocks : n \div BundleSize # f.base \div BundleSize
       /\ \A g \in mergedFiles : g.base = f.base => g = f

\* The parent that `check merged-blocks' prints of a block leads back to it: given its
\* number, `print block' shows the block of the id printed, in this bundle or the one
\* before, if a file holds it (and fails as for any block if that is block zero). The
\* number of block zero's parent wraps, and leads to no block (check.go 77-84 with
\* blocks.go 125-183).
LeadsToParent ==
  \A f \in mergedFiles : \A n \in f.numbers :
    LET ref     == PreviousRef(BlockFromProto(BlockAt(n)))
        printed == printBlockE(ref.num)
        held    == \E g \in mergedFiles : n - 1 \in g.numbers
    IN  /\ n = 0 => printed.shown = {} /\ printed.result # "panic"
        /\ n = 1 /\ held => printed.result = "panic"
        /\ n > 1 /\ held => {header.id : header \in Lines(printed.shown)} = {ref.id}

===============================================================================
