----------------------------- MODULE ReaderNode ------------------------------
(*****************************************************************************)
(* Where the reader node resumes (cmd/fireaptos/cli/node.go, reader-node.go, *)
(* nodemanager/superviser.go). The supervised aptos-node prints blocks from  *)
(* STARTING_BLOCK on; the plugin's goroutine stores each one and then runs   *)
(* the OnBlockWritten callback, which writes sync_state.json and moves the   *)
(* superviser's lastBlockSeen; the next start of aptos-node, in this process *)
(* or in another one after a crash, resumes from it.                         *)
(*                                                                           *)
(* External, modelled from how this repository uses it: aptos-node, the      *)
(* plugin's channel of blocks and the order store, then callback; the one    *)
(* block store, whose writes are atomic; the operator, which may stop and    *)
(* start aptos-node again at any time, blocks of the previous one still in   *)
(* the channel. Abstracted: a block is its number.                           *)
(*****************************************************************************)
EXTENDS Integers, Sequences

CONSTANTS FirstStreamableBlock,  \* bstream.GetProtocolFirstStreamableBlock
          ChanCap,               \* reader-node-blocks-chan-capacity
          MaxBlock,              \* bound on the blocks produced (model checking)
          MaxStops,              \* bound on the crashes and stops (model checking)
          Absent, Empty, Corrupt, \* a sync_state.json that holds no state
          NoBlockNum             \* no block, or no aptos-node running

ASSUME ReaderNodeAssumption ==
  /\ FirstStreamableBlock \in Nat
  /\ ChanCap \in Nat \ {0}
  /\ NoBlockNum \notin Nat

\* readerNodeSyncState; Version is the deprecated `last_seen_version'.
SyncState == [BlockNum : Nat, Version : Nat]

ASSUME FileAssumption ==
  /\ {Absent, Empty, Corrupt} \cap SyncState = {}
  /\ Empty \notin {Absent, Corrupt}
  /\ Absent # Corrupt

VARIABLES
  file,          \* sync_state.json, on disk
  store,         \* the one block store: the numbers of the blocks in it
  up,            \* this process runs
  lastBlockSeen, \* the superviser's
  nextBlock,     \* what aptos-node prints next, NoBlockNum when it does not run
  blocks,        \* the plugin's channel
  writing,       \* the block the plugin's goroutine is at, or NoBlockNum
  stage,         \* and how far: "idle", "stored", "truncated", "written"
  stops          \* crashes and stops so far

disk   == <<file, store>>
memory == <<up, lastBlockSeen, nextBlock, blocks, writing, stage>>
vars   == <<disk, memory, stops>>

-------------------------------------------------------------------------------
(* readNodeSyncState and the start of the process.                           *)

\* An upgraded node may find a file with the deprecated field alone.
Converted(state) ==
  IF state.Version # 0 /\ state.BlockNum = 0 THEN state.Version ELSE state.BlockNum

\* A faulty variant, which a run must tell from InitialBlock (as every definition
\* named after another one and a mistake).
InitialBlock_NoDefault(content) ==
  CASE content = Absent -> NoBlockNum
    [] content = Empty  -> 0
    [] content \notin {Absent, Empty} -> Converted(content)

InitialBlock_Zero(content) ==
  CASE content \in {Absent, Empty} -> 0
    [] content \notin {Absent, Empty} -> Converted(content)

\* The block the superviser is created with: the first streamable one when there
\* is no file, but zero when the file is empty.
InitialBlock(content) ==
  CASE content = Absent -> FirstStreamableBlock
    [] content = Empty  -> 0
    [] content \notin {Absent, Empty} -> Converted(content)

\* A file that is no JSON makes nodeFactoryFunc fail: the process never starts.
Readable(content) == content # Corrupt

StartProcess ==
  /\ ~up
  /\ Readable(file)
  /\ up' = TRUE
  /\ lastBlockSeen' = InitialBlock(file)
  /\ UNCHANGED <<disk, nextBlock, blocks, writing, stage, stops>>

-------------------------------------------------------------------------------
(* The superviser and the supervised aptos-node.                             *)

\* Superviser.Start: STARTING_BLOCK is lastBlockSeen as it is now.
StartNode_AfterLastSeen ==
  /\ up /\ nextBlock = NoBlockNum
  /\ nextBlock' = lastBlockSeen + 1
  /\ UNCHANGED <<disk, up, lastBlockSeen, blocks, writing, stage, stops>>

StartNode ==
  /\ up /\ nextBlock = NoBlockNum
  /\ nextBlock' = lastBlockSeen
  /\ UNCHANGED <<disk, up, lastBlockSeen, blocks, writing, stage, stops>>

Produce ==
  /\ up /\ nextBlock # NoBlockNum
  /\ nextBlock <= MaxBlock
  /\ Len(blocks) < ChanCap
  /\ blocks' = Append(blocks, nextBlock)
  /\ nextBlock' = nextBlock + 1
  /\ UNCHANGED <<disk, up, lastBlockSeen, writing, stage, stops>>

StopNode ==
  /\ up /\ nextBlock # NoBlockNum
  /\ stops < MaxStops
  /\ nextBlock' = NoBlockNum
  /\ stops' = stops + 1
  /\ UNCHANGED <<disk, up, lastBlockSeen, blocks, writing, stage>>

-------------------------------------------------------------------------------
(* The plugin's goroutine: store, then the OnBlockWritten callback.          *)

StoreBlock ==
  /\ up /\ stage = "idle" /\ blocks # <<>>
  /\ writing' = Head(blocks)
  /\ blocks' = Tail(blocks)
  /\ store' = store \cup {Head(blocks)}
  /\ stage' = "stored"
  /\ UNCHANGED <<file, up, lastBlockSeen, nextBlock, stops>>

\* os.WriteFile truncates the file it opens, then writes.
TruncateSyncState ==
  /\ up /\ stage = "stored"
  /\ file' = Empty
  /\ stage' = "truncated"
  /\ UNCHANGED <<store, up, lastBlockSeen, nextBlock, blocks, writing, stops>>

StateOf_Next(num) == [BlockNum |-> num + 1, Version |-> 0]
StateOf(num) == [BlockNum |-> num, Version |-> 0]

WriteSyncState ==
  /\ up /\ stage = "truncated"
  /\ file' = StateOf(writing)
  /\ stage' = "written"
  /\ UNCHANGED <<store, up, lastBlockSeen, nextBlock, blocks, writing, stops>>

SetLastBlockSeen_Forgotten ==
  /\ up /\ stage = "written"
  /\ writing' = NoBlockNum
  /\ stage' = "idle"
  /\ UNCHANGED <<disk, up, lastBlockSeen, nextBlock, blocks, stops>>

SetLastBlockSeen_Stuck ==
  /\ up /\ stage = "written"
  /\ lastBlockSeen' = writing
  /\ UNCHANGED <<disk, up, nextBlock, blocks, writing, stage, stops>>

\* superviser.SetLastBlockSeen ends the callback.
SetLastBlockSeen ==
  /\ up /\ stage = "written"
  /\ lastBlockSeen' = writing
  /\ writing' = NoBlockNum
  /\ stage' = "idle"
  /\ UNCHANGED <<disk, up, nextBlock, blocks, stops>>

-------------------------------------------------------------------------------
(* The end of the process: everything but the disk is gone.                  *)

LoseMemory ==
  /\ up' = FALSE
  /\ lastBlockSeen' = 0
  /\ nextBlock' = NoBlockNum
  /\ blocks' = <<>>
  /\ writing' = NoBlockNum
  /\ stage' = "idle"

\* At any point, a shutdown included.
Crash ==
  /\ up
  /\ stops < MaxStops
  /\ stops' = stops + 1
  /\ LoseMemory
  /\ UNCHANGED disk

\* The file cannot be opened, or what is written of it is cut short: the callback
\* returns the error and the plugin shuts the operator down.
FailWrite ==
  /\ up
  /\ stops < MaxStops
  /\ stops' = stops + 1
  /\ \/ stage = "stored" /\ UNCHANGED file
     \/ stage = "truncated" /\ file' \in {Empty, Corrupt}
  /\ LoseMemory
  /\ UNCHANGED store

-------------------------------------------------------------------------------

\* A new installation, or one upgraded from a version that stored up to `last' and
\* wrote the deprecated field.
Init ==
  /\ \/ file = Absent /\ store = {}
     \/ \E last \in FirstStreamableBlock .. MaxBlock :
          /\ file = [BlockNum |-> 0, Version |-> last]
          /\ store = FirstStreamableBlock .. last
  /\ up = FALSE /\ lastBlockSeen = 0 /\ nextBlock = NoBlockNum
  /\ blocks = <<>> /\ writing = NoBlockNum /\ stage = "idle"
  /\ stops = 0

Plugin == StoreBlock \/ TruncateSyncState \/ WriteSyncState \/ SetLastBlockSeen

Next == \/ StartProcess \/ StartNode \/ Produce \/ StopNode
        \/ Plugin \/ Crash \/ FailWrite

Spec == Init /\ [][Next]_vars

\* The plugin's goroutine runs. Nothing is assumed of aptos-node, which may print
\* nothing more, nor of whoever starts the process again.
FairSpec == Spec /\ WF_vars(Plugin)

-------------------------------------------------------------------------------
(* Properties                                                                *)

TypeOK ==
  /\ file \in {Absent, Empty, Corrupt} \cup SyncState
  /\ store \subseteq Nat
  /\ up \in BOOLEAN
  /\ lastBlockSeen \in Nat
  /\ nextBlock \in Nat \cup {NoBlockNum}
  /\ blocks \in Seq(Nat) /\ Len(blocks) <= ChanCap
  /\ stage \in {"idle", "stored", "truncated", "written"}
  /\ writing \in Nat \cup {NoBlockNum}
  /\ stage # "idle" => writing \in Nat
  /\ stops \in Nat
  /\ ~up => nextBlock = NoBlockNum /\ blocks = <<>> /\ stage = "idle"

\* However often aptos-node or the process stops, and wherever it does, the store
\* holds every block from the first streamable one to any block in it: resuming
\* never skips a block (node.go 138-163, superviser.go 70-78, reader-node.go 97-107).
NoHole == \A n \in store : FirstStreamableBlock .. n \subseteq store

\* sync_state.json never gets ahead of the store: the block it names was stored
\* before, also when it names it by the deprecated field (reader-node.go 100-145).
SyncStateIsStored == file \in SyncState => Converted(file) \in store

\* Outside the callback, the block at which aptos-node would be started again is
\* the block at which another process would start it (node.go 138-163 against
\* reader-node.go 97-107).
RestartsAgree == up /\ stage \in {"idle", "stored"} => InitialBlock(file) = lastBlockSeen

\* What keeps NoHole true: every position one resumes from is in the store, or
\* not past the first streamable block; and every block on its way to the store
\* is there already, or follows one that is or that is ahead of it.
Resumable(num) == num <= FirstStreamableBlock \/ num \in store

Ahead(i) == store \cup {blocks[j] : j \in 1 .. i - 1}

Follows(num, nums) ==
  num <= FirstStreamableBlock \/ num \in nums \/ num - 1 \in nums

ResumeInv ==
  /\ NoHole
  /\ file \in SyncState => Resumable(Converted(file))
  /\ up => Resumable(lastBlockSeen)
  /\ stage # "idle" => writing \in store
  /\ \A i \in DOMAIN blocks : Follows(blocks[i], Ahead(i))
  /\ nextBlock # NoBlockNum => Follows(nextBlock, Ahead(Len(blocks) + 1))

\* No start of this process found the file empty.
NeverCut == [](up /\ stage = "idle" => file # Empty)

\* Nothing before the first streamable block is printed or stored, unless a start
\* found sync_state.json empty: that alone resets the node to block zero, which a
\* first start, a stop or a crash elsewhere never does (node.go 138-148,
\* reader-node.go 127-130).
ResetsOnlyWhenCut ==
  NeverCut => [](\A n \in Ahead(Len(blocks) + 1) : n >= FirstStreamableBlock)

\* A block that reached the channel is stored and its callback run to the end,
\* unless the process stops first (node.go 206-226, reader-node.go 97-107).
ProducedIsSeen ==
  \A n \in 0 .. MaxBlock :
    (\E i \in DOMAIN blocks : blocks[i] = n) ~> (n \in store /\ lastBlockSeen = n) \/ ~up
===============================================================================
