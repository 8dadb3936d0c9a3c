----------------------------- MODULE HeaderChain -----------------------------
(*****************************************************************************)
(* The headers of consecutive blocks, as the merger, the relayer and the     *)
(* firehose receive them: they never see heights, only what BlockFromProto   *)
(* derives from them, and link blocks by id, parent id and last irreversible *)
(* block. aptos-node (external) prints one block per height, in order.       *)
(*****************************************************************************)
EXTENDS AptosBlock

CONSTANTS Starts,      \* the heights a stream may start at
          MaxHeight    \* the last height (model checking)

ASSUME HeaderChainAssumption ==
  /\ Starts \subseteq FirstStreamableBlock .. MaxHeight
  /\ MaxHeight \in Uint64

VARIABLES tip,     \* the last header of the stream
          parent   \* the one before it, NoBlock at the start

vars == <<tip, parent>>

\* A block of one metadata transaction.
BlockAt(height) ==
  [height |-> height, chainId |-> 0, timestamp |-> height,
   transactions |-> <<[version |-> height, type |-> "BLOCK_METADATA", timestamp |-> height]>>]

Init == \E h \in Starts : tip = BlockFromProto(BlockAt(h)) /\ parent = NoBlock

Extend ==
  /\ tip.number < MaxHeight
  /\ parent' = tip
  /\ tip' = BlockFromProto(BlockAt(tip.number + 1))

Next == Extend

Spec == Init /\ [][Next]_vars

-------------------------------------------------------------------------------

\* The chain the ids make is the chain the heights make: a block's parent id is
\* the id of the block before it, also where a byte of the height carries over
\* (extractor.go 15-37, 67-76).
ParentLinked ==
  parent # NoBlock => tip.previousId = parent.id /\ tip.number = parent.number + 1

\* Ids sort as the heights they encode, so no two blocks share one (67-76).
SortsBefore(id1, id2) ==
  \E d \in DOMAIN id1 : id1[d] < id2[d] /\ \A e \in 1 .. d - 1 : id1[e] = id2[e]

IdsSortAsHeights == parent # NoBlock => SortsBefore(parent.id, tip.id)

\* Irreversibility never points before the first block of the network, nor beyond
\* the parent unless there is none to point at (extractor.go 39-49).
LibWithinChain ==
  /\ tip.libNum \in FirstStreamableBlock .. tip.number
  /\ tip.number > FirstStreamableBlock => tip.libNum < tip.number

\* What is irreversible stays so: from one block to the next, the last irreversible
\* block advances by no more than to the block just left behind.
LibAdvances == [][tip'.libNum \in tip.libNum .. tip.number]_vars
===============================================================================
