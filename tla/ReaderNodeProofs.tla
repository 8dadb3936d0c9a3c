--------------------------- MODULE ReaderNodeProofs ---------------------------
(*****************************************************************************)
(* The resume position of the reader node, for every chain, channel capacity *)
(* and number of crashes: type correctness, the absence of holes in the      *)
(* store, the agreement of the superviser with sync_state.json, and the      *)
(* order in which the superviser sees the blocks.                            *)
(*****************************************************************************)
EXTENDS ReaderNode, TLAPS

\* The position read back from any file is a block number.
LEMMA ConvertedType ==
  ASSUME NEW state \in SyncState
  PROVE  Converted(state) \in Nat
BY DEF Converted, SyncState

LEMMA InitialBlockType ==
  ASSUME NEW content \in {Absent, Empty} \cup SyncState
  PROVE  InitialBlock(content) \in Nat
BY ConvertedType, FileAssumption, ReaderNodeAssumption DEF InitialBlock

\* The state of the reader node always has its types, and nothing in memory
\* outlives the process.
THEOREM TypeInvariant == Spec => []TypeOK
<1>1. Init => TypeOK
  <2> SUFFICES ASSUME Init
               PROVE  TypeOK
    OBVIOUS
  <2>1. file \in {Absent} \cup SyncState /\ store \subseteq Nat
    BY ReaderNodeAssumption DEF Init, SyncState
  <2>2. <<>> \in Seq(Nat) /\ Len(<<>>) <= ChanCap
    BY ReaderNodeAssumption
  <2> QED
    BY <2>1, <2>2 DEF Init, TypeOK
<1>2. TypeOK /\ [Next]_vars => TypeOK'
  <2> SUFFICES ASSUME TypeOK, [Next]_vars
               PROVE  TypeOK'
    OBVIOUS
  <2> USE DEF TypeOK
  <2>1. CASE StartProcess
    BY <2>1, InitialBlockType DEF StartProcess, Readable, disk
  <2>2. CASE StartNode
    BY <2>2 DEF StartNode, disk
  <2>3. CASE Produce
    BY <2>3, ReaderNodeAssumption DEF Produce, disk
  <2>4. CASE StopNode
    BY <2>4 DEF StopNode, disk
  <2>5. CASE StoreBlock
    <3>1. /\ Head(blocks) \in Nat /\ Tail(blocks) \in Seq(Nat)
          /\ Len(Tail(blocks)) = Len(blocks) - 1 /\ Len(blocks) \in Nat
      BY <2>5 DEF StoreBlock
    <3>2. blocks' \in Seq(Nat) /\ Len(blocks') <= ChanCap
      BY <2>5, <3>1, ReaderNodeAssumption DEF StoreBlock
    <3>3. store' \subseteq Nat /\ writing' \in Nat
      BY <2>5, <3>1 DEF StoreBlock
    <3> QED
      BY <2>5, <3>2, <3>3 DEF StoreBlock
  <2>6. CASE TruncateSyncState
    BY <2>6 DEF TruncateSyncState
  <2>7. CASE WriteSyncState
    BY <2>7 DEF WriteSyncState, StateOf, SyncState
  <2>8. CASE SetLastBlockSeen
    BY <2>8 DEF SetLastBlockSeen, disk
  <2>9. CASE Crash \/ FailWrite
    <3>1. LoseMemory /\ stops' = stops + 1 /\ store' = store
      BY <2>9 DEF Crash, FailWrite, disk
    <3>2. file' \in {file, Empty, Corrupt}
      BY <2>9 DEF Crash, FailWrite, disk
    <3>3. blocks' \in Seq(Nat) /\ Len(blocks') <= ChanCap
      BY <3>1, ReaderNodeAssumption DEF LoseMemory
    <3>4. stops' \in Nat /\ file' \in {Absent, Empty, Corrupt} \cup SyncState
      BY <3>1, <3>2
    <3> QED
      BY <3>1, <3>3, <3>4 DEF LoseMemory
  <2>10. CASE UNCHANGED vars
    BY <2>10 DEF vars, disk, memory
  <2> QED
    BY <2>1, <2>2, <2>3, <2>4, <2>5, <2>6, <2>7, <2>8, <2>9, <2>10 DEF Next, Plugin
<1> QED
  BY <1>1, <1>2, PTL DEF Spec

-------------------------------------------------------------------------------
(* No hole                                                                   *)

\* Storing a block that follows the store leaves no hole.
LEMMA StoreKeepsNoHole ==
  ASSUME TypeOK, NoHole, NEW num \in Nat, Follows(num, store)
  PROVE  \A n \in store \cup {num} : FirstStreamableBlock .. n \subseteq store \cup {num}
<1> SUFFICES ASSUME NEW k \in FirstStreamableBlock .. num, k # num
             PROVE  k \in store
  BY DEF NoHole
<1>1. k \in FirstStreamableBlock .. num - 1
  BY ReaderNodeAssumption
<1> QED
  BY <1>1, ReaderNodeAssumption DEF NoHole, Follows

\* Moving the head of the channel to the store changes nothing of what is ahead of
\* the others.
LEMMA StoreKeepsAhead ==
  ASSUME TypeOK, blocks # <<>>,
         blocks' = Tail(blocks), store' = store \cup {Head(blocks)},
         NEW i \in 1 .. Len(blocks) + 1, i > 1
  PROVE  Ahead(i - 1)' = Ahead(i)
<1>1. /\ Len(blocks) \in Nat /\ Head(blocks) = blocks[1]
      /\ \A j \in 1 .. Len(blocks) - 1 : blocks'[j] = blocks[j + 1]
  BY DEF TypeOK
<1>2. ASSUME NEW x
      PROVE  (\E j \in 1 .. i - 2 : x = blocks'[j]) <=> (\E j \in 2 .. i - 1 : x = blocks[j])
  <2>1. ASSUME NEW j \in 1 .. i - 2, x = blocks'[j]
        PROVE  j + 1 \in 2 .. i - 1 /\ x = blocks[j + 1]
    BY <1>1, <2>1
  <2>2. ASSUME NEW j \in 2 .. i - 1, x = blocks[j]
        PROVE  j - 1 \in 1 .. i - 2 /\ x = blocks'[j - 1]
    BY <1>1, <2>2
  <2> QED
    BY <2>1, <2>2
<1>3. ASSUME NEW x
      PROVE  x \in Ahead(i - 1)' <=> x \in Ahead(i)
  <2>1. x \in Ahead(i - 1)' <=> \/ x \in store \/ x = blocks[1]
                                \/ \E j \in 1 .. i - 2 : x = blocks'[j]
    BY <1>1 DEF Ahead
  <2>2. x \in Ahead(i) <=> \/ x \in store \/ x = blocks[1]
                           \/ \E j \in 2 .. i - 1 : x = blocks[j]
    BY <1>1 DEF Ahead
  <2> QED
    BY <1>2, <2>1, <2>2
<1> QED
  BY <1>3

\* The position a start reads back is resumable if the file's is.
LEMMA InitialBlockResumable ==
  ASSUME TypeOK, file # Corrupt, file \in SyncState => Resumable(Converted(file))
  PROVE  Resumable(InitialBlock(file))
<1>1. CASE file = Absent
  BY <1>1, ReaderNodeAssumption DEF InitialBlock, Resumable
<1>2. CASE file = Empty
  BY <1>2, FileAssumption, ReaderNodeAssumption DEF InitialBlock, Resumable
<1>3. CASE file \in SyncState
  BY <1>3, FileAssumption DEF InitialBlock
<1> QED
  BY <1>1, <1>2, <1>3 DEF TypeOK

\* ResumeInv holds of every reachable state.
THEOREM ResumeInvariant == Spec => []ResumeInv
<1>1. Init => ResumeInv
  <2> SUFFICES ASSUME Init
               PROVE  ResumeInv
    OBVIOUS
  <2>1. CASE file = Absent /\ store = {}
    BY <2>1, FileAssumption DEF Init, ResumeInv, NoHole
  <2>2. ASSUME NEW last \in FirstStreamableBlock .. MaxBlock,
               file = [BlockNum |-> 0, Version |-> last],
               store = FirstStreamableBlock .. last
        PROVE  ResumeInv
    <3>1. last \in Nat /\ last \in store
      BY <2>2, ReaderNodeAssumption
    <3>2. Converted(file) = last
      BY <2>2, <3>1 DEF Converted
    <3>3. NoHole
      BY <2>2, <3>1, ReaderNodeAssumption DEF NoHole
    <3> QED
      BY <3>1, <3>2, <3>3 DEF Init, ResumeInv, Resumable
  <2> QED
    BY <2>1, <2>2 DEF Init
<1>2. TypeOK /\ TypeOK' /\ ResumeInv /\ [Next]_vars => ResumeInv'
  <2> SUFFICES ASSUME TypeOK, TypeOK', ResumeInv, [Next]_vars
               PROVE  ResumeInv'
    OBVIOUS
  <2>1. CASE StartProcess
    <3>1. Resumable(lastBlockSeen)'
      BY <2>1, InitialBlockResumable DEF StartProcess, Readable, ResumeInv, Resumable, disk
    <3> QED
      BY <2>1, <3>1 DEF StartProcess, ResumeInv, NoHole, Resumable, Ahead, disk
  <2>2. CASE StartNode
    <3>1. Follows(nextBlock, Ahead(Len(blocks) + 1))'
      BY <2>2 DEF StartNode, ResumeInv, Resumable, Follows, Ahead, disk
    <3> QED
      BY <2>2, <3>1 DEF StartNode, ResumeInv, NoHole, Resumable, Ahead, disk
  <2>3. CASE Produce
    <3> DEFINE n == Len(blocks)
    <3>1. /\ nextBlock \in Nat /\ n \in Nat
          /\ blocks' = Append(blocks, nextBlock) /\ nextBlock' = nextBlock + 1
          /\ Len(blocks') = n + 1 /\ DOMAIN blocks' = 1 .. n + 1
          /\ blocks'[n + 1] = nextBlock
          /\ \A j \in 1 .. n : blocks'[j] = blocks[j]
          /\ UNCHANGED <<file, store, up, lastBlockSeen, writing, stage>>
      BY <2>3 DEF Produce, TypeOK, disk
    <3>2. \A i \in 1 .. n + 1 : Ahead(i)' = Ahead(i)
      BY <3>1 DEF Ahead
    <3>3. Follows(nextBlock, Ahead(n + 1))
      BY <2>3 DEF Produce, ResumeInv
    <3>4. ASSUME NEW i \in DOMAIN blocks'
          PROVE  Follows(blocks'[i], Ahead(i)')
      <4>1. CASE i = n + 1
        BY <3>1, <3>2, <3>3, <4>1
      <4>2. CASE i \in 1 .. n
        BY <3>1, <3>2, <4>2 DEF ResumeInv, TypeOK
      <4> QED
        BY <3>1, <4>1, <4>2
    <3>5. Follows(nextBlock, Ahead(Len(blocks) + 1))'
      <4>1. nextBlock \in Ahead(Len(blocks) + 1)'
        BY <3>1 DEF Ahead
      <4>2. nextBlock' - 1 = nextBlock
        BY <3>1
      <4> QED
        BY <4>1, <4>2 DEF Follows
    <3> QED
      BY <3>1, <3>4, <3>5 DEF ResumeInv, NoHole, Resumable, Ahead, Follows
  <2>4. CASE StopNode
    BY <2>4 DEF StopNode, ResumeInv, NoHole, Resumable, Ahead, disk
  <2>5. CASE StoreBlock
    <3> DEFINE n   == Len(blocks)
               num == Head(blocks)
    <3>1. /\ blocks # <<>> /\ n \in Nat /\ n >= 1 /\ num \in Nat /\ num = blocks[1]
          /\ blocks' = Tail(blocks) /\ store' = store \cup {num}
          /\ Len(blocks') = n - 1 /\ DOMAIN blocks' = 1 .. n - 1
          /\ \A j \in 1 .. n - 1 : blocks'[j] = blocks[j + 1]
          /\ writing' = num
          /\ UNCHANGED <<file, up, lastBlockSeen, nextBlock>>
      BY <2>5 DEF StoreBlock, TypeOK
    <3>2. Follows(num, store)
      <4>1. Ahead(1) = store
        BY DEF Ahead
      <4> QED
        BY <3>1, <4>1 DEF ResumeInv, TypeOK
    <3>3. NoHole'
      BY <3>1, <3>2, StoreKeepsNoHole DEF ResumeInv, NoHole
    <3>4. ASSUME NEW i \in DOMAIN blocks'
          PROVE  Follows(blocks'[i], Ahead(i)')
      <4>1. i + 1 \in 1 .. n /\ i + 1 > 1 /\ (i + 1) - 1 = i
        BY <3>1
      <4>2. Follows(blocks[i + 1], Ahead(i + 1))
        BY <3>1, <4>1 DEF ResumeInv, TypeOK
      <4>3. Ahead((i + 1) - 1)' = Ahead(i + 1)
        BY <3>1, <4>1, StoreKeepsAhead
      <4> QED
        BY <3>1, <4>1, <4>2, <4>3
    <3>5. ASSUME nextBlock # NoBlockNum
          PROVE  Follows(nextBlock, Ahead(Len(blocks) + 1))'
      <4>1. PICK m \in Nat : m = n
        BY <3>1
      <4>2. Follows(nextBlock, Ahead(m + 1))
        BY <3>5, <4>1 DEF ResumeInv
      <4>3. m + 1 \in 1 .. Len(blocks) + 1 /\ m + 1 > 1 /\ (m + 1) - 1 = m
        BY <3>1, <4>1
      <4>4. Ahead(m)' = Ahead(m + 1)
        BY <3>1, <4>3, StoreKeepsAhead
      <4>5. Len(blocks') + 1 = m
        BY <3>1, <4>1
      <4> QED
        BY <3>1, <4>2, <4>4, <4>5
    <3>6. /\ file \in SyncState => Resumable(Converted(file))'
          /\ up' => Resumable(lastBlockSeen)'
          /\ writing' \in store'
      BY <3>1 DEF ResumeInv, Resumable
    <3> QED
      BY <3>1, <3>3, <3>4, <3>5, <3>6 DEF ResumeInv
  <2>6. CASE TruncateSyncState
    BY <2>6, FileAssumption DEF TruncateSyncState, ResumeInv, NoHole, Resumable, Ahead
  <2>7. CASE WriteSyncState
    <3>1. writing \in store /\ writing \in Nat
      BY <2>7 DEF WriteSyncState, ResumeInv, TypeOK
    <3>2. Converted(file') = writing
      BY <2>7, <3>1 DEF WriteSyncState, StateOf, Converted
    <3> QED
      BY <2>7, <3>1, <3>2 DEF WriteSyncState, ResumeInv, NoHole, Resumable, Ahead
  <2>8. CASE SetLastBlockSeen
    BY <2>8 DEF SetLastBlockSeen, ResumeInv, NoHole, Resumable, Ahead, disk
  <2>9. CASE Crash \/ FailWrite
    <3>1. LoseMemory /\ store' = store /\ file' \in {file, Empty, Corrupt}
      BY <2>9 DEF Crash, FailWrite, disk
    <3> QED
      BY <3>1, FileAssumption DEF LoseMemory, ResumeInv, NoHole, Resumable, Ahead
  <2>10. CASE UNCHANGED vars
    BY <2>10 DEF vars, disk, memory, ResumeInv, NoHole, Resumable, Ahead
  <2> QED
    BY <2>1, <2>2, <2>3, <2>4, <2>5, <2>6, <2>7, <2>8, <2>9, <2>10 DEF Next, Plugin
<1> QED
  BY <1>1, <1>2, TypeInvariant, PTL DEF Spec

\* The store never has a hole, whatever the number of crashes and stops.
THEOREM NoHoleHolds == Spec => []NoHole
<1>1. ResumeInv => NoHole
  BY DEF ResumeInv
<1> QED
  BY <1>1, ResumeInvariant, PTL

-------------------------------------------------------------------------------
(* Memory and disk                                                           *)

\* The state of a block reads back as the block.
LEMMA StateOfReadsBack ==
  ASSUME NEW num \in Nat
  PROVE  /\ StateOf(num) \in SyncState
         /\ Converted(StateOf(num)) = num
         /\ InitialBlock(StateOf(num)) = num
         /\ StateOf(num) # Corrupt
<1>1. StateOf(num) \in SyncState
  BY DEF StateOf, SyncState
<1>2. Converted(StateOf(num)) = num
  BY DEF StateOf, Converted
<1> QED
  BY <1>1, <1>2, FileAssumption DEF InitialBlock

\* What keeps memory and disk in step: the file is as the start or the last callback
\* left it until the next callback truncates it.
StageInv ==
  /\ SyncStateIsStored
  /\ RestartsAgree
  /\ up => file # Corrupt
  /\ stage # "idle" => writing \in store
  /\ stage = "written" => file = StateOf(writing)

\* StageInv holds of every reachable state.
THEOREM StageInvariant == Spec => []StageInv
<1>1. Init => StageInv
  <2> SUFFICES ASSUME Init
               PROVE  StageInv
    OBVIOUS
  <2>1. SyncStateIsStored
    BY ReaderNodeAssumption, FileAssumption DEF Init, SyncStateIsStored, Converted
  <2> QED
    BY <2>1 DEF Init, StageInv, RestartsAgree
<1>2. TypeOK /\ TypeOK' /\ StageInv /\ [Next]_vars => StageInv'
  <2> SUFFICES ASSUME TypeOK, TypeOK', StageInv, [Next]_vars
               PROVE  StageInv'
    OBVIOUS
  <2> USE DEF StageInv, SyncStateIsStored, RestartsAgree
  <2>1. CASE StartProcess
    BY <2>1 DEF StartProcess, Readable, disk
  <2>2. CASE StartNode \/ Produce \/ StopNode
    BY <2>2 DEF StartNode, Produce, StopNode, disk
  <2>3. CASE StoreBlock
    BY <2>3 DEF StoreBlock
  <2>4. CASE TruncateSyncState
    BY <2>4, FileAssumption, ReaderNodeAssumption DEF TruncateSyncState, TypeOK
  <2>5. CASE WriteSyncState
    <3>1. writing \in Nat /\ writing \in store
      BY <2>5 DEF WriteSyncState, TypeOK
    <3> QED
      BY <2>5, <3>1, StateOfReadsBack DEF WriteSyncState
  <2>6. CASE SetLastBlockSeen
    <3>1. writing \in Nat /\ file = StateOf(writing)
      BY <2>6 DEF SetLastBlockSeen, TypeOK
    <3> QED
      BY <2>6, <3>1, StateOfReadsBack DEF SetLastBlockSeen, disk
  <2>7. CASE Crash \/ FailWrite
    <3>1. LoseMemory /\ store' = store /\ file' \in {file, Empty, Corrupt}
      BY <2>7 DEF Crash, FailWrite, disk
    <3> QED
      BY <3>1, FileAssumption DEF LoseMemory
  <2>8. CASE UNCHANGED vars
    BY <2>8 DEF vars, disk, memory
  <2> QED
    BY <2>1, <2>2, <2>3, <2>4, <2>5, <2>6, <2>7, <2>8 DEF Next, Plugin
<1> QED
  BY <1>1, <1>2, TypeInvariant, PTL DEF Spec

\* The file never names a block that was not stored.
THEOREM SyncStateIsStoredHolds == Spec => []SyncStateIsStored
<1>1. StageInv => SyncStateIsStored
  BY DEF StageInv
<1> QED
  BY <1>1, StageInvariant, PTL

\* Between callbacks, this process and the next one would resume at one block.
THEOREM RestartsAgreeHolds == Spec => []RestartsAgree
<1>1. StageInv => RestartsAgree
  BY DEF StageInv
<1> QED
  BY <1>1, StageInvariant, PTL

-------------------------------------------------------------------------------
(* The first streamable block                                                *)

\* Every position is at or past the first streamable block.
FloorInv ==
  /\ file \in SyncState => Converted(file) >= FirstStreamableBlock
  /\ up => lastBlockSeen >= FirstStreamableBlock
  /\ nextBlock # NoBlockNum => nextBlock >= FirstStreamableBlock
  /\ \A i \in DOMAIN blocks : blocks[i] >= FirstStreamableBlock
  /\ stage # "idle" => writing >= FirstStreamableBlock
  /\ \A n \in store : n >= FirstStreamableBlock

\* A start from anything but an empty file keeps the floor.
LEMMA InitialBlockFloor ==
  ASSUME TypeOK, FloorInv, file \notin {Empty, Corrupt}
  PROVE  InitialBlock(file) >= FirstStreamableBlock
BY FileAssumption, ReaderNodeAssumption DEF InitialBlock, TypeOK, FloorInv

\* Blocks before the first streamable one come from an empty file alone.
THEOREM ResetsOnlyWhenCutHolds == Spec => ResetsOnlyWhenCut
<1> DEFINE Whole    == up /\ stage = "idle" => file # Empty
           Floored  == \A n \in Ahead(Len(blocks) + 1) : n >= FirstStreamableBlock
<1>1. Init => FloorInv
  <2> SUFFICES ASSUME Init
               PROVE  FloorInv
    OBVIOUS
  <2>1. \A n \in store : n >= FirstStreamableBlock
    BY ReaderNodeAssumption DEF Init
  <2>2. file \in SyncState => Converted(file) >= FirstStreamableBlock
    BY ReaderNodeAssumption, FileAssumption DEF Init, Converted
  <2> QED
    BY <2>1, <2>2 DEF Init, FloorInv
<1>2. TypeOK /\ TypeOK' /\ FloorInv /\ Whole' /\ [Next]_vars => FloorInv'
  <2> SUFFICES ASSUME TypeOK, TypeOK', FloorInv, Whole', [Next]_vars
               PROVE  FloorInv'
    OBVIOUS
  <2>1. CASE StartProcess
    <3>1. file \notin {Empty, Corrupt}
      BY <2>1 DEF StartProcess, Readable, TypeOK, disk
    <3> QED
      BY <2>1, <3>1, InitialBlockFloor DEF StartProcess, FloorInv, disk
  <2>2. CASE StartNode \/ StopNode
    BY <2>2 DEF StartNode, StopNode, FloorInv, disk
  <2>3. CASE Produce
    BY <2>3, ReaderNodeAssumption DEF Produce, FloorInv, TypeOK, disk
  <2>4. CASE StoreBlock
    <3>1. /\ Head(blocks) = blocks[1] /\ 1 \in DOMAIN blocks
          /\ \A i \in DOMAIN Tail(blocks) :
               Tail(blocks)[i] = blocks[i + 1] /\ i + 1 \in DOMAIN blocks
      BY <2>4 DEF StoreBlock, TypeOK
    <3> QED
      BY <2>4, <3>1 DEF StoreBlock, FloorInv
  <2>5. CASE TruncateSyncState
    BY <2>5, FileAssumption DEF TruncateSyncState, FloorInv
  <2>6. CASE WriteSyncState
    <3>1. writing \in Nat
      BY <2>6 DEF WriteSyncState, TypeOK
    <3> QED
      BY <2>6, <3>1, StateOfReadsBack DEF WriteSyncState, FloorInv
  <2>7. CASE SetLastBlockSeen
    BY <2>7 DEF SetLastBlockSeen, FloorInv, disk
  <2>8. CASE Crash \/ FailWrite
    <3>1. LoseMemory /\ store' = store /\ file' \in {file, Empty, Corrupt}
      BY <2>8 DEF Crash, FailWrite, disk
    <3> QED
      BY <3>1, FileAssumption DEF LoseMemory, FloorInv
  <2>9. CASE UNCHANGED vars
    BY <2>9 DEF vars, disk, memory, FloorInv
  <2> QED
    BY <2>1, <2>2, <2>3, <2>4, <2>5, <2>6, <2>7, <2>8, <2>9 DEF Next, Plugin
<1>3. TypeOK /\ FloorInv => Floored
  BY DEF Ahead, FloorInv, TypeOK
<1> QED
  BY <1>1, <1>2, <1>3, TypeInvariant, PTL DEF Spec, ResetsOnlyWhenCut, NeverCut

-------------------------------------------------------------------------------
(* From the channel to the superviser, a step at a time: what ProducedIsSeen *)
(* rests on, short of fairness.                                              *)

\* The blocks printed and not yet seen by the superviser, in the order printed.
Pending == (IF stage = "idle" THEN <<>> ELSE <<writing>>) \o blocks

\* How many of its four steps the plugin's goroutine took for the first of them.
StepsTaken == CASE stage = "idle"      -> 0
                [] stage = "stored"    -> 1
                [] stage = "truncated" -> 2
                [] stage = "written"   -> 3

\* No step for any of them: one block more may be printed.
NoneSeen ==
  /\ Pending' \in {Pending, Append(Pending, nextBlock)}
  /\ lastBlockSeen' = lastBlockSeen
  /\ StepsTaken' = StepsTaken

\* One step for the first of them, the fourth of which shows it to the superviser.
FirstAdvances ==
  /\ Pending # <<>>
  /\ IF StepsTaken < 3
       THEN /\ Pending' = Pending
            /\ lastBlockSeen' = lastBlockSeen
            /\ StepsTaken' = StepsTaken + 1
       ELSE /\ Pending' = Tail(Pending)
            /\ lastBlockSeen' = Head(Pending)
            /\ StepsTaken' = 0

\* While the process runs, the superviser sees the blocks one by one in the order
\* aptos-node printed them, each after four steps of the plugin; no other step drops,
\* doubles or reorders one, or moves lastBlockSeen (node.go 206-226, reader-node.go
\* 97-107).
SeenInOrder ==
  [][up /\ up' => IF Plugin THEN FirstAdvances ELSE NoneSeen]_vars

\* The block at the head of the channel goes to the plugin's goroutine, the others
\* stay behind it.
LEMMA TakenFirst ==
  ASSUME TypeOK, blocks # <<>>
  PROVE  <<Head(blocks)>> \o Tail(blocks) = <<>> \o blocks
BY DEF TypeOK

\* SeenInOrder holds of every step of a behaviour.
THEOREM SeenInOrderHolds == Spec => SeenInOrder
<1> DEFINE InOrder == up /\ up' => IF Plugin THEN FirstAdvances ELSE NoneSeen
<1>1. TypeOK /\ [Next]_vars => [InOrder]_vars
  <2> SUFFICES ASSUME TypeOK, Next, up, up'
               PROVE  IF Plugin THEN FirstAdvances ELSE NoneSeen
    BY DEF vars
  <2>1. /\ <<>> \o blocks = blocks
        /\ stage # "idle" => /\ Pending # <<>>
                             /\ Head(Pending) = writing
                             /\ Tail(Pending) = blocks
    BY DEF Pending, TypeOK
  <2>2. CASE StoreBlock
    <3>1. Pending' = Pending
      BY <2>2, TakenFirst DEF StoreBlock, Pending
    <3>2. Pending # <<>>
      BY <2>1, <2>2 DEF StoreBlock, Pending
    <3> QED
      BY <2>2, <3>1, <3>2 DEF StoreBlock, Plugin, FirstAdvances, StepsTaken
  <2>3. CASE TruncateSyncState
    BY <2>1, <2>3 DEF TruncateSyncState, Plugin, FirstAdvances, StepsTaken, Pending
  <2>4. CASE WriteSyncState
    BY <2>1, <2>4 DEF WriteSyncState, Plugin, FirstAdvances, StepsTaken, Pending
  <2>5. CASE SetLastBlockSeen
    <3>1. Pending' = Tail(Pending)
      BY <2>1, <2>5 DEF SetLastBlockSeen, Pending
    <3> QED
      BY <2>1, <2>5, <3>1 DEF SetLastBlockSeen, Plugin, FirstAdvances, StepsTaken
  <2>6. CASE StartNode \/ StopNode
    <3>1. UNCHANGED <<blocks, writing, stage, lastBlockSeen>>
      BY <2>6 DEF StartNode, StopNode
    <3> QED
      BY <3>1 DEF Plugin, StoreBlock, TruncateSyncState, WriteSyncState,
                  SetLastBlockSeen, NoneSeen, StepsTaken, Pending
  <2>7. CASE Produce
    <3>1. /\ blocks' = Append(blocks, nextBlock) /\ nextBlock \in Nat
          /\ UNCHANGED <<writing, stage, lastBlockSeen>>
      BY <2>7 DEF Produce, TypeOK
    <3>2. Pending' = Append(Pending, nextBlock)
      BY <3>1 DEF Pending, TypeOK
    <3> QED
      BY <3>1, <3>2 DEF Plugin, StoreBlock, TruncateSyncState, WriteSyncState,
                        SetLastBlockSeen, NoneSeen, StepsTaken
  <2>8. CASE StartProcess
    BY <2>8 DEF StartProcess
  <2>9. CASE Crash \/ FailWrite
    BY <2>9 DEF Crash, FailWrite, LoseMemory
  <2> QED
    BY <2>2, <2>3, <2>4, <2>5, <2>6, <2>7, <2>8, <2>9 DEF Next, Plugin
<1> QED
  BY <1>1, TypeInvariant, PTL DEF Spec, SeenInOrder
===============================================================================
