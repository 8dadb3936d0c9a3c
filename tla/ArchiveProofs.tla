---------------------------- MODULE ArchiveProofs -----------------------------
(*****************************************************************************)
(* The links between consecutive headers and the order of their ids; the     *)
(* chain behind the archives is that of HeaderChain.tla; what the tools find *)
(* in the stores and what `check merged-blocks' prints of a block's parent:  *)
(* for heights, bundles and names of any width and any first streamable      *)
(* block.                                                                    *)
(*****************************************************************************)
EXTENDS Archive, DataLemmas, TLAPS

-------------------------------------------------------------------------------
(* The headers.                                                              *)

\* Both headers are those of their heights.
ChainInv ==
  \E h \in FirstStreamableBlock .. MaxHeight :
    /\ tip = BlockFromProto(BlockAt(h))
    /\ parent # NoBlock => /\ h > FirstStreamableBlock
                           /\ parent = BlockFromProto(BlockAt(h - 1))

\* The fields of the header of a height.
LEMMA HeaderAt ==
  ASSUME NEW h \in Nat
  PROVE  LET blk == BlockFromProto(BlockAt(h))
         IN  /\ blk.number = h
             /\ blk.id = Uint64ToID(h)
             /\ blk.previousId = IF h = 0 THEN EmptyID ELSE Uint64ToID(h - 1)
             /\ blk.libNum = IF h <= FirstStreamableBlock THEN h ELSE h - 1
BY DEF BlockFromProto, BlockAt, ID, PreviousID, PreviousNum, LIBNum

LEMMA HeightType == FirstStreamableBlock \in Nat /\ MaxHeight \in Nat
BY AptosBlockAssumption, HeaderChainAssumption DEF Uint64

\* ChainInv holds of every reachable state.
THEOREM ChainInvariant == Spec => []ChainInv
<1>1. Init => ChainInv
  BY HeaderChainAssumption DEF Init, ChainInv
<1>2. ChainInv /\ [Next]_vars => ChainInv'
  <2> SUFFICES ASSUME ChainInv, [Next]_vars
               PROVE  ChainInv'
    OBVIOUS
  <2>1. CASE Extend
    <3>1. PICK h \in FirstStreamableBlock .. MaxHeight : tip = BlockFromProto(BlockAt(h))
      BY DEF ChainInv
    <3>2. h \in Nat /\ tip.number = h
      BY <3>1, HeightType, HeaderAt
    <3>3. h + 1 \in FirstStreamableBlock .. MaxHeight /\ h + 1 > FirstStreamableBlock
          /\ (h + 1) - 1 = h
      BY <2>1, <3>1, <3>2, HeightType DEF Extend
    <3>4. tip' = BlockFromProto(BlockAt(h + 1)) /\ parent' = BlockFromProto(BlockAt((h + 1) - 1))
      BY <2>1, <3>1, <3>2, <3>3 DEF Extend
    <3> QED
      BY <3>3, <3>4 DEF ChainInv
  <2>2. CASE UNCHANGED vars
    BY <2>2 DEF ChainInv, vars
  <2> QED
    BY <2>1, <2>2 DEF Next
<1> QED
  BY <1>1, <1>2, PTL DEF Spec

\* Consecutive headers link by their ids.
THEOREM ParentLinkedHolds == Spec => []ParentLinked
<1>1. ChainInv => ParentLinked
  <2> SUFFICES ASSUME ChainInv, parent # NoBlock
               PROVE  tip.previousId = parent.id /\ tip.number = parent.number + 1
    BY DEF ParentLinked
  <2>1. PICK h \in FirstStreamableBlock .. MaxHeight :
          /\ tip = BlockFromProto(BlockAt(h))
          /\ h > FirstStreamableBlock
          /\ parent = BlockFromProto(BlockAt(h - 1))
    BY DEF ChainInv
  <2>2. h \in Nat /\ h - 1 \in Nat /\ h # 0 /\ (h - 1) + 1 = h
    BY <2>1, HeightType
  <2>3. tip.previousId = Uint64ToID(h - 1) /\ tip.number = h
    BY <2>1, <2>2, HeaderAt
  <2>4. parent.id = Uint64ToID(h - 1) /\ parent.number = h - 1
    BY <2>1, <2>2, HeaderAt
  <2> QED
    BY <2>2, <2>3, <2>4
<1> QED
  BY <1>1, ChainInvariant, PTL

\* The last irreversible block of a header is a block of the stream.
THEOREM LibWithinChainHolds == Spec => []LibWithinChain
<1>1. ChainInv => LibWithinChain
  <2> SUFFICES ASSUME NEW h \in FirstStreamableBlock .. MaxHeight,
                      tip = BlockFromProto(BlockAt(h))
               PROVE  LibWithinChain
    BY DEF ChainInv
  <2>1. h \in Nat
    BY HeightType
  <2> QED
    BY <2>1, HeightType, HeaderAt DEF LibWithinChain
<1> QED
  BY <1>1, ChainInvariant, PTL

\* Irreversibility never goes back.
THEOREM LibAdvancesHolds == Spec => LibAdvances
<1>1. ChainInv /\ [Next]_vars => [tip'.libNum \in tip.libNum .. tip.number]_vars
  <2> SUFFICES ASSUME ChainInv, Extend
               PROVE  tip'.libNum \in tip.libNum .. tip.number
    BY DEF Next
  <2>1. PICK h \in FirstStreamableBlock .. MaxHeight : tip = BlockFromProto(BlockAt(h))
    BY DEF ChainInv
  <2>2. h \in Nat /\ h + 1 \in Nat
    BY HeightType
  <2>3. /\ tip.number = h
        /\ tip.libNum = IF h <= FirstStreamableBlock THEN h ELSE h - 1
    BY <2>1, <2>2, HeaderAt
  <2>4. tip' = BlockFromProto(BlockAt(h + 1))
    BY <2>3 DEF Extend
  <2>5. tip'.libNum = IF h + 1 <= FirstStreamableBlock THEN h + 1 ELSE h
    BY <2>2, <2>4, HeaderAt
  <2>6. h >= FirstStreamableBlock
    BY <2>1, HeightType
  <2> QED
    BY <2>2, <2>3, <2>5, <2>6, HeightType
<1> QED
  BY <1>1, ChainInvariant, PTL DEF Spec, LibAdvances

-------------------------------------------------------------------------------
(* The order of ids                                                          *)

\* The weights of the bytes of a height are positive.
LEMMA Weights ==
  /\ \A i \in 0 .. IdBytes : 256^i \in Nat \ {0}
  /\ \A i \in 1 .. IdBytes : 256^i = 256 * 256^(i - 1)
  /\ 256^0 = 1
<1>1. 256 \in {16, 256} /\ 256 \in Nat \ {0} /\ IdBytes \in Nat
  BY AptosBlockAssumption
<1>2. 256^0 = 1 /\ \A i \in 1 .. IdBytes : 256^i = 256 * 256^(i - 1)
  BY <1>1, WeightAssumption
<1> QED
  BY <1>1, <1>2, PowersPositive

\* Ids of one width sort as the heights they encode: up to the highest byte in which
\* two heights differ all their bytes agree, and there the lower height has the lower
\* byte, and of its two digits the first that differs is lower as well.
LEMMA IdsSort ==
  ASSUME NEW g \in Uint64, NEW h \in Uint64, g < h
  PROVE  SortsBefore(Uint64ToID(g), Uint64ToID(h))
<1> DEFINE N       == IdBytes
           W(i)    == 256^i
           Q(x, i) == x \div W(N - i)
           byte(x, i) == Uint64ToHash(x)[i]
           digit(x, d) == Uint64ToID(x)[d]
<1>1. N \in Nat \ {0} /\ g \in Nat /\ h \in Nat
  BY AptosBlockAssumption DEF Uint64
<1>2. /\ \A i \in 0 .. N : W(i) \in Nat \ {0}
      /\ \A i \in 1 .. N : W(i) = 256 * W(i - 1)
      /\ W(0) = 1
      /\ g < W(N) /\ h < W(N)
  <2>1. 256^N \in Nat /\ g < 256^N /\ h < 256^N
    BY <1>1, Weights DEF Uint64
  <2> QED
    BY <2>1, Weights
<1>3. \A x \in Nat : \A i \in 1 .. N : byte(x, i) = Q(x, i) % 256
  BY DEF Uint64ToHash
<1>4. \A x \in Nat : \A d \in 1 .. 2 * N :
        digit(x, d) = IF d % 2 = 1 THEN byte(x, (d + 1) \div 2) \div 16
                                   ELSE byte(x, (d + 1) \div 2) % 16
  BY DEF Uint64ToID
<1> HIDE DEF W, byte, digit
<1>5. ASSUME NEW x \in Nat, NEW i \in 1 .. N
      PROVE  Q(x, i - 1) = Q(x, i) \div 256
  <2>1. N - i \in 0 .. N /\ N - (i - 1) \in 1 .. N /\ (N - (i - 1)) - 1 = N - i
    BY <1>1
  <2>2. W(N - (i - 1)) = 256 * W(N - i) /\ W(N - i) \in Nat \ {0}
    BY <1>2, <2>1
  <2> QED
    BY <2>2, DivOfDiv
<1>6. \A x \in Nat : \A i \in 0 .. N : Q(x, i) \in Nat
  <2>1. \A i \in 0 .. N : N - i \in 0 .. N
    BY <1>1
  <2>2. \A x \in Nat : \A w \in Nat \ {0} : x \div w \in Nat
    OBVIOUS
  <2> QED
    BY <1>2, <2>1, <2>2
<1>7. \A i \in 0 .. N : Q(g, i) <= Q(h, i)
  <2>1. \A i \in 0 .. N : N - i \in 0 .. N
    BY <1>1
  <2>2. ASSUME NEW i \in 0 .. N
        PROVE  Q(g, i) <= Q(h, i)
    <3>1. W(N - i) \in Nat \ {0} /\ g <= h
      BY <1>1, <1>2, <2>1
    <3> QED
      BY <1>1, <3>1, DivMonotonic
  <2> QED
    BY <2>2
<1>8. Q(g, 0) = Q(h, 0) /\ Q(g, N) # Q(h, N)
  <2>1. \A w \in Nat \ {0} : g < w /\ h < w => g \div w = 0 /\ h \div w = 0
    BY <1>1
  <2>2. N - 0 = N /\ N - N = 0 /\ N \in 0 .. N
    BY <1>1
  <2>3. Q(g, 0) = 0 /\ Q(h, 0) = 0
    BY <1>2, <2>1, <2>2
  <2>4. \A x \in Nat : x \div 1 = x
    OBVIOUS
  <2>5. Q(g, N) = g /\ Q(h, N) = h
    BY <1>1, <1>2, <2>2, <2>4
  <2> QED
    BY <1>1, <2>3, <2>5
<1>9. PICK m \in 1 .. N : /\ Q(g, m) # Q(h, m)
                          /\ \A i \in 0 .. m - 1 : Q(g, i) = Q(h, i)
  <2> DEFINE differ == {i \in 0 .. N : Q(g, i) # Q(h, i)}
  <2>1. N \in differ
    BY <1>1, <1>8
  <2>2. differ \in SUBSET Nat /\ differ # {}
    BY <1>1, <2>1
  <2>3. PICK m \in differ : \A k \in differ : m <= k
    <3> HIDE DEF differ
    <3> QED
      BY <2>2, LeastElement
  <2>4. m \in 1 .. N
    BY <1>1, <1>8
  <2>5. \A i \in 0 .. m - 1 : i \in 0 .. N /\ ~(m <= i)
    BY <1>1, <2>4
  <2>6. \A i \in 0 .. m - 1 : Q(g, i) = Q(h, i)
    BY <2>3, <2>5
  <2> QED
    BY <2>4, <2>6
<1>10. byte(g, m) < byte(h, m) /\ \A i \in 1 .. m - 1 : byte(g, i) = byte(h, i)
  <2>1. m \in 0 .. N /\ m - 1 \in 0 .. m - 1
    BY <1>1
  <2>2. Q(g, m) \in Nat /\ Q(h, m) \in Nat /\ Q(g, m) < Q(h, m)
    BY <1>6, <1>7, <1>9, <1>1, <2>1
  <2>3. Q(g, m) \div 256 = Q(h, m) \div 256
    BY <1>1, <1>5, <1>9, <2>1
  <2>4. byte(g, m) = Q(g, m) % 256 /\ byte(h, m) = Q(h, m) % 256
    BY <1>1, <1>3
  <2> HIDE DEF Q
  <2>5. Q(g, m) % 256 < Q(h, m) % 256
    BY <2>2, <2>3, DigitGrows
  <2>6. \A i \in 1 .. m - 1 : i \in 1 .. N /\ i \in 0 .. m - 1
    BY <1>1
  <2>7. \A i \in 1 .. m - 1 : byte(g, i) = byte(h, i)
    BY <1>1, <1>3, <1>9, <2>6
  <2> QED
    BY <2>4, <2>5, <2>7
<1>11. byte(g, m) \in Nat /\ byte(h, m) \in Nat
  <2>1. m \in 0 .. N
    BY <1>1
  <2>2. Q(g, m) \in Nat /\ Q(h, m) \in Nat
    BY <1>1, <1>6, <2>1
  <2>3. byte(g, m) = Q(g, m) % 256 /\ byte(h, m) = Q(h, m) % 256
    BY <1>1, <1>3
  <2> HIDE DEF Q
  <2> QED
    BY <2>2, <2>3
<1> HIDE DEF Q, N
<1>12. \A e \in 1 .. 2 * m - 2 : digit(g, e) = digit(h, e)
  <2> SUFFICES ASSUME NEW e \in 1 .. 2 * m - 2
               PROVE  digit(g, e) = digit(h, e)
    OBVIOUS
  <2>1. e \in 1 .. 2 * N /\ (e + 1) \div 2 \in 1 .. m - 1
    BY <1>1
  <2> QED
    BY <1>1, <1>4, <1>10, <2>1
<1>13. /\ 2 * m - 1 \in 1 .. 2 * N /\ 2 * m \in 1 .. 2 * N
       /\ digit(g, 2 * m - 1) = byte(g, m) \div 16 /\ digit(g, 2 * m) = byte(g, m) % 16
       /\ digit(h, 2 * m - 1) = byte(h, m) \div 16 /\ digit(h, 2 * m) = byte(h, m) % 16
  <2>1. /\ 2 * m - 1 \in 1 .. 2 * N /\ 2 * m \in 1 .. 2 * N
        /\ (2 * m - 1) % 2 = 1 /\ (2 * m) % 2 = 0
        /\ ((2 * m - 1) + 1) \div 2 = m /\ (2 * m + 1) \div 2 = m
    BY <1>1
  <2> QED
    BY <1>1, <1>4, <2>1
<1>14. DOMAIN Uint64ToID(g) = 1 .. 2 * N
  BY DEF Uint64ToID, N
<1>15. CASE byte(g, m) \div 16 < byte(h, m) \div 16
  <2>1. \A e \in 1 .. (2 * m - 1) - 1 : e \in 1 .. 2 * m - 2
    OBVIOUS
  <2>2. digit(g, 2 * m - 1) < digit(h, 2 * m - 1)
        /\ \A e \in 1 .. (2 * m - 1) - 1 : digit(g, e) = digit(h, e)
    BY <1>12, <1>13, <1>15, <2>1
  <2> QED
    BY <1>13, <1>14, <2>2 DEF SortsBefore, digit
<1>16. CASE ~(byte(g, m) \div 16 < byte(h, m) \div 16)
  <2>1. byte(g, m) \div 16 = byte(h, m) \div 16 /\ byte(g, m) % 16 < byte(h, m) % 16
    BY <1>10, <1>11, <1>16
  <2>2. \A e \in 1 .. 2 * m - 1 : e \in 1 .. 2 * m - 2 \/ e = 2 * m - 1
    OBVIOUS
  <2>3. digit(g, 2 * m) < digit(h, 2 * m) /\ \A e \in 1 .. 2 * m - 1 : digit(g, e) = digit(h, e)
    BY <1>12, <1>13, <2>1, <2>2
  <2> QED
    BY <1>13, <1>14, <2>3 DEF SortsBefore, digit
<1> QED
  BY <1>15, <1>16

\* The id of a block sorts after its parent's, at every height.
THEOREM IdsSortAsHeightsHolds == Spec => []IdsSortAsHeights
<1>1. ChainInv => IdsSortAsHeights
  <2> SUFFICES ASSUME ChainInv, parent # NoBlock
               PROVE  SortsBefore(parent.id, tip.id)
    BY DEF IdsSortAsHeights
  <2>1. PICK h \in FirstStreamableBlock .. MaxHeight :
          /\ tip = BlockFromProto(BlockAt(h))
          /\ h > FirstStreamableBlock
          /\ parent = BlockFromProto(BlockAt(h - 1))
    BY DEF ChainInv
  <2>2. h \in Nat /\ h - 1 \in Nat /\ h - 1 < h /\ h <= MaxHeight
    BY <2>1, HeightType
  <2>3. tip.id = Uint64ToID(h) /\ parent.id = Uint64ToID(h - 1)
    BY <2>1, <2>2, HeaderAt
  <2>4. h \in Uint64 /\ h - 1 \in Uint64
    BY <2>2, HeaderChainAssumption, Weights, AptosBlockAssumption DEF Uint64
  <2> QED
    BY <2>2, <2>3, <2>4, IdsSort
<1> QED
  BY <1>1, ChainInvariant, PTL

-------------------------------------------------------------------------------
(* The archives.                                                             *)

\* A merge leaves the chain alone.
THEOREM ArchiveFollowsChain == ArchiveSpec => Spec
<1>1. ArchiveInit => Init
  BY DEF ArchiveInit
<1>2. [ArchiveNext]_archiveVars => [Next]_vars
  BY DEF ArchiveNext, StoreOneBlock, Merge, Next, archiveVars
<1> QED
  BY <1>1, <1>2, PTL DEF ArchiveSpec, Spec

\* Subtraction in a word.
LEMMA WordSubtraction ==
  ASSUME NEW w \in Nat \ {0}
  PROVE  /\ (0 - 1) % w = w - 1
         /\ \A n \in 1 .. w - 1 : (n - 1) % w = n - 1
OBVIOUS

\* There are heights, and the chain ends at one.
LEMMA WordType == 256^IdBytes \in Nat \ {0} /\ MaxHeight \in 0 .. 256^IdBytes - 1
BY Weights, AptosBlockAssumption, HeaderChainAssumption DEF Uint64

-------------------------------------------------------------------------------
(* The stores                                                                *)

\* Numbers a bundle apart are in different bundles.
LEMMA NextBundle ==
  ASSUME NEW w \in Nat \ {0}, NEW base \in Nat, NEW n \in Nat, base + w <= n
  PROVE  n \div w # base \div w
<1>1. (base + w) \div w = base \div w + 1
  OBVIOUS
<1>2. (base + w) \div w <= n \div w
  BY DivMonotonic
<1>3. base \div w \in Nat /\ n \div w \in Nat
  OBVIOUS
<1> QED
  BY <1>1, <1>2, <1>3

\* The sizes are numbers, and positive.
LEMMA SizeTypes ==
  /\ MaxHeight \in Nat
  /\ BundleSize \in Nat \ {0} /\ NameDigits \in Nat \ {0} /\ MostDigits \in Nat \ {0}
BY HeightType, ArchiveAssumption

\* StoresInv holds of every reachable state.
THEOREM StoresInvariant == ArchiveSpec => []StoresInv
<1> USE SizeTypes
<1>1. ArchiveInit => StoresInv
  <2> SUFFICES ASSUME ArchiveInit
               PROVE  StoresInv
    OBVIOUS
  <2>1. PICK h \in Starts : tip = BlockFromProto(BlockAt(h))
    BY DEF ArchiveInit, Init
  <2>2. h \in 0 .. MaxHeight
    BY HeaderChainAssumption, HeightType
  <2>3. tip.number = h
    BY <2>1, <2>2, HeaderAt
  <2> QED
    BY <2>2, <2>3 DEF ArchiveInit, StoresInv
<1>2. StoresInv /\ [ArchiveNext]_archiveVars => StoresInv'
  <2> SUFFICES ASSUME StoresInv, [ArchiveNext]_archiveVars
               PROVE  StoresInv'
    OBVIOUS
  <2>1. CASE StoreOneBlock
    <3>1. tip.number \in Nat /\ tip.number + 1 \in 0 .. MaxHeight
      BY <2>1 DEF StoreOneBlock, Extend, StoresInv
    <3>2. tip'.number = tip.number + 1
      BY <2>1, <3>1, HeaderAt DEF StoreOneBlock, Extend
    <3>3. mergedFiles' = mergedFiles /\ oneBlocks' = oneBlocks \cup {tip.number + 1}
      BY <2>1, <3>2 DEF StoreOneBlock
    <3>4. tip'.number \in 0 .. MaxHeight /\ oneBlocks' \subseteq 0 .. tip'.number
      <4>1. oneBlocks \subseteq 0 .. tip.number
        BY DEF StoresInv
      <4>2. ASSUME NEW e \in oneBlocks \cup {tip.number + 1}
            PROVE  e \in 0 .. tip.number + 1
        BY <3>1, <4>1, <4>2
      <4> QED
        BY <3>1, <3>2, <3>3, <4>2
    <3>5. ASSUME NEW f \in mergedFiles
          PROVE  /\ f.base + BundleSize <= tip'.number
                 /\ \A n \in oneBlocks' : n \div BundleSize # f.base \div BundleSize
      <4>1. f.base \in Nat /\ f.base + BundleSize <= tip.number + 1
        BY <3>1 DEF StoresInv
      <4>2. (tip.number + 1) \div BundleSize # f.base \div BundleSize
        <5> DEFINE n == tip.number + 1
        <5>1. n \in Nat /\ f.base + BundleSize <= n
          BY <3>1, <4>1
        <5> HIDE DEF n
        <5>2. n \div BundleSize # f.base \div BundleSize
          BY <4>1, <5>1, NextBundle
        <5> QED
          BY <5>2 DEF n
      <4>3. \A n \in oneBlocks : n \div BundleSize # f.base \div BundleSize
        BY DEF StoresInv
      <4> QED
        BY <3>2, <3>3, <4>1, <4>2, <4>3
    <3> QED
      BY <3>3, <3>4, <3>5 DEF StoresInv
  <2>2. ASSUME NEW base \in 0 .. MaxHeight, Merge(base)
        PROVE  StoresInv'
    <3> DEFINE file == [base |-> base, header |-> WriterHeader, numbers |-> Bundle(base)]
    <3>1. /\ base % BundleSize = 0 /\ base + BundleSize <= tip.number
          /\ Bundle(base) # {}
          /\ mergedFiles' = mergedFiles \cup {file}
          /\ oneBlocks' = oneBlocks \ Bundle(base)
          /\ tip' = tip
      BY <2>2 DEF Merge, vars
    <3>2. tip'.number \in 0 .. MaxHeight /\ oneBlocks' \subseteq 0 .. tip'.number
      BY <3>1 DEF StoresInv
    <3>3. ASSUME NEW f \in mergedFiles
          PROVE  f.base # base
      BY <3>1 DEF StoresInv, Bundle
    <3>4. /\ file.base = base /\ file.header = WriterHeader
          /\ file.numbers \subseteq 0 .. MaxHeight
          /\ \A n \in file.numbers : n \div BundleSize = file.base \div BundleSize
          /\ \A n \in oneBlocks' : n \div BundleSize # file.base \div BundleSize
      <4>1. file.base = base /\ file.header = WriterHeader /\ file.numbers = Bundle(base)
        OBVIOUS
      <4>2. oneBlocks \subseteq 0 .. MaxHeight
        BY DEF StoresInv
      <4> HIDE DEF file
      <4> QED
        BY <3>1, <4>1, <4>2 DEF Bundle
    <3>5. ASSUME NEW f \in mergedFiles
          PROVE  /\ f.base \in 0 .. MaxHeight /\ f.base % BundleSize = 0
                 /\ f.base + BundleSize <= tip'.number
                 /\ f.header = WriterHeader
                 /\ f.numbers \subseteq 0 .. MaxHeight
                 /\ \A n \in f.numbers : n \div BundleSize = f.base \div BundleSize
                 /\ \A n \in oneBlocks' : n \div BundleSize # f.base \div BundleSize
      BY <3>1 DEF StoresInv
    <3>6. \A f, g \in mergedFiles' : g.base = f.base => g = f
      <4>1. \A f, g \in mergedFiles : g.base = f.base => g = f
        BY DEF StoresInv
      <4> HIDE DEF file
      <4> QED
        BY <3>1, <3>3, <3>4, <4>1
    <3> HIDE DEF file
    <3> QED
      BY <3>1, <3>2, <3>4, <3>5, <3>6 DEF StoresInv
  <2>3. CASE UNCHANGED archiveVars
    BY <2>3 DEF archiveVars, vars, StoresInv
  <2> QED
    BY <2>1, <2>2, <2>3 DEF ArchiveNext
<1> QED
  BY <1>1, <1>2, PTL DEF ArchiveSpec

-------------------------------------------------------------------------------
(* The names of files                                                        *)

\* The powers of ten that names are made with.
LEMMA Tens ==
  /\ \A k \in 0 .. MostDigits + NameDigits : 10^k \in Nat \ {0}
  /\ \A k \in 1 .. MostDigits + NameDigits : 10^k = 10 * 10^(k - 1)
  /\ 10^0 = 1
<1>1. MostDigits + NameDigits \in Nat /\ 10 \in Nat \ {0}
  BY SizeTypes
<1>2. 10^0 = 1 /\ \A k \in 1 .. MostDigits + NameDigits : 10^k = 10 * 10^(k - 1)
  BY DecimalAssumption
<1> HIDE DecimalAssumption
<1> QED
  BY <1>1, <1>2, PowersPositive

\* A number below a power of ten is below all higher ones.
LEMMA TensGrow ==
  ASSUME NEW n \in Nat, NEW j \in 0 .. MostDigits + NameDigits, n < 10^j
  PROVE  \A k \in j .. MostDigits + NameDigits : n < 10^k
<1> DEFINE bad == {k \in j .. MostDigits + NameDigits : ~(n < 10^k)}
<1> SUFFICES ASSUME bad # {}
             PROVE  FALSE
  OBVIOUS
<1>1. bad \in SUBSET Nat /\ MostDigits + NameDigits \in Nat
  BY SizeTypes
<1>2. PICK m \in bad : \A k \in bad : m <= k
  <2> HIDE DEF bad
  <2> QED
    BY <1>1, LeastElement
<1>3. m \in j + 1 .. MostDigits + NameDigits /\ m - 1 \in j .. MostDigits + NameDigits
  BY <1>1
<1>4. n < 10^(m - 1)
  BY <1>1, <1>2, <1>3
<1>5. 10^m = 10 * 10^(m - 1) /\ 10^(m - 1) \in Nat
  BY <1>1, <1>3, Tens
<1> QED
  BY <1>4, <1>5

\* Nothing is left of a number divided by a larger one.
LEMMA NoneLeft ==
  ASSUME NEW n \in Nat, NEW w \in Nat \ {0}, n < w
  PROVE  n \div w = 0
OBVIOUS

\* The number of digits that Digits chooses is there, and is the least that will do.
LEMMA DigitsOf ==
  ASSUME NEW n \in 0 .. MaxHeight
  PROVE  \E k \in 1 .. MostDigits :
           /\ n < 10^k /\ (k = 1 \/ n >= 10^(k - 1))
           /\ Digits(n) = [i \in 1 .. k |-> (n \div 10^(k - i)) % 10]
<1> DEFINE enough == {k \in 1 .. MostDigits : n < 10^k}
           Least(k) == n < 10^k /\ (k = 1 \/ n >= 10^(k - 1))
<1>1. n < 10^MostDigits
  <2>1. MaxHeight < 10^MostDigits
    BY ArchiveAssumption
  <2>2. 10^MostDigits \in Nat
    BY Tens, SizeTypes
  <2> QED
    BY <2>1, <2>2, SizeTypes
<1>2. enough # {} /\ enough \in SUBSET Nat
  BY <1>1, SizeTypes
<1>3. PICK m \in enough : \A k \in enough : m <= k
  <2> HIDE DEF enough
  <2> QED
    BY <1>2, LeastElement
<1>4. \E k \in 1 .. MostDigits : Least(k)
  <2>1. m \in 1 .. MostDigits /\ n < 10^m
    OBVIOUS
  <2>2. ASSUME m # 1
        PROVE  n >= 10^(m - 1)
    <3>1. m - 1 \in 1 .. MostDigits /\ m - 1 \notin enough
      BY <1>3, <2>1, <2>2, SizeTypes
    <3>2. 10^(m - 1) \in Nat
      BY <2>1, Tens, SizeTypes
    <3> QED
      BY <3>1, <3>2
  <2> QED
    BY <2>1, <2>2
<1> DEFINE k == CHOOSE k \in 1 .. MostDigits : Least(k)
<1>5. k \in 1 .. MostDigits /\ Least(k)
  <2> HIDE DEF Least
  <2> QED
    BY <1>4
<1>6. Digits(n) = [i \in 1 .. k |-> (n \div 10^(k - i)) % 10]
  BY DEF Digits
<1> HIDE DEF k
<1> QED
  BY <1>5, <1>6

\* Sequences of digits, and a name padded with zeros.
LEMMA Padding ==
  ASSUME NEW p \in Nat, NEW k \in Nat, NEW s \in Seq(0 .. 9), Len(s) = k
  PROVE  LET name == [i \in 1 .. p |-> 0] \o s
         IN  /\ name \in Seq(0 .. 9) /\ Len(name) = p + k
             /\ \A i \in 1 .. p : name[i] = 0
             /\ \A i \in p + 1 .. p + k : name[i] = s[i - p]
<1> DEFINE zeros == [i \in 1 .. p |-> 0]
<1>1. zeros \in Seq(0 .. 9) /\ Len(zeros) = p
  OBVIOUS
<1>2. \A i \in 1 .. p : zeros[i] = 0
  OBVIOUS
<1> HIDE DEF zeros
<1>3. /\ zeros \o s \in Seq(0 .. 9) /\ Len(zeros \o s) = p + k
      /\ \A i \in 1 .. p : (zeros \o s)[i] = 0
      /\ \A i \in p + 1 .. p + k : (zeros \o s)[i] = s[i - p]
  BY <1>1, <1>2
<1> QED
  BY <1>3 DEF zeros

\* A name has the number's digits, and only a number of more digits than names are
\* padded to has a longer one, which then begins with another digit than zero.
LEMMA NameOf ==
  ASSUME NEW n \in 0 .. MaxHeight
  PROVE  LET l == Len(FileName(n))
         IN  /\ FileName(n) \in Seq(0 .. 9)
             /\ l \in NameDigits .. MostDigits + NameDigits
             /\ n < 10^l
             /\ l > NameDigits => n >= 10^(l - 1)
             /\ \A i \in 1 .. l : FileName(n)[i] = (n \div 10^(l - i)) % 10
<1>1. PICK k \in 1 .. MostDigits :
        /\ n < 10^k /\ (k = 1 \/ n >= 10^(k - 1))
        /\ Digits(n) = [i \in 1 .. k |-> (n \div 10^(k - i)) % 10]
  BY DigitsOf
<1>2. n \in Nat /\ k \in Nat /\ MostDigits + NameDigits \in Nat
  BY SizeTypes
<1>3. \A i \in 1 .. k : (n \div 10^(k - i)) % 10 \in 0 .. 9
  <2> SUFFICES ASSUME NEW i \in 1 .. k
               PROVE  (n \div 10^(k - i)) % 10 \in 0 .. 9
    OBVIOUS
  <2>1. 10^(k - i) \in Nat \ {0}
    BY <1>2, Tens, SizeTypes
  <2>2. n \div 10^(k - i) \in Nat
    BY <1>2, <2>1
  <2> QED
    BY <2>2
<1>4. Digits(n) \in Seq(0 .. 9) /\ Len(Digits(n)) = k
  BY <1>1, <1>2, <1>3
<1>5. \A j \in k .. MostDigits + NameDigits : n < 10^j
  <2>1. k \in 0 .. MostDigits + NameDigits
    BY <1>2, SizeTypes
  <2> QED
    BY <1>1, <1>2, <2>1, TensGrow
<1>6. CASE k >= NameDigits
  <2>1. 1 .. NameDigits - k = {}
    BY <1>2, <1>6, SizeTypes
  <2>2. [i \in 1 .. NameDigits - Len(Digits(n)) |-> 0] = <<>>
    BY <1>4, <2>1
  <2>3. FileName(n) = Digits(n)
    <3>1. \A s \in Seq(0 .. 9) : <<>> \o s = s
      OBVIOUS
    <3> QED
      BY <1>4, <2>2, <3>1 DEF FileName
  <2>4. k \in NameDigits .. MostDigits + NameDigits
    BY <1>2, <1>6, SizeTypes
  <2>5. k > NameDigits => n >= 10^(k - 1)
    BY <1>1, SizeTypes
  <2> QED
    BY <1>1, <1>4, <2>3, <2>4, <2>5
<1>7. CASE k < NameDigits
  <2> DEFINE p == NameDigits - k
             name == [i \in 1 .. p |-> 0] \o Digits(n)
  <2>1. p \in Nat /\ p + k = NameDigits
    BY <1>2, <1>7, SizeTypes
  <2>2. FileName(n) = name
    BY <1>4 DEF FileName
  <2>3. /\ name \in Seq(0 .. 9) /\ Len(name) = p + k
        /\ \A i \in 1 .. p : name[i] = 0
        /\ \A i \in p + 1 .. p + k : name[i] = Digits(n)[i - p]
    <3> HIDE DEF p
    <3> QED
      BY <1>2, <1>4, <2>1, Padding
  <2>4. n < 10^NameDigits
    BY <1>2, <1>7, <1>5, SizeTypes
  <2>5. ASSUME NEW i \in 1 .. p
        PROVE  (n \div 10^(NameDigits - i)) % 10 = 0
    <3> DEFINE w == 10^(NameDigits - i)
    <3>1. NameDigits - i \in k .. MostDigits + NameDigits
      BY <1>2, <2>1, SizeTypes
    <3>2. n < w
      BY <1>5, <3>1
    <3>3. w \in Nat \ {0}
      BY <1>2, <3>1, Tens
    <3> HIDE DEF w
    <3>4. n \div w = 0
      BY <1>2, <3>2, <3>3, NoneLeft
    <3> QED
      BY <3>4 DEF w
  <2>6. ASSUME NEW i \in p + 1 .. p + k
        PROVE  Digits(n)[i - p] = (n \div 10^(NameDigits - i)) % 10
    <3>1. i - p \in 1 .. k /\ k - (i - p) = NameDigits - i
      BY <1>2, <2>1, SizeTypes
    <3> QED
      BY <1>1, <3>1
  <2>7. \A i \in 1 .. NameDigits : i \in 1 .. p \/ i \in p + 1 .. p + k
    BY <1>2, <2>1
  <2> HIDE DEF p, name
  <2>8. \A i \in 1 .. NameDigits : name[i] = (n \div 10^(NameDigits - i)) % 10
    BY <2>3, <2>5, <2>6, <2>7
  <2>9. NameDigits \in NameDigits .. MostDigits + NameDigits /\ ~(NameDigits > NameDigits)
    BY SizeTypes
  <2> QED
    BY <2>1, <2>2, <2>3, <2>4, <2>8, <2>9
<1> QED
  BY <1>2, <1>6, <1>7, SizeTypes

\* The number whose name is a prefix of another's has its leading digits.
LEMMA PrefixIsQuotient ==
  ASSUME NEW m \in 0 .. MaxHeight, NEW n \in 0 .. MaxHeight,
         HasPrefix(FileName(n), FileName(m))
  PROVE  LET k == Len(FileName(m))
             l == Len(FileName(n))
         IN  /\ k <= l
             /\ m = n \div 10^(l - k)
             /\ (m \div 10^(k - 1)) % 10 = (n \div 10^(l - 1)) % 10
<1> DEFINE a == FileName(m)
           b == FileName(n)
           k == Len(a)
           l == Len(b)
           bad == {i \in 0 .. k : m \div 10^(k - i) # n \div 10^(l - i)}
<1>1. m \in Nat /\ n \in Nat /\ MostDigits + NameDigits \in Nat /\ NameDigits \in Nat \ {0}
  BY SizeTypes
<1>2. /\ a \in Seq(0 .. 9) /\ k \in NameDigits .. MostDigits + NameDigits
      /\ m < 10^k
      /\ \A i \in 1 .. k : a[i] = (m \div 10^(k - i)) % 10
  BY NameOf
<1>3. /\ b \in Seq(0 .. 9) /\ l \in NameDigits .. MostDigits + NameDigits
      /\ n < 10^l
      /\ \A i \in 1 .. l : b[i] = (n \div 10^(l - i)) % 10
  BY NameOf
<1>4. k <= l /\ SubSeq(b, 1, k) = a
  BY DEF HasPrefix
<1> HIDE DEF a, b, k, l
<1>5. \A i \in 1 .. k : a[i] = b[i]
  BY <1>1, <1>2, <1>3, <1>4
<1>6. ASSUME NEW i \in 1 .. k
      PROVE  (m \div 10^(k - i)) % 10 = (n \div 10^(l - i)) % 10
  <2>1. i \in 1 .. l
    BY <1>1, <1>2, <1>3, <1>4
  <2> QED
    BY <1>2, <1>3, <1>5, <2>1
<1>7. bad = {}
  <2> SUFFICES ASSUME bad # {}
               PROVE  FALSE
    OBVIOUS
  <2>1. bad \in SUBSET Nat
    OBVIOUS
  <2>2. PICK i \in bad : \A j \in bad : i <= j
    <3> HIDE DEF bad
    <3> QED
      BY <2>1, LeastElement
  <2>3. i \in 0 .. k /\ m \div 10^(k - i) # n \div 10^(l - i)
    OBVIOUS
  <2>4. i # 0
    <3>1. m \div 10^k = 0
      <4>1. 10^k \in Nat \ {0}
        BY <1>1, <1>2, Tens
      <4> QED
        BY <1>1, <1>2, <4>1, NoneLeft
    <3>2. n \div 10^l = 0
      <4>1. 10^l \in Nat \ {0}
        BY <1>1, <1>3, Tens
      <4> QED
        BY <1>1, <1>3, <4>1, NoneLeft
    <3>3. k - 0 = k /\ l - 0 = l
      BY <1>1, <1>2, <1>3
    <3> QED
      BY <2>3, <3>1, <3>2, <3>3
  <2>5. i \in 1 .. k /\ i - 1 \in 0 .. k /\ i - 1 \notin bad
    BY <1>1, <1>2, <2>2, <2>3, <2>4
  <2>6. m \div 10^(k - (i - 1)) = n \div 10^(l - (i - 1))
    BY <2>5
  \* The quotients agree but for their last digits, which agree too.
  <2>7. /\ 10^(k - (i - 1)) = 10 * 10^(k - i) /\ 10^(k - i) \in Nat \ {0}
        /\ 10^(l - (i - 1)) = 10 * 10^(l - i) /\ 10^(l - i) \in Nat \ {0}
    <3> DEFINE most == MostDigits + NameDigits
    <3>1. k \in Nat /\ l \in Nat /\ k <= l /\ l <= most /\ most \in Nat
      BY <1>1, <1>2, <1>3, <1>4
    <3> HIDE DEF most
    <3>2. k - (i - 1) \in 1 .. most /\ l - (i - 1) \in 1 .. most
      BY <2>5, <3>1
    <3>3. k - i \in 0 .. most /\ l - i \in 0 .. most
      BY <2>5, <3>1
    <3>4. (k - (i - 1)) - 1 = k - i /\ (l - (i - 1)) - 1 = l - i
      BY <2>5, <3>1
    <3>5. \A j \in 1 .. MostDigits + NameDigits : 10^j = 10 * 10^(j - 1)
      BY Tens
    <3>6. \A j \in 0 .. MostDigits + NameDigits : 10^j \in Nat \ {0}
      BY Tens
    <3>7. 10^(k - (i - 1)) = 10 * 10^((k - (i - 1)) - 1) /\ 10^(l - (i - 1)) = 10 * 10^((l - (i - 1)) - 1)
      BY <3>2, <3>5 DEF most
    <3> QED
      BY <3>3, <3>4, <3>6, <3>7 DEF most
  <2> DEFINE v == 10^(k - i)
             w == 10^(l - i)
             p == m \div v
             q == n \div w
  <2>8. v \in Nat \ {0} /\ w \in Nat \ {0} /\ 10 \in Nat \ {0}
    BY <2>7
  <2>9. p \div 10 = q \div 10
    <3>1. m \div (10 * v) = n \div (10 * w)
      BY <2>6, <2>7
    <3> HIDE DEF v, w
    <3> QED
      BY <1>1, <2>8, <3>1, DivOfDiv
  <2>10. p % 10 = q % 10
    BY <1>6, <2>5
  <2>11. p # q
    BY <2>3
  <2>12. p \in Nat /\ q \in Nat
    <3> HIDE DEF v, w
    <3> QED
      BY <1>1, <2>8
  <2> HIDE DEF p, q
  <2> QED
    BY <2>9, <2>10, <2>11, <2>12
<1>8. m = n \div 10^(l - k)
  <2>1. k \in 0 .. k /\ k - k = 0 /\ 10^0 = 1
    BY <1>1, <1>2, Tens
  <2>2. m \div 10^(k - k) = n \div 10^(l - k)
    BY <1>7, <2>1
  <2>3. m \div 1 = m
    BY <1>1
  <2> QED
    BY <2>1, <2>2, <2>3
<1>9. 1 \in 1 .. k
  BY <1>1, <1>2
<1> QED
  BY <1>4, <1>6, <1>8, <1>9 DEF a, b, k, l

\* No two numbers share a name.
LEMMA NamesDiffer ==
  ASSUME NEW m \in 0 .. MaxHeight, NEW n \in 0 .. MaxHeight, FileName(m) = FileName(n)
  PROVE  m = n
<1> DEFINE l == Len(FileName(n))
<1>1. FileName(n) \in Seq(0 .. 9) /\ l \in Nat
  BY NameOf
<1>2. \A s \in Seq(0 .. 9) : SubSeq(s, 1, Len(s)) = s
  OBVIOUS
<1>3. HasPrefix(FileName(n), FileName(m))
  BY <1>1, <1>2 DEF HasPrefix
<1>4. m = n \div 10^(l - l)
  BY <1>3, PrefixIsQuotient
<1>5. l - l = 0 /\ 10^0 = 1 /\ n \div 1 = n
  BY <1>1, Tens, SizeTypes
<1> QED
  BY <1>4, <1>5

\* The prefix walked is that of the block's own file and, below the width of names, of
\* no other: equally long names differ, and a longer one begins with another digit.
THEOREM WalksItsOwnFileHolds == ArchiveSpec => []WalksItsOwnFile
<1>1. StoresInv => WalksItsOwnFile
  <2> SUFFICES ASSUME StoresInv, NEW num \in 0 .. MaxHeight
               PROVE  /\ num \in oneBlocks => num \in Walk(num)
                      /\ num < 10^(NameDigits - 1) => Walk(num) \subseteq {num}
                      /\ \A n \in Walk(num) : n # num => n >= 10 * num
    BY DEF WalksItsOwnFile
  <2> DEFINE k == Len(FileName(num))
  <2>1. /\ num \in Nat /\ MaxHeight \in Nat
        /\ NameDigits \in Nat \ {0} /\ MostDigits \in Nat \ {0}
    BY SizeTypes
  <2>2. /\ FileName(num) \in Seq(0 .. 9)
        /\ k \in NameDigits .. MostDigits + NameDigits
        /\ k > NameDigits => num >= 10^(k - 1)
    BY NameOf
  <2>3. HasPrefix(FileName(num), FileName(num))
    <3>1. \A s \in Seq(0 .. 9) : Len(s) <= Len(s) /\ SubSeq(s, 1, Len(s)) = s
      OBVIOUS
    <3> QED
      BY <2>2, <3>1 DEF HasPrefix
  <2>4. ASSUME NEW n \in Walk(num), n # num
        PROVE  /\ n >= 10 * num
               /\ ~(num < 10^(NameDigits - 1))
    <3> DEFINE l == Len(FileName(n))
    <3>1. n \in 0 .. MaxHeight /\ n \in Nat /\ HasPrefix(FileName(n), FileName(num))
      BY <2>1 DEF Walk, StoresInv
    <3>2. /\ l \in NameDigits .. MostDigits + NameDigits
          /\ n < 10^l
          /\ l > NameDigits => n >= 10^(l - 1)
      BY <3>1, NameOf
    <3>3. /\ k <= l
          /\ num = n \div 10^(l - k)
          /\ (num \div 10^(k - 1)) % 10 = (n \div 10^(l - 1)) % 10
      BY <3>1, PrefixIsQuotient
    <3> HIDE DEF k, l
    <3>4. k < l
      <4>1. l - l = 0 /\ 10^0 = 1 /\ n \div 1 = n
        BY <2>1, <3>1, <3>2, Tens
      <4>2. k # l
        BY <2>4, <3>3, <4>1
      <4> QED
        BY <2>1, <2>2, <3>2, <3>3, <4>2
    <3>5. n >= 10 * num
      <4> DEFINE w == 10^((l - k) - 1)
      <4>1. l - k \in 1 .. MostDigits + NameDigits /\ (l - k) - 1 \in 0 .. MostDigits + NameDigits
        BY <2>1, <2>2, <3>2, <3>4
      <4>2. 10^(l - k) = 10 * w /\ w \in Nat \ {0}
        BY <4>1, Tens
      <4> HIDE DEF w
      <4>3. num = n \div (10 * w)
        BY <3>3, <4>2
      <4>4. num = (n \div w) \div 10
        BY <3>1, <4>2, <4>3, DivOfDiv
      <4>5. n \div w \in Nat /\ n \div w <= n
        BY <3>1, <4>2
      <4> QED
        BY <2>1, <3>1, <4>4, <4>5
    <3>6. ASSUME num < 10^(NameDigits - 1)
          PROVE  FALSE
      <4>1. NameDigits - 1 \in 0 .. MostDigits + NameDigits
        BY <2>1
      <4>2. \A j \in NameDigits - 1 .. MostDigits + NameDigits : num < 10^j
        BY <2>1, <3>6, <4>1, TensGrow
      <4>3. k - 1 \in NameDigits - 1 .. MostDigits + NameDigits
        BY <2>1, <2>2
      <4>4. num < 10^(k - 1) /\ 10^(k - 1) \in Nat \ {0}
        BY <2>1, <4>2, <4>3, Tens
      <4>5. num \div 10^(k - 1) = 0
        BY <2>1, <4>4, NoneLeft
      <4> DEFINE w == 10^(l - 1)
      <4>6. l \in 1 .. MostDigits + NameDigits /\ l - 1 \in 0 .. MostDigits + NameDigits /\ l > NameDigits
        BY <2>1, <2>2, <3>2, <3>4
      <4>7. 10^l = 10 * w /\ w \in Nat \ {0}
        BY <4>6, Tens
      <4>8. n >= w /\ n < 10 * w
        BY <3>2, <4>6, <4>7
      <4> HIDE DEF w
      <4>9. n \div w \in 1 .. 9
        BY <3>1, <4>7, <4>8
      <4>10. (n \div w) % 10 # 0
        BY <4>9
      <4> QED
        BY <3>3, <4>5, <4>10 DEF w
    <3> QED
      BY <3>5, <3>6
  <2> QED
    BY <2>3, <2>4 DEF Walk
<1> QED
  BY <1>1, StoresInvariant, PTL

-------------------------------------------------------------------------------
(* What the tools print                                                      *)

\* A header's ids can be sliced, except the empty parent id of block zero.
LEMMA PrintableBut ==
  ASSUME NEW n \in 0 .. MaxHeight
  PROVE  Printable(BlockFromProto(BlockAt(n))) <=> n # 0
<1> DEFINE blk == BlockFromProto(BlockAt(n))
<1>1. n \in Nat /\ IdBytes \in Nat /\ ShownDigits \in Nat \ {0} /\ ShownDigits <= 2 * IdBytes
  BY SizeTypes, AptosBlockAssumption, ArchiveAssumption
<1>2. /\ blk.id = Uint64ToID(n)
      /\ blk.previousId = IF n = 0 THEN EmptyID ELSE Uint64ToID(n - 1)
  BY <1>1, HeaderAt
<1>3. \A h : Len(Uint64ToID(h)) = 2 * IdBytes
  BY <1>1 DEF Uint64ToID
<1>4. Len(EmptyID) = 0
  BY DEF EmptyID
<1> HIDE DEF blk
<1>5. Printable(blk) <=> n # 0
  BY <1>1, <1>2, <1>3, <1>4 DEF Printable
<1> QED
  BY <1>5 DEF blk

\* What a command prints of numbers without zero, and that it panics at zero.
LEMMA PrintedOf ==
  ASSUME NEW S \in SUBSET (0 .. MaxHeight)
  PROVE  Printed(S) = IF 0 \in S THEN [result |-> "panic", shown |-> {}]
                                  ELSE [result |-> "ok", shown |-> S]
<1>1. (\A header \in Lines(S) : Printable(header)) <=> 0 \notin S
  <2>1. (\A header \in Lines(S) : Printable(header))
          <=> \A n \in S : Printable(BlockFromProto(BlockAt(n)))
    BY DEF Lines
  <2>2. \A n \in S : Printable(BlockFromProto(BlockAt(n))) <=> n # 0
    BY PrintableBut
  <2> QED
    BY <2>1, <2>2
<1> QED
  BY <1>1 DEF Printed

\* The store opens the one file of a name, whose header it accepts.
LEMMA OneFile ==
  ASSUME StoresInv, NEW f \in mergedFiles
  PROVE  OpenObject(f.base) = {f}
<1>1. ReaderAccepts(f.header)
  BY DEF StoresInv, ReaderAccepts, WriterHeader
<1>2. ASSUME NEW g \in mergedFiles, FileName(g.base) = FileName(f.base)
      PROVE  g = f
  <2>1. f.base \in 0 .. MaxHeight /\ g.base \in 0 .. MaxHeight
    BY DEF StoresInv
  <2>2. g.base = f.base
    BY <1>2, <2>1, NamesDiffer
  <2> QED
    BY <2>2 DEF StoresInv
<1> QED
  BY <1>1, <1>2 DEF OpenObject

\* The number a block's bundle begins with is that of the file that holds it.
LEMMA HoldersBase ==
  ASSUME NEW base \in Nat, NEW n \in Nat, base % BundleSize = 0,
         n \div BundleSize = base \div BundleSize
  PROVE  MergedBlockNum(n) = base
<1>1. BundleSize \in Nat \ {0}
  BY SizeTypes
<1> DEFINE q == n \div BundleSize
           r == n % BundleSize
<1>2. n = BundleSize * q + r /\ base = BundleSize * q + 0
  BY <1>1
<1>3. q \in Nat /\ r \in Nat
  BY <1>1
<1>4. n - r = base
  <2> HIDE DEF q, r
  <2> DEFINE p == BundleSize * q
  <2>1. p \in Nat
    BY <1>1, <1>3
  <2>2. n = p + r /\ base = p + 0
    BY <1>2
  <2> HIDE DEF p
  <2> QED
    BY <1>3, <2>1, <2>2
<1> QED
  BY <1>4 DEF MergedBlockNum

\* A number that no file holds shows nothing.
LEMMA UnheldNumber ==
  ASSUME NEW num, \A f \in mergedFiles : num \notin f.numbers
  PROVE  printBlockE(num).shown = {} /\ printBlockE(num).result # "panic"
<1> DEFINE files == OpenObject(MergedBlockNum(num))
<1>1. CASE files = {}
  BY <1>1 DEF printBlockE, NotFound
<1>2. CASE files # {}
  <2>1. PICK f \in files : printBlockE(num) = Printed(f.numbers \cap {num})
    BY <1>2 DEF printBlockE
  <2>2. f.numbers \cap {num} = {}
    BY DEF OpenObject
  <2>3. printBlockE(num) = [result |-> "ok", shown |-> {}]
    BY <2>1, <2>2, PrintedOf
  <2> QED
    BY <2>3
<1> QED
  BY <1>1, <1>2

\* The block is in the file whose name its number rounds down to, and the file of that
\* name is the only one: the tool shows the block if it is there, and no other.
THEOREM FindsArchivedBlocksHolds == ArchiveSpec => []FindsArchivedBlocks
<1>1. StoresInv => FindsArchivedBlocks
  <2> SUFFICES ASSUME StoresInv, NEW num \in 0 .. MaxHeight
               PROVE  LET holding == {f \in mergedFiles : num \in f.numbers}
                          printed == printBlockE(num)
                      IN  /\ holding = {} => printed.shown = {} /\ printed.result # "panic"
                          /\ \A f \in holding :
                               /\ IF num = 0 THEN printed.result = "panic"
                                  ELSE printed = [result |-> "ok", shown |-> {num}]
                               /\ IF 0 \in f.numbers THEN printBlocksE(f.base).result = "panic"
                                  ELSE printBlocksE(f.base) = [result |-> "ok", shown |-> f.numbers]
    BY DEF FindsArchivedBlocks
  <2> DEFINE holding == {f \in mergedFiles : num \in f.numbers}
  <2>1. ASSUME holding = {}
        PROVE  printBlockE(num).shown = {} /\ printBlockE(num).result # "panic"
    BY <2>1, UnheldNumber
  <2>2. ASSUME NEW f \in holding
        PROVE  /\ IF num = 0 THEN printBlockE(num).result = "panic"
                  ELSE printBlockE(num) = [result |-> "ok", shown |-> {num}]
               /\ IF 0 \in f.numbers THEN printBlocksE(f.base).result = "panic"
                  ELSE printBlocksE(f.base) = [result |-> "ok", shown |-> f.numbers]
    <3>1. /\ f \in mergedFiles /\ num \in f.numbers
          /\ f.base \in 0 .. MaxHeight /\ f.base % BundleSize = 0
          /\ f.numbers \subseteq 0 .. MaxHeight
          /\ num \div BundleSize = f.base \div BundleSize
      BY DEF StoresInv
    <3>2. OpenObject(f.base) = {f}
      BY <3>1, OneFile
    <3>3. MergedBlockNum(num) = f.base
      <4>1. num \in Nat /\ f.base \in Nat
        BY <3>1, SizeTypes
      <4> QED
        BY <3>1, <4>1, HoldersBase
    <3>4. printBlockE(num) = Printed({num})
      <4>1. f.numbers \cap {num} = {num}
        BY <3>1
      <4>2. (CHOOSE g \in {f} : TRUE) = f
        OBVIOUS
      <4> QED
        BY <3>2, <3>3, <4>1, <4>2 DEF printBlockE
    <3>5. printBlocksE(f.base) = Printed(f.numbers)
      <4>1. (CHOOSE g \in {f} : TRUE) = f
        OBVIOUS
      <4> QED
        BY <3>2, <4>1 DEF printBlocksE
    <3>6. Printed({num}) = IF num = 0 THEN [result |-> "panic", shown |-> {}]
                                      ELSE [result |-> "ok", shown |-> {num}]
      <4>1. {num} \in SUBSET (0 .. MaxHeight)
        OBVIOUS
      <4> QED
        BY <4>1, PrintedOf
    <3>7. Printed(f.numbers) = IF 0 \in f.numbers THEN [result |-> "panic", shown |-> {}]
                                                   ELSE [result |-> "ok", shown |-> f.numbers]
      BY <3>1, PrintedOf
    <3> QED
      BY <3>4, <3>5, <3>6, <3>7
  <2> QED
    BY <2>1, <2>2
<1> QED
  BY <1>1, StoresInvariant, PTL

\* The parent printed is found again, and block zero's leads nowhere.
THEOREM LeadsToParentHolds == ArchiveSpec => []LeadsToParent
<1>1. StoresInv /\ FindsArchivedBlocks => LeadsToParent
  <2> SUFFICES ASSUME StoresInv, FindsArchivedBlocks, NEW f \in mergedFiles, NEW n \in f.numbers
               PROVE  LET ref     == PreviousRef(BlockFromProto(BlockAt(n)))
                          printed == printBlockE(ref.num)
                          held    == \E g \in mergedFiles : n - 1 \in g.numbers
                      IN  /\ n = 0 => printed.shown = {} /\ printed.result # "panic"
                          /\ n = 1 /\ held => printed.result = "panic"
                          /\ n > 1 /\ held => {header.id : header \in Lines(printed.shown)} = {ref.id}
    BY DEF LeadsToParent
  <2> DEFINE ref == PreviousRef(BlockFromProto(BlockAt(n)))
             w   == 256^IdBytes
  <2>1. /\ n \in Nat /\ n \in 0 .. MaxHeight
        /\ w \in Nat \ {0} /\ MaxHeight \in 0 .. w - 1
    BY SizeTypes, WordType DEF StoresInv
  <2>2. ref = [id |-> IF n = 0 THEN EmptyID ELSE Uint64ToID(n - 1), num |-> (n - 1) % w]
    BY <2>1, HeaderAt DEF PreviousRef
  <2>3. ASSUME n = 0
        PROVE  printBlockE(ref.num).shown = {} /\ printBlockE(ref.num).result # "panic"
    <3>1. ref.num = w - 1
      BY <2>1, <2>2, <2>3, WordSubtraction
    <3>2. ASSUME NEW g \in mergedFiles, w - 1 \in g.numbers
          PROVE  FALSE
      <4>1. /\ g.base \in Nat /\ g.base + BundleSize <= w - 1
            /\ (w - 1) \div BundleSize = g.base \div BundleSize
        BY <2>1, <3>2, SizeTypes DEF StoresInv
      <4>2. w - 1 \in Nat /\ BundleSize \in Nat \ {0}
        BY <2>1, SizeTypes
      <4> HIDE DEF w
      <4>3. (w - 1) \div BundleSize # g.base \div BundleSize
        BY <4>1, <4>2, NextBundle
      <4> QED
        BY <4>1, <4>3
    <3> QED
      BY <3>1, <3>2, UnheldNumber
  <2>4. ASSUME n > 0, NEW g \in mergedFiles, n - 1 \in g.numbers
        PROVE  /\ n = 1 => printBlockE(ref.num).result = "panic"
               /\ n > 1 => {header.id : header \in Lines(printBlockE(ref.num).shown)} = {ref.id}
    <3>1. n - 1 \in Nat /\ n - 1 \in 0 .. MaxHeight
      BY <2>1, <2>4
    <3>2. ref.num = n - 1 /\ ref.id = Uint64ToID(n - 1)
      BY <2>1, <2>2, <2>4, WordSubtraction
    <3>3. IF n - 1 = 0 THEN printBlockE(n - 1).result = "panic"
          ELSE printBlockE(n - 1) = [result |-> "ok", shown |-> {n - 1}]
      BY <2>4, <3>1 DEF FindsArchivedBlocks
    <3>4. {header.id : header \in Lines({n - 1})} = {Uint64ToID(n - 1)}
      BY <3>1, HeaderAt DEF Lines
    <3>5. n > 1 => printBlockE(n - 1).shown = {n - 1}
      BY <2>1, <3>3
    <3>6. n = 1 => printBlockE(n - 1).result = "panic"
      BY <2>1, <3>3
    <3> HIDE DEF ref
    <3> QED
      BY <3>2, <3>4, <3>5, <3>6
  <2> HIDE DEF ref
  <2> QED
    BY <2>1, <2>3, <2>4 DEF ref
<1> QED
  BY <1>1, StoresInvariant, FindsArchivedBlocksHolds, PTL
===============================================================================
