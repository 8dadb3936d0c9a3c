----------------------------- MODULE BlockSource -----------------------------
(*****************************************************************************)
(* What the console reader promises to its caller: a stream of blocks that   *)
(* only grows, each of them well formed and all of one chain, until the      *)
(* stream ends, after which nothing more is delivered.                       *)
(*****************************************************************************)
EXTENDS AptosBlock

VARIABLES out,    \* the blocks handed to the caller so far
          ended   \* the caller was told that no block follows

vars == <<out, ended>>

\* What a caller may rely on in a delivered header.
WellFormedHeader(blk) ==
  /\ WellFormed(blk.payload)
  /\ blk.number = blk.payload.height
  /\ blk.id = Uint64ToID(blk.number)
  /\ blk.previousId = IF blk.number = 0 THEN EmptyID ELSE Uint64ToID(blk.number - 1)
  /\ blk.libNum \in {blk.number, blk.number - 1} \cap Nat
  /\ blk.libNum = blk.number => blk.number <= FirstStreamableBlock
  /\ BlockDecoder(blk) = blk.payload

Init == out = <<>> /\ ended = FALSE

Deliver ==
  /\ ~ended
  /\ Len(out') = Len(out) + 1
  /\ SubSeq(out', 1, Len(out)) = out
  /\ LET new == out'[Len(out')]
     IN  /\ WellFormedHeader(new)
         /\ \A i \in DOMAIN out : out[i].payload.chainId = new.payload.chainId
  /\ UNCHANGED ended

End == ~ended /\ ended' = TRUE /\ UNCHANGED out

Next == Deliver \/ End

Spec == Init /\ [][Next]_vars
===============================================================================
