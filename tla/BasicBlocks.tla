---------------------------- MODULE BasicBlocks -----------------------------
(***************************************************************************)
(* The split of a program into basic blocks: FindBasicBlock and the loop   *)
(* FindBasicBlockInRange around it, spu_emu_parser.cpp.  The inner loop    *)
(* looks for the next branch, the outer one turns what it passed into a    *)
(* block and goes on behind it.  One action is one turn of a loop.         *)
(*                                                                         *)
(* A word matters in two ways only: whether IsBrach holds of it, and       *)
(* whether it is 0, the stop instruction that fills the space behind the   *)
(* code.  Words before Begin, the SPU GUID, are not looked at.             *)
(***************************************************************************)
EXTENDS Naturals, Sequences

CONSTANTS
  Word,          \* instruction words
  IsBrach,       \* those IsBrach accepts
  Zero,          \* the word 0
  Begin, End     \* FindBasicBlockInRange is called once, with 66 and 193

ASSUME WordAssumption == IsBrach \subseteq Word /\ Zero \in IsBrach

ASSUME RangeAssumption == Begin \in Nat /\ End \in Nat /\ Begin <= End

VARIABLES
  Binary,   \* the program, from Begin on: the words at Begin .. End - 1
  pc,       \* "outer" or "inner" loop, or "done"
  begin,    \* begin of FindBasicBlockInRange
  at,       \* begin of FindBasicBlock, which the inner loop advances
  blocks    \* the blocks found so far, [first, last) each

vars == <<Binary, pc, begin, at, blocks>>

(* Neither loop reads or returns a position outside Begin .. End. *)
TypeOK ==
  /\ Binary \in [Begin .. End - 1 -> Word]
  /\ pc \in {"outer", "inner", "done"}
  /\ begin \in Begin .. End
  /\ at \in Begin .. End
  /\ blocks \in Seq([first : Begin .. End, last : Begin .. End])

Init ==
  /\ Binary \in [Begin .. End - 1 -> Word]
  /\ pc = "outer"
  /\ begin = Begin
  /\ at = Begin
  /\ blocks = <<>>

-----------------------------------------------------------------------------

(* Mutant: the search starts over without looking at the first word. *)
OuterSkipping ==
  /\ pc = "outer"
  /\ pc' = IF begin # End THEN "inner" ELSE "done"
  /\ at' = IF begin # End THEN begin + 1 ELSE begin
  /\ UNCHANGED <<Binary, begin, blocks>>

(* while ( begin != end ): call FindBasicBlock, or leave the loop. *)
Outer ==
  /\ pc = "outer"
  /\ pc' = IF begin # End THEN "inner" ELSE "done"
  /\ at' = begin
  /\ UNCHANGED <<Binary, begin, blocks>>

(* A word that does not end the block. *)
Advance ==
  /\ pc = "inner"
  /\ at # End
  /\ Binary[at] \notin IsBrach
  /\ at' = at + 1
  /\ UNCHANGED <<Binary, pc, begin, blocks>>

(* Mutant: the block ends before its branch. *)
FoundShort ==
  /\ pc = "inner"
  /\ at # End
  /\ Binary[at] \in IsBrach
  /\ blocks' = Append(blocks, [first |-> begin, last |-> at])
  /\ IF Binary[at] = Zero
     THEN pc' = "done" /\ UNCHANGED begin
     ELSE pc' = "outer" /\ begin' = at + 1
  /\ UNCHANGED <<Binary, at>>

(* Mutant: the loop is left after any block, not only after one ending in 0. *)
FoundEager ==
  /\ pc = "inner"
  /\ at # End
  /\ Binary[at] \in IsBrach
  /\ blocks' = Append(blocks, [first |-> begin, last |-> at + 1])
  /\ pc' = "done"
  /\ UNCHANGED <<Binary, begin, at>>

(* The branch is part of the block; a block that ends in 0 is the last.    *)
Found ==
  /\ pc = "inner"
  /\ at # End
  /\ Binary[at] \in IsBrach
  /\ blocks' = Append(blocks, [first |-> begin, last |-> at + 1])
  /\ IF Binary[at] = Zero
     THEN pc' = "done" /\ UNCHANGED begin
     ELSE pc' = "outer" /\ begin' = at + 1
  /\ UNCHANGED <<Binary, at>>

(* Mutant: the outer loop does not break on the empty block. *)
NotFoundRetries ==
  /\ pc = "inner"
  /\ at = End
  /\ pc' = "outer"
  /\ UNCHANGED <<Binary, begin, at, blocks>>

(* No branch up to the end: FindBasicBlock returns the empty block and the *)
(* outer loop breaks.                                                      *)
NotFound ==
  /\ pc = "inner"
  /\ at = End
  /\ pc' = "done"
  /\ UNCHANGED <<Binary, begin, at, blocks>>

Next == Outer \/ Advance \/ Found \/ NotFound

Spec == Init /\ [][Next]_vars

FairSpec == Spec /\ WF_vars(Next)

-----------------------------------------------------------------------------

Covered(i) == \E b \in 1 .. Len(blocks) : blocks[b].first <= i /\ i < blocks[b].last

(* The blocks lie one behind the other from Begin on, without a gap or an  *)
(* overlap, and none is empty.                                             *)
BlocksTile ==
  \A b \in 1 .. Len(blocks) :
    /\ blocks[b].first = IF b = 1 THEN Begin ELSE blocks[b - 1].last
    /\ blocks[b].first < blocks[b].last

(* A block is straight-line code: its last word is a branch and no word    *)
(* before it is, and only the last block of all ends in 0.                 *)
BlocksStraight ==
  \A b \in 1 .. Len(blocks) :
    /\ Binary[blocks[b].last - 1] \in IsBrach
    /\ \A i \in blocks[b].first .. blocks[b].last - 2 : Binary[i] \notin IsBrach
    /\ Binary[blocks[b].last - 1] = Zero => b = Len(blocks) /\ pc = "done"

(* When the search is over, every branch it did not put into a block lies  *)
(* behind a 0 that did end a block: no code before the padding is lost.    *)
NothingLost ==
  pc = "done" =>
    \A i \in Begin .. End - 1 :
      Binary[i] \in IsBrach =>
        \/ Covered(i)
        \/ \E j \in Begin .. i - 1 : Binary[j] = Zero /\ Covered(j)

(* The two loops come to an end on every program. *)
Terminates == <>(pc = "done")

-----------------------------------------------------------------------------

(* The parts of the inductive invariant. *)
BeginAfterBlocks ==
  pc # "done" =>
    begin = IF Len(blocks) = 0 THEN Begin ELSE blocks[Len(blocks)].last

NoBranchPassed ==
  pc = "inner" =>
    begin <= at /\ \A i \in begin .. at - 1 : Binary[i] \notin IsBrach

BlocksCover ==
  \A b \in 1 .. Len(blocks) : \A i \in Begin .. blocks[b].last - 1 : Covered(i)

HowItEnded ==
  pc = "done" =>
    \/ /\ Len(blocks) > 0
       /\ Binary[blocks[Len(blocks)].last - 1] = Zero
    \/ /\ begin = IF Len(blocks) = 0 THEN Begin ELSE blocks[Len(blocks)].last
       /\ \A i \in begin .. End - 1 : Binary[i] \notin IsBrach

(* Between any two turns of the loops begin is where the blocks end, the   *)
(* words from begin to at are no branches, and what ended the search is    *)
(* known: the inductive invariant behind the properties above.             *)
IInv ==
  /\ TypeOK /\ BlocksTile /\ BlocksStraight
  /\ BeginAfterBlocks /\ NoBranchPassed /\ BlocksCover /\ HowItEnded
=============================================================================
