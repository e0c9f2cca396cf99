-------------------------- MODULE BasicBlocksProofs -------------------------
(***************************************************************************)
(* Proofs about BasicBlocks: the invariants that the runs check on all     *)
(* programs of five words hold of every program, whatever its length, its  *)
(* words and the words that are branches.                                  *)
(***************************************************************************)
EXTENDS BasicBlocks, TLAPS

Block == [first : Begin .. End, last : Begin .. End]

(* The search starts with no block and nothing passed. *)
LEMMA InitIInv == Init => IInv
<1> SUFFICES ASSUME Init PROVE IInv
  OBVIOUS
<1> USE DEF Init
<1>1. blocks \in Seq(Block) /\ Len(blocks) = 0
  OBVIOUS
<1>2. TypeOK
  BY <1>1, RangeAssumption DEF TypeOK, Block
<1>3. BlocksTile /\ BlocksStraight /\ BlocksCover
  BY <1>1 DEF BlocksTile, BlocksStraight, BlocksCover
<1>4. BeginAfterBlocks /\ NoBranchPassed /\ HowItEnded
  BY DEF BeginAfterBlocks, NoBranchPassed, HowItEnded
<1> QED
  BY <1>2, <1>3, <1>4 DEF IInv

(* Steps that leave the blocks alone and do not end the search keep what   *)
(* is said of the blocks.                                                  *)
LEMMA SameBlocks ==
  ASSUME IInv, UNCHANGED <<Binary, blocks>>, pc # "done"
  PROVE  BlocksTile' /\ BlocksStraight' /\ BlocksCover'
<1>1. BlocksTile'
  BY DEF IInv, BlocksTile
<1>2. BlocksStraight'
  BY DEF IInv, BlocksStraight
<1>3. BlocksCover'
  BY DEF IInv, BlocksCover, Covered
<1> QED
  BY <1>1, <1>2, <1>3

(* The outer loop starts a search where the last block ends, or is done. *)
LEMMA OuterIInv == IInv /\ Outer => IInv'
<1> SUFFICES ASSUME IInv, Outer PROVE IInv'
  OBVIOUS
<1>1. TypeOK'
  BY DEF IInv, TypeOK, Outer
<1>2. BlocksTile' /\ BlocksStraight' /\ BlocksCover'
  BY SameBlocks DEF Outer
<1>3. BeginAfterBlocks'
  BY DEF IInv, BeginAfterBlocks, Outer
<1>4. NoBranchPassed'
  BY RangeAssumption DEF IInv, TypeOK, NoBranchPassed, Outer
<1>5. HowItEnded'
  BY RangeAssumption DEF IInv, TypeOK, BeginAfterBlocks, HowItEnded, Outer
<1> QED
  BY <1>1, <1>2, <1>3, <1>4, <1>5 DEF IInv

(* Passing a word that is no branch keeps the passed words free of branches. *)
LEMMA AdvanceIInv == IInv /\ Advance => IInv'
<1> SUFFICES ASSUME IInv, Advance PROVE IInv'
  OBVIOUS
<1>1. TypeOK'
  BY RangeAssumption DEF IInv, TypeOK, Advance
<1>2. BlocksTile' /\ BlocksStraight' /\ BlocksCover'
  BY SameBlocks DEF Advance
<1>3. BeginAfterBlocks' /\ HowItEnded'
  BY DEF IInv, BeginAfterBlocks, HowItEnded, Advance
<1>4. NoBranchPassed'
  BY SMTT(30), RangeAssumption DEF IInv, TypeOK, NoBranchPassed, Advance
<1> QED
  BY <1>1, <1>2, <1>3, <1>4 DEF IInv

(* Reaching the end without a branch: nothing behind the blocks is one. *)
LEMMA NotFoundIInv == IInv /\ NotFound => IInv'
<1> SUFFICES ASSUME IInv, NotFound PROVE IInv'
  OBVIOUS
<1>1. TypeOK'
  BY DEF IInv, TypeOK, NotFound
<1>2. BlocksTile' /\ BlocksStraight' /\ BlocksCover'
  BY SameBlocks DEF NotFound
<1>3. BeginAfterBlocks' /\ NoBranchPassed'
  BY DEF BeginAfterBlocks, NoBranchPassed, NotFound
<1>4. HowItEnded'
  BY DEF IInv, BeginAfterBlocks, NoBranchPassed, HowItEnded, NotFound
<1> QED
  BY <1>1, <1>2, <1>3, <1>4 DEF IInv

(* A new block tiles on to the last one and is straight-line code. *)
LEMMA FoundIInv == IInv /\ Found => IInv'
<1> SUFFICES ASSUME IInv, Found PROVE IInv'
  OBVIOUS
<1> DEFINE n == Len(blocks)
           new == [first |-> begin, last |-> at + 1]
<1>1. /\ begin \in Begin .. End /\ at \in Begin .. End /\ at # End
      /\ begin <= at /\ new \in Block
      /\ Begin \in Nat /\ End \in Nat
  BY RangeAssumption DEF IInv, TypeOK, NoBranchPassed, Found, Block
<1>2. /\ blocks \in Seq(Block) /\ n \in Nat
      /\ blocks' = Append(blocks, new) /\ Len(blocks') = n + 1
      /\ \A b \in 1 .. n : blocks'[b] = blocks[b]
      /\ blocks'[n + 1] = new
  BY <1>1 DEF IInv, TypeOK, Block, Found
<1>3. Binary' = Binary /\ at' = at /\ Binary[at] \in IsBrach
  BY DEF Found
<1>4. begin = IF n = 0 THEN Begin ELSE blocks[n].last
  BY DEF IInv, BeginAfterBlocks, Found
<1>5. TypeOK'
  <2>1. blocks' \in Seq(Block)
    BY <1>1, <1>2
  <2>2. pc' \in {"outer", "done"} /\ begin' \in {begin, at + 1}
    BY DEF Found
  <2> QED
    BY <1>1, <1>3, <2>1, <2>2 DEF IInv, TypeOK, Block
<1>6. BlocksTile'
  <2> SUFFICES ASSUME NEW b \in 1 .. n + 1
               PROVE  /\ blocks'[b].first = IF b = 1 THEN Begin ELSE blocks'[b - 1].last
                      /\ blocks'[b].first < blocks'[b].last
    BY <1>2 DEF BlocksTile
  <2>1. CASE b = n + 1
    <3>1. n # 0 => blocks'[b - 1] = blocks[n]
      BY <1>2, <2>1
    <3> QED
      BY <1>1, <1>2, <1>4, <2>1, <3>1
  <2>2. CASE b \in 1 .. n
    <3>1. b # 1 => blocks'[b - 1] = blocks[b - 1]
      BY <1>2, <2>2
    <3> QED
      BY <1>2, <2>2, <3>1 DEF IInv, BlocksTile
  <2> QED
    BY <1>2, <2>1, <2>2
<1>7. BlocksStraight'
  <2> SUFFICES ASSUME NEW b \in 1 .. n + 1
               PROVE  /\ Binary[blocks'[b].last - 1] \in IsBrach
                      /\ \A i \in blocks'[b].first .. blocks'[b].last - 2 :
                           Binary[i] \notin IsBrach
                      /\ Binary[blocks'[b].last - 1] = Zero =>
                           b = n + 1 /\ pc' = "done"
    BY <1>2, <1>3 DEF BlocksStraight
  <2>1. CASE b = n + 1
    <3>1. blocks'[b].first = begin /\ blocks'[b].last - 1 = at
                                   /\ blocks'[b].last - 2 = at - 1
      BY <1>1, <1>2, <2>1
    <3> QED
      BY <1>3, <2>1, <3>1 DEF IInv, NoBranchPassed, Found
  <2>2. CASE b \in 1 .. n
    BY <1>2, <2>2 DEF IInv, BlocksStraight, Found
  <2> QED
    BY <1>2, <2>1, <2>2
<1>8. BlocksCover'
  <2> SUFFICES ASSUME NEW b \in 1 .. n + 1,
                      NEW i \in Begin .. blocks'[b].last - 1
               PROVE  \E c \in 1 .. n + 1 :
                        blocks'[c].first <= i /\ i < blocks'[c].last
    BY <1>2 DEF BlocksCover, Covered
  <2>1. CASE begin <= i /\ b = n + 1
    <3>1. blocks'[n + 1].first <= i /\ i < blocks'[n + 1].last
      BY <1>1, <1>2, <2>1
    <3> QED
      BY <1>2, <3>1
  <2>2. CASE \E d \in 1 .. n : i \in Begin .. blocks[d].last - 1
    <3>1. PICK c \in 1 .. n : blocks[c].first <= i /\ i < blocks[c].last
      BY <2>2 DEF IInv, BlocksCover, Covered
    <3> QED
      BY <1>2, <3>1
  <2>3. CASE ~(begin <= i) /\ b = n + 1
    <3>1. n # 0 /\ i \in Begin .. blocks[n].last - 1
      BY <1>1, <1>2, <1>4, <2>3
    <3> QED
      BY <1>2, <2>2, <3>1
  <2>4. CASE b \in 1 .. n
    BY <1>2, <2>2, <2>4
  <2> QED
    BY <1>2, <2>1, <2>3, <2>4
<1>9. BeginAfterBlocks' /\ HowItEnded'
  <2>1. n + 1 > 0 /\ n + 1 # 0 /\ blocks'[n + 1].last = at + 1
                  /\ blocks'[n + 1].last - 1 = at
    BY <1>1, <1>2
  <2> QED
    BY <1>2, <1>3, <2>1 DEF Found, BeginAfterBlocks, HowItEnded
<1>10. NoBranchPassed'
  BY DEF Found, NoBranchPassed
<1> QED
  BY <1>5, <1>6, <1>7, <1>8, <1>9, <1>10 DEF IInv

(* Nothing changes. *)
LEMMA StutterIInv == IInv /\ UNCHANGED vars => IInv'
BY DEF IInv, TypeOK, BlocksTile, BlocksStraight, BeginAfterBlocks,
       NoBranchPassed, BlocksCover, Covered, HowItEnded, vars

(* Every turn of the loops keeps IInv. *)
LEMMA NextIInv == IInv /\ [Next]_vars => IInv'
BY OuterIInv, AdvanceIInv, FoundIInv, NotFoundIInv, StutterIInv DEF Next

(* IInv is inductive: it holds between any two turns of the loops. *)
THEOREM Invariance == Spec => []IInv
BY InitIInv, NextIInv, PTL DEF Spec

(* The variables stay in their ranges: no block reaches beyond End and no  *)
(* word outside Begin .. End - 1 is read.                                  *)
THEOREM TypeCorrect == Spec => []TypeOK
BY Invariance, PTL DEF IInv

(* The blocks tile the code from Begin on. *)
THEOREM Tiling == Spec => []BlocksTile
BY Invariance, PTL DEF IInv

(* Every block is straight-line code that ends in a branch. *)
THEOREM StraightLine == Spec => []BlocksStraight
BY Invariance, PTL DEF IInv

(* Every branch up to the first 0 that ends a block is in a block. *)
THEOREM Complete == Spec => []NothingLost
<1>1. IInv => NothingLost
  <2> SUFFICES ASSUME IInv, pc = "done",
                      NEW i \in Begin .. End - 1, Binary[i] \in IsBrach
               PROVE  \/ Covered(i)
                      \/ \E j \in Begin .. i - 1 : Binary[j] = Zero /\ Covered(j)
    BY DEF NothingLost
  <2> DEFINE n == Len(blocks)
  <2>1. /\ Begin \in Nat /\ End \in Nat /\ n \in Nat
        /\ begin \in Begin .. End /\ blocks \in Seq(Block)
        /\ \A b \in 1 .. n : blocks[b] \in Block
    <3>1. blocks \in Seq(Block)
      BY DEF IInv, TypeOK, Block
    <3>2. n \in Nat /\ \A b \in 1 .. n : blocks[b] \in Block
      BY <3>1
    <3> QED
      BY RangeAssumption, <3>1, <3>2 DEF IInv, TypeOK
  <2>2. ASSUME n > 0, i < blocks[n].last PROVE Covered(i)
    <3>1. n \in 1 .. n /\ i \in Begin .. blocks[n].last - 1
      BY <2>1, <2>2 DEF Block
    <3> QED
      BY <3>1 DEF IInv, BlocksCover
  <2>3. CASE /\ n > 0
             /\ Binary[blocks[n].last - 1] = Zero
    <3> DEFINE j == blocks[n].last - 1
    <3>1. blocks[n] \in Block /\ blocks[n].first < blocks[n].last
      BY <2>1, <2>3 DEF IInv, BlocksTile
    <3>2. j \in Begin .. End /\ Covered(j)
      BY <2>1, <2>3, <3>1 DEF IInv, BlocksCover, Block
    <3>3. i < blocks[n].last \/ j \in Begin .. i - 1
      BY <2>1, <3>1, <3>2 DEF Block
    <3> QED
      BY <2>2, <2>3, <3>2, <3>3
  <2>4. CASE /\ begin = IF n = 0 THEN Begin ELSE blocks[n].last
             /\ \A k \in begin .. End - 1 : Binary[k] \notin IsBrach
    <3>1. i < begin
      BY <2>1, <2>4
    <3> QED
      BY <2>1, <2>2, <2>4, <3>1
  <2> QED
    BY <2>3, <2>4 DEF IInv, HowItEnded
<1> QED
  BY Invariance, <1>1, PTL
=============================================================================
