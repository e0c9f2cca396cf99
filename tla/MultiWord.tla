----------------------------- MODULE MultiWord ------------------------------
(***************************************************************************)
(* Numbers of two words added and subtracted with the instructions that    *)
(* spu-insns.h lists under "new multiprecision add/sub".  The low words go *)
(* through a and cg, or sf and bg; the high words take the carry or borrow *)
(* those left, through addx and cgx, or sfx and bgx, and leave one for a   *)
(* third word.  A borrow is 0 and no borrow 1.                             *)
(***************************************************************************)
EXTENDS LaneOps

VARIABLES
  op,      \* "add", "sub": RA + RB or RB - RA
  RA, RB,  \* the operands: words 1, the low one, and 2
  RT,      \* the result so far
  carry,   \* what cg, bg, cgx or bgx returned last
  done     \* the number of words done

vars == <<op, RA, RB, RT, carry, done>>

(* The words of a result are words, and a carry is a bit. *)
TypeOK ==
  /\ op \in {"add", "sub"}
  /\ RA \in [1 .. 2 -> Word]
  /\ RB \in [1 .. 2 -> Word]
  /\ RT \in [1 .. 2 -> Word]
  /\ carry \in {0, 1}
  /\ done \in 0 .. 2

Init ==
  /\ op \in {"add", "sub"}
  /\ RA \in [1 .. 2 -> Word]
  /\ RB \in [1 .. 2 -> Word]
  /\ RT = [i \in 1 .. 2 |-> 0]
  /\ carry = 0
  /\ done = 0

-----------------------------------------------------------------------------

(* Word i of the result and the carry it leaves. *)
Step(i, word, carryOut) ==
  /\ done = i - 1
  /\ RT' = [RT EXCEPT ![i] = word]
  /\ carry' = carryOut
  /\ done' = i
  /\ UNCHANGED <<op, RA, RB>>

AddLow ==
  op = "add" /\ Step(1, si_a(RA[1], RB[1]), si_cg(RA[1], RB[1]))

AddHigh ==
  /\ op = "add"
  /\ Step(2, si_addx(RA[2], RB[2], carry), si_cgx(RA[2], RB[2], carry))

SubLow ==
  op = "sub" /\ Step(1, si_sf(RA[1], RB[1]), si_bg(RA[1], RB[1]))

SubHigh ==
  /\ op = "sub"
  /\ Step(2, si_sfx(RA[2], RB[2], carry), si_bgx(RA[2], RB[2], carry))

Next == AddLow \/ AddHigh \/ SubLow \/ SubHigh

Spec == Init /\ [][Next]_vars

-----------------------------------------------------------------------------

Value(w) == w[1] + Modulus * w[2]

(* What the result may be off by: the word behind the high one. *)
Range == Modulus * Modulus

(* The two words are the sum of the operands, up to an overflow. *)
SumIsRight ==
  op = "add" /\ done = 2 =>
    \E overflow \in {0, 1} :
      Value(RT) + Range * overflow = Value(RA) + Value(RB)

(* The rows of the table that bg and sfx have picture sums                 *)
(* (spu-insns.h:356-357): bg "CarryGenerate RT<-cout(RA+RB)", and sfx      *)
(* "Add_eXtended  RT<-RA+RB+RT".  bg returns that carry only where the     *)
(* carry and the borrow happen to be the same bit, and sfx never returns   *)
(* that sum.                                                               *)
SumsNotPictured ==
  op = "sub" =>
    LET noBorrow == RB[1] >= RA[1]
        carries == RA[1] + RB[1] >= Modulus
    IN /\ done = 1 =>
            ((carry = IF carries THEN 1 ELSE 0) <=> (noBorrow <=> carries))
       /\ done = 2 =>
            RT[2] # (RA[2] + RB[2] + (IF noBorrow THEN 1 ELSE 0)) % Modulus

(* The two words are the difference of the operands, up to a borrow: sf,   *)
(* bg and sfx do what sf is pictured as ("RT<-RB-RA") and the comments in  *)
(* si_bg and si_bgx say (spu_internals_x86.h:153, :160, "returns 0 if it   *)
(* borrows"), and not what the rows of sfx and bg picture.                 *)
DifferenceIsRight ==
  /\ op = "sub" /\ done = 2 =>
       \E borrow \in {0, 1} :
         Value(RT) - Range * borrow = Value(RB) - Value(RA)
  /\ SumsNotPictured

(* "RT<-cout(RA+RB+RT)": the carry cgx hands to a third word is wrong       *)
(* exactly when there is a carry in and the high words add up to 2^32 - 2, *)
(* or to the largest sum there is, 2^33 - 2.                               *)
CarryOutExcept ==
  op = "add" /\ done = 2 =>
    (((carry = 1) <=> (Value(RA) + Value(RB) >= Range))
       <=> \/ RA[1] + RB[1] < Modulus
           \/ RA[2] + RB[2] \notin {Modulus - 2, 2 * Modulus - 2})

(* "returns 0 if it borrows": bgx does so with the borrow of the difference *)
(* exactly when the high word of RA, which it does not read, makes no      *)
(* difference to it.  The table's picture of bgx, "RT<-cout(RA+RB+RT)"     *)
(* (spu-insns.h:358), is that of cgx.                                      *)
BorrowOutExcept ==
  op = "sub" /\ done = 2 =>
    (((carry = 0) <=> (Value(RB) < Value(RA)))
       <=> IF RB[1] < RA[1] THEN 0 < RB[2] /\ RB[2] <= RA[2]
                            ELSE RA[2] <= RB[2])

-----------------------------------------------------------------------------

(* The parts of the inductive invariant that speak of the low words: the   *)
(* carry or borrow left after them makes up for what the low word of the   *)
(* result is short of.                                                     *)
LowSum ==
  op = "add" /\ done = 1 => RA[1] + RB[1] = RT[1] + Modulus * carry

LowDifference ==
  op = "sub" /\ done = 1 => RB[1] - RA[1] = RT[1] - Modulus * (1 - carry)

(* What is true between any two instructions of the chain: the inductive   *)
(* invariant behind the four properties above.                            *)
IInv ==
  /\ TypeOK
  /\ LowSum /\ LowDifference
  /\ SumIsRight /\ DifferenceIsRight
  /\ CarryOutExcept /\ BorrowOutExcept

=============================================================================
