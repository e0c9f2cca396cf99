------------------------------ MODULE QuadMove ------------------------------
(***************************************************************************)
(* The handlers that move the bytes of a quadword: rotqby, shlqby and      *)
(* rotqmby with their immediate and bit-count forms.  Each ends in a loop  *)
(* that writes RT byte by byte while it reads RA, and RT and RA may be the *)
(* same register: one step here is one turn of the loop.                   *)
(*                                                                         *)
(* Registers are numbers of seven bits: the field RB of an instruction is  *)
(* the same seven bits as its immediate I7.                                *)
(***************************************************************************)
EXTENDS SpuState

CONSTANT NoInsn

Field == 0 .. 127   \* an operand field of seven bits

(* How the bytes move, where the count comes from, the fields of the       *)
(* instruction and s, the count the loop works with.                       *)
Insn == [move : {"rotate", "shift", "mask"}, form : {"imm", "by", "bybi"},
         RT : Reg, RA : Reg, RB : Field, s : 0 .. 31]

ASSUME RegAssumption == Reg \subseteq Field
ASSUME NoInsnAssumption == NoInsn \notin Insn

VARIABLES
  insn,    \* the instruction that runs, or ran last
  i,       \* where its loop is; no index when it has ended
  before   \* the registers when the instruction began

vars == <<GPR, insn, i, before>>

TypeOK ==
  /\ GPR \in [Reg -> Quad]
  /\ before \in [Reg -> Quad]
  /\ insn \in Insn \cup {NoInsn}
  /\ i \in -1 .. 16
  /\ insn = NoInsn => i = 16
  /\ insn # NoInsn => i # IF insn.move = "shift" THEN 16 ELSE -1

(* Loads may have put anything into the registers. *)
Init ==
  /\ GPR \in [Reg -> Quad]
  /\ before = GPR
  /\ insn = NoInsn
  /\ i = 16

-----------------------------------------------------------------------------

(* SignExtend( I7, 7 ) *)
SignExtend7(x) == IF x < 64 THEN x ELSE x - 128

Start(move, form, RT, RA, RB, s, first) ==
  /\ i \notin Index
  /\ insn' = [move |-> move, form |-> form, RT |-> RT, RA |-> RA,
              RB |-> RB, s |-> s]
  /\ i' = first
  /\ before' = GPR
  /\ UNCHANGED GPR

StartRotate(form, RT, RA, RB, I7) ==
  Start("rotate", form, RT, RA, RB, I7 % 16, 0)

StartShift(form, RT, RA, RB, I7) ==
  Start("shift", form, RT, RA, RB, I7 % 32, 15)

(* Mutant: the count is cut to four bits. *)
StartMaskNarrow(form, RT, RA, RB, I7) ==
  Start("mask", form, RT, RA, RB, (0 - SignExtend7(I7)) % 16, 0)

StartMask(form, RT, RA, RB, I7) ==
  Start("mask", form, RT, RA, RB, (0 - SignExtend7(I7)) % 32, 0)

spu_rotqbyi(RT, RA, I7) == StartRotate("imm", RT, RA, I7, I7)
spu_rotqby(RT, RA, RB) ==
  StartRotate("by", RT, RA, RB, PrefWord(GPR[RB]) % 16)
spu_rotqbybi(RT, RA, RB) ==
  StartRotate("bybi", RT, RA, RB, (PrefWord(GPR[RB]) \div 8) % 16)

spu_shlqbyi(RT, RA, I7) == StartShift("imm", RT, RA, I7, I7)
spu_shlqby(RT, RA, RB) ==
  StartShift("by", RT, RA, RB, PrefWord(GPR[RB]) % 32)
spu_shlqbybi(RT, RA, RB) ==
  StartShift("bybi", RT, RA, RB, (PrefWord(GPR[RB]) \div 8) % 32)

(* The count goes through the seven bits of I7, cut and not masked. *)
spu_rotqmbyi(RT, RA, I7) == StartMask("imm", RT, RA, I7, I7)
spu_rotqmby(RT, RA, RB) ==
  StartMask("by", RT, RA, RB, PrefWord(GPR[RB]) % 128)
spu_rotqmbybi(RT, RA, RB) ==
  StartMask("bybi", RT, RA, RB, (PrefWord(GPR[RB]) \div 8) % 128)

-----------------------------------------------------------------------------

(* One turn of a loop: byte i of RT is written, and i moves on by step. *)
Turn(move, byte, step) ==
  /\ i \in Index
  /\ insn.move = move
  /\ GPR' = [GPR EXCEPT ![insn.RT][i] = byte]
  /\ i' = i + step
  /\ UNCHANGED <<insn, before>>

(* Mutant: the bytes are taken from the other side. *)
RotateTurnRight == Turn("rotate", GPR[insn.RA][(i + insn.s) % 16], 1)

RotateTurn == Turn("rotate", GPR[insn.RA][(i - insn.s) % 16], 1)

ShiftTurn ==
  Turn("shift", IF i < insn.s THEN 0 ELSE GPR[insn.RA][i - insn.s], -1)

MaskTurn ==
  Turn("mask", IF i + insn.s < 16 THEN GPR[insn.RA][i + insn.s] ELSE 0, 1)

Immediate(RT, RA, I7) ==
  \/ spu_rotqbyi(RT, RA, I7)
  \/ spu_shlqbyi(RT, RA, I7)
  \/ spu_rotqmbyi(RT, RA, I7)

ByRegister(RT, RA, RB) ==
  \/ spu_rotqby(RT, RA, RB) \/ spu_rotqbybi(RT, RA, RB)
  \/ spu_shlqby(RT, RA, RB) \/ spu_shlqbybi(RT, RA, RB)
  \/ spu_rotqmby(RT, RA, RB) \/ spu_rotqmbybi(RT, RA, RB)

Execute ==
  \E RT, RA \in Reg :
    \/ \E I7 \in Field : Immediate(RT, RA, I7)
    \/ \E RB \in Reg : ByRegister(RT, RA, RB)

Next == Execute \/ RotateTurn \/ ShiftTurn \/ MaskTurn

Spec == Init /\ [][Next]_vars

-----------------------------------------------------------------------------

Done == insn # NoInsn /\ i \notin Index

(* Byte k of a register as the architecture counts, from the left. *)
ByteOf(q, k) == q[15 - k]

(* The count an operand gives, before any handler cut it to size.          *)
CountIn(regs, form, RB) ==
  CASE form = "imm" -> RB
    [] form = "by" -> PrefWord(regs[RB])
    [] OTHER -> PrefWord(regs[RB]) \div 8

Count == CountIn(before, insn.form, insn.RB)

(* shlqby moves the bytes left and rotqmby right by the negative count,    *)
(* zeros follow, and more than 15 leave nothing: also when the loop writes *)
(* the register it reads, and whatever way the count took.                 *)
ShiftsMove ==
  Done =>
    \A k \in Index :
      /\ insn.move = "shift" =>
           ByteOf(GPR[insn.RT], k) =
             IF k + (Count % 32) < 16
             THEN ByteOf(before[insn.RA], k + (Count % 32)) ELSE 0
      /\ insn.move = "mask" =>
           ByteOf(GPR[insn.RT], k) =
             IF (0 - Count) % 32 <= k
             THEN ByteOf(before[insn.RA], k - ((0 - Count) % 32)) ELSE 0

(* rotqby rotates the bytes left when RT is another register than RA. *)
RotatesApart ==
  Done /\ insn.move = "rotate" /\ insn.RT # insn.RA =>
    \A k \in Index :
      ByteOf(GPR[insn.RT], k) = ByteOf(before[insn.RA], (k + Count) % 16)

(* "RT<-RA<<<(I7*8)" does not hold of a register rotated in place: the loop *)
(* reads what it has written, and the register ends up holding its first   *)
(* bytes over and over, as many as it should have moved by.                *)
RotatesInPlace ==
  Done /\ insn.move = "rotate" /\ insn.RT = insn.RA =>
    LET s == Count % 16
        old == before[insn.RA]
    IN \A k \in Index :
         ByteOf(GPR[insn.RT], k) =
           IF s = 0 THEN ByteOf(old, k) ELSE ByteOf(old, s - 1 - ((15 - k) % s))

-----------------------------------------------------------------------------

(* The byte a turn at index j should write, from the registers before. *)
Target(j) ==
  LET a == before[insn.RA]
      s == insn.s
  IN  CASE insn.move = "rotate" -> a[(j - s) % 16]
        [] insn.move = "shift" -> IF j < s THEN 0 ELSE a[j - s]
        [] OTHER -> IF j + s < 16 THEN a[j + s] ELSE 0

(* Whether the loop has been at index j. *)
Written(j) == IF insn.move = "shift" THEN i < j ELSE j < i

(* The count a loop should work with. *)
Cut(move, count) ==
  CASE move = "rotate" -> count % 16
    [] move = "shift" -> count % 32
    [] OTHER -> (0 - count) % 32

(* The loop works with the count of the operand, whatever way it took.     *)
CountFits ==
  insn # NoInsn =>
    /\ insn.form # "imm" => insn.RB \in Reg
    /\ insn.s = Cut(insn.move, Count)

(* Between any two turns: the bytes behind the loop are what they should   *)
(* be, the ones ahead and every other register are as they were.           *)
Progress ==
  insn # NoInsn /\ (insn.move = "rotate" => insn.RT # insn.RA) =>
    /\ \A j \in Index :
         GPR[insn.RT][j] =
           IF Written(j) THEN Target(j) ELSE before[insn.RT][j]
    /\ \A r \in Reg \ {insn.RT} : GPR[r] = before[r]

(* The same of a register rotated in place: the bytes come from its last   *)
(* insn.s bytes over and over.                                             *)
TargetInPlace(j) ==
  LET a == before[insn.RA]
      s == insn.s
  IN  IF s = 0 THEN a[j] ELSE a[16 - s + (j % s)]

ProgressInPlace ==
  insn # NoInsn /\ insn.move = "rotate" /\ insn.RT = insn.RA =>
    \A j \in Index :
      GPR[insn.RT][j] = IF j < i THEN TargetInPlace(j) ELSE before[insn.RT][j]

IInv == TypeOK /\ CountFits /\ Progress /\ ProgressInPlace
=============================================================================
