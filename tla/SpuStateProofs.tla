--------------------------- MODULE SpuStateProofs ---------------------------
(***************************************************************************)
(* Proofs about the handlers that move quadwords.  QuadMove: shifts by     *)
(* bytes are right for every content of the registers, every count and     *)
(* every choice of registers, rotations whenever RT is not RA; and what a  *)
(* rotation in place leaves.  SpuMemory: for a storage of any size and any *)
(* addresses, loads and stores stay in the storage and in one line, and a  *)
(* load returns what the last store into the line put there.               *)
(***************************************************************************)
EXTENDS QuadMove, SpuMemory, TLAPS

(* The count that reaches the loop is the one of the operand, although it  *)
(* is cut to a field of seven bits and a mask on its way.                  *)
LEMMA Counts ==
  ASSUME NEW c \in Nat
  PROVE  /\ (c % 16) % 16 = c % 16
         /\ (c % 32) % 32 = c % 32
         /\ (0 - SignExtend7(c % 128)) % 32 = (0 - c) % 32
  BY SMTT(30) DEF SignExtend7

(* The counts an operand can give. *)
LEMMA CountType ==
  ASSUME NEW regs \in [Reg -> Quad], NEW form \in {"imm", "by", "bybi"},
         NEW RB \in Field, form # "imm" => RB \in Reg
  PROVE  CountIn(regs, form, RB) \in Nat
<1>1. CASE form = "imm"
  BY <1>1 DEF CountIn, Field
<1>2. CASE form # "imm"
  <2> DEFINE q == regs[RB]
  <2>1. q[12] \in Nat /\ q[13] \in Nat /\ q[14] \in Nat
    <3>1. q \in [Index -> Byte]
      BY <1>2 DEF Quad
    <3>2. 12 \in Index /\ 13 \in Index /\ 14 \in Index
      BY DEF Index
    <3>3. q[12] \in Byte /\ q[13] \in Byte /\ q[14] \in Byte
      BY <3>1, <3>2
    <3> QED
      BY <3>3 DEF Byte
  <2> HIDE DEF q
  <2>2. PrefWord(q) \in Nat
    BY <2>1 DEF PrefWord
  <2>3. PrefWord(q) \div 8 \in Nat
    BY <2>2
  <2> QED
    BY <1>2, <2>2, <2>3 DEF CountIn, q
<1> QED
  BY <1>1, <1>2

(* What Start leaves, whatever instruction it starts. *)
LEMMA StartIInv ==
  ASSUME IInv,
         NEW move \in {"rotate", "shift", "mask"},
         NEW form \in {"imm", "by", "bybi"},
         NEW RT \in Reg, NEW RA \in Reg, NEW RB \in Field,
         form # "imm" => RB \in Reg,
         NEW s \in 0 .. 31, NEW first \in {0, 15},
         first = (IF move = "shift" THEN 15 ELSE 0),
         s = Cut(move, CountIn(GPR, form, RB)),
         Start(move, form, RT, RA, RB, s, first)
  PROVE  IInv'
<1>1. insn' \in Insn /\ insn' # NoInsn
  BY NoInsnAssumption DEF Start, Insn
<1>2. TypeOK'
  BY <1>1 DEF IInv, TypeOK, Start
<1>3. CountFits'
  BY DEF CountFits, Count, Start
<1>4. Progress'
  BY DEF Progress, Written, Start, Index
<1>5. ProgressInPlace'
  BY DEF ProgressInPlace, Start, Index
<1> QED
  BY <1>2, <1>3, <1>4, <1>5 DEF IInv

(* The three ways to a loop: each cuts the count it is given, which the    *)
(* forms may have cut before, to what the loop should work with.           *)
LEMMA StartRotateIInv ==
  ASSUME IInv, NEW form \in {"imm", "by", "bybi"},
         NEW RT \in Reg, NEW RA \in Reg, NEW RB \in Field,
         form # "imm" => RB \in Reg,
         NEW I7, I7 % 16 = CountIn(GPR, form, RB) % 16,
         StartRotate(form, RT, RA, RB, I7)
  PROVE  IInv'
<1>1. CountIn(GPR, form, RB) \in Nat
  BY CountType DEF IInv, TypeOK
<1>2. I7 % 16 = Cut("rotate", CountIn(GPR, form, RB))
  BY DEF Cut
<1>3. I7 % 16 \in 0 .. 31
  BY <1>1
<1>4. Start("rotate", form, RT, RA, RB, I7 % 16, 0)
  BY DEF StartRotate
<1> QED
  BY <1>2, <1>3, <1>4, StartIInv

LEMMA StartShiftIInv ==
  ASSUME IInv, NEW form \in {"imm", "by", "bybi"},
         NEW RT \in Reg, NEW RA \in Reg, NEW RB \in Field,
         form # "imm" => RB \in Reg,
         NEW I7, I7 % 32 = CountIn(GPR, form, RB) % 32,
         StartShift(form, RT, RA, RB, I7)
  PROVE  IInv'
<1>1. CountIn(GPR, form, RB) \in Nat
  BY CountType DEF IInv, TypeOK
<1>2. I7 % 32 = Cut("shift", CountIn(GPR, form, RB))
  BY DEF Cut
<1>3. I7 % 32 \in 0 .. 31
  BY <1>1
<1>4. Start("shift", form, RT, RA, RB, I7 % 32, 15)
  BY DEF StartShift
<1> QED
  BY <1>2, <1>3, <1>4, StartIInv

LEMMA StartMaskIInv ==
  ASSUME IInv, NEW form \in {"imm", "by", "bybi"},
         NEW RT \in Reg, NEW RA \in Reg, NEW RB \in Field,
         form # "imm" => RB \in Reg,
         NEW I7, I7 = CountIn(GPR, form, RB) % 128,
         StartMask(form, RT, RA, RB, I7)
  PROVE  IInv'
<1> DEFINE s == (0 - SignExtend7(I7)) % 32
<1>1. CountIn(GPR, form, RB) \in Nat
  BY CountType DEF IInv, TypeOK
<1>2. s = (0 - CountIn(GPR, form, RB)) % 32
  BY <1>1, Counts
<1>3. s = Cut("mask", CountIn(GPR, form, RB))
  BY <1>2 DEF Cut
<1>4. s \in 0 .. 31
  BY <1>1, <1>2
<1>5. Start("mask", form, RT, RA, RB, s, 0)
  BY DEF StartMask
<1> HIDE DEF s
<1> QED
  BY <1>3, <1>4, <1>5, StartIInv

(* An instruction starts with nothing written. *)
LEMMA ExecuteIInv == IInv /\ Execute => IInv'
<1> SUFFICES ASSUME IInv, NEW RT \in Reg, NEW RA \in Reg,
                    \/ \E I7 \in Field : Immediate(RT, RA, I7)
                    \/ \E RB \in Reg : ByRegister(RT, RA, RB)
             PROVE  IInv'
  BY DEF Execute
<1>1. ASSUME NEW I7 \in Field, Immediate(RT, RA, I7)
      PROVE  IInv'
  <2>1. I7 \in Nat /\ I7 % 128 = I7 /\ CountIn(GPR, "imm", I7) = I7
    BY DEF Field, CountIn
  <2>2. CASE spu_rotqbyi(RT, RA, I7)
    BY <2>1, <2>2, StartRotateIInv DEF spu_rotqbyi
  <2>3. CASE spu_shlqbyi(RT, RA, I7)
    BY <2>1, <2>3, StartShiftIInv DEF spu_shlqbyi
  <2>4. CASE spu_rotqmbyi(RT, RA, I7)
    BY <2>1, <2>4, StartMaskIInv DEF spu_rotqmbyi
  <2> QED
    BY <1>1, <2>2, <2>3, <2>4 DEF Immediate
<1>2. ASSUME NEW RB \in Reg, ByRegister(RT, RA, RB)
      PROVE  IInv'
  <2> DEFINE by == CountIn(GPR, "by", RB)
             bybi == CountIn(GPR, "bybi", RB)
  <2>1. RB \in Field
    BY RegAssumption
  <2>2. by \in Nat /\ bybi \in Nat
    BY <2>1, CountType DEF IInv, TypeOK
  <2>3. by = PrefWord(GPR[RB]) /\ bybi = PrefWord(GPR[RB]) \div 8
    BY DEF CountIn
  <2> HIDE DEF by, bybi
  <2>4. CASE spu_rotqby(RT, RA, RB)
    <3>1. StartRotate("by", RT, RA, RB, by % 16) /\ (by % 16) % 16 = by % 16
      BY <2>2, <2>3, <2>4, Counts DEF spu_rotqby
    <3> QED
      BY <2>1, <3>1, StartRotateIInv DEF by
  <2>5. CASE spu_rotqbybi(RT, RA, RB)
    <3>1. /\ StartRotate("bybi", RT, RA, RB, bybi % 16)
          /\ (bybi % 16) % 16 = bybi % 16
      BY <2>2, <2>3, <2>5, Counts DEF spu_rotqbybi
    <3> QED
      BY <2>1, <3>1, StartRotateIInv DEF bybi
  <2>6. CASE spu_shlqby(RT, RA, RB)
    <3>1. StartShift("by", RT, RA, RB, by % 32) /\ (by % 32) % 32 = by % 32
      BY <2>2, <2>3, <2>6, Counts DEF spu_shlqby
    <3> QED
      BY <2>1, <3>1, StartShiftIInv DEF by
  <2>7. CASE spu_shlqbybi(RT, RA, RB)
    <3>1. /\ StartShift("bybi", RT, RA, RB, bybi % 32)
          /\ (bybi % 32) % 32 = bybi % 32
      BY <2>2, <2>3, <2>7, Counts DEF spu_shlqbybi
    <3> QED
      BY <2>1, <3>1, StartShiftIInv DEF bybi
  <2>8. CASE spu_rotqmby(RT, RA, RB)
    <3>1. StartMask("by", RT, RA, RB, by % 128)
      BY <2>3, <2>8 DEF spu_rotqmby
    <3> QED
      BY <2>1, <3>1, StartMaskIInv DEF by
  <2>9. CASE spu_rotqmbybi(RT, RA, RB)
    <3>1. StartMask("bybi", RT, RA, RB, bybi % 128)
      BY <2>3, <2>9 DEF spu_rotqmbybi
    <3> QED
      BY <2>1, <3>1, StartMaskIInv DEF bybi
  <2> QED
    BY <1>2, <2>4, <2>5, <2>6, <2>7, <2>8, <2>9 DEF ByRegister
<1> QED
  BY <1>1, <1>2
(* A turn that writes byte i as it should be and moves on.                 *)
LEMMA TurnIInv ==
  ASSUME IInv,
         NEW move, NEW byte, NEW step \in {-1, 1},
         step = (IF move = "shift" THEN -1 ELSE 1),
         Turn(move, byte, step),
         byte \in Byte,
         (move = "rotate" => insn.RT # insn.RA) => byte = Target(i),
         move = "rotate" /\ insn.RT = insn.RA => byte = TargetInPlace(i)
  PROVE  IInv'
<1>1. /\ insn \in Insn /\ insn.RT \in Reg /\ insn.RA \in Reg
      /\ insn.move = move /\ i \in Index /\ insn # NoInsn
  BY DEF IInv, TypeOK, Turn, Index, Insn
<1>2. TypeOK'
  <2>1. GPR' \in [Reg -> Quad]
    <3>1. [GPR[insn.RT] EXCEPT ![i] = byte] \in Quad
      BY <1>1 DEF IInv, TypeOK, Quad
    <3> QED
      BY <1>1, <3>1 DEF IInv, TypeOK, Turn
  <2>2. i' \in -1 .. 16 /\ (i' = -1 <=> move = "shift" /\ i = 0)
                       /\ (i' = 16 <=> move # "shift" /\ i = 15)
    BY <1>1 DEF Turn, Index
  <2> QED
    BY <1>1, <2>1, <2>2 DEF IInv, TypeOK, Turn
<1>3. CountFits'
  BY DEF IInv, CountFits, Count, Turn
<1>4. Progress'
  <2> SUFFICES ASSUME move = "rotate" => insn.RT # insn.RA
               PROVE  /\ \A j \in Index :
                           GPR'[insn.RT][j] =
                             IF Written(j)' THEN Target(j)
                             ELSE before[insn.RT][j]
                      /\ \A r \in Reg \ {insn.RT} : GPR'[r] = before[r]
    BY <1>1 DEF Progress, Target, Turn
  <2>1. /\ \A j \in Index :
             GPR[insn.RT][j] =
               IF Written(j) THEN Target(j) ELSE before[insn.RT][j]
        /\ \A r \in Reg \ {insn.RT} : GPR[r] = before[r]
    BY <1>1 DEF IInv, Progress
  <2>2. byte = Target(i)
    OBVIOUS
  <2>3. \A r \in Reg \ {insn.RT} : GPR'[r] = before[r]
    BY <1>1, <2>1 DEF IInv, TypeOK, Turn
  <2>4. GPR'[insn.RT] = [GPR[insn.RT] EXCEPT ![i] = byte]
    BY <1>1 DEF IInv, TypeOK, Turn
  <2>5. ASSUME NEW j \in Index
        PROVE  GPR'[insn.RT][j] = IF j = i THEN byte ELSE GPR[insn.RT][j]
    BY <1>1, <2>4 DEF IInv, TypeOK, Quad
  <2>6. ASSUME NEW j \in Index
        PROVE  Written(j)' <=> (j = i \/ Written(j))
    BY <1>1 DEF Written, Turn, Index
  <2>7. ~Written(i)
    BY <1>1 DEF Written, Index
  <2> QED
    BY <2>1, <2>2, <2>3, <2>5, <2>6, <2>7
<1>5. ProgressInPlace'
  <2> SUFFICES ASSUME move = "rotate", insn.RT = insn.RA, NEW j \in Index
               PROVE  GPR'[insn.RT][j] = IF j < i + 1 THEN TargetInPlace(j)
                                         ELSE before[insn.RT][j]
    BY <1>1 DEF ProgressInPlace, TargetInPlace, Turn
  <2>1. GPR[insn.RT][j] =
          IF j < i THEN TargetInPlace(j) ELSE before[insn.RT][j]
    BY <1>1 DEF IInv, ProgressInPlace
  <2>2. GPR'[insn.RT] = [GPR[insn.RT] EXCEPT ![i] = byte]
    BY <1>1 DEF IInv, TypeOK, Turn
  <2>3. GPR'[insn.RT][j] = IF j = i THEN byte ELSE GPR[insn.RT][j]
    BY <1>1, <2>2 DEF IInv, TypeOK, Quad
  <2>4. (j < i + 1) <=> (j = i \/ j < i)
    BY <1>1 DEF Index
  <2> QED
    BY <2>1, <2>3, <2>4
<1> QED
  BY <1>2, <1>3, <1>4, <1>5 DEF IInv

(* What the loops read: a byte of RA that no turn has written yet.         *)
LEMMA Unwritten ==
  ASSUME IInv, insn \in Insn, insn # NoInsn,
         NEW j \in Index, ~Written(j) \/ insn.RT # insn.RA,
         insn.move = "rotate" => insn.RT # insn.RA
  PROVE  GPR[insn.RA][j] = before[insn.RA][j]
  BY DEF IInv, Progress, Insn

(* The count of the loop is that of the operand, cut to size.              *)
LEMMA CountFitsType ==
  ASSUME IInv, insn # NoInsn
  PROVE  Count \in Nat /\ insn.s = Cut(insn.move, Count)
<1>1. insn.RB \in Field /\ insn.form \in {"imm", "by", "bybi"}
  BY DEF IInv, TypeOK, Insn
<1> QED
  BY <1>1, CountType DEF IInv, TypeOK, CountFits, Count

(* Counting modulo the number of bytes a rotation moves by. *)
LEMMA Modulo ==
  ASSUME NEW s \in 1 .. 15, NEW j \in 0 .. 15
  PROVE  j % s \in 0 .. s - 1 /\ (j < s => j % s = j)
           /\ (j >= s => (j - s) % s = j % s)
  OBVIOUS

(* A byte rotated in place comes from a byte that is still unwritten, or   *)
(* was itself written insn.s turns ago.                                    *)
LEMMA ReadInPlace ==
  ASSUME IInv, insn \in Insn, insn # NoInsn, i \in Index,
         insn.move = "rotate", insn.RT = insn.RA, insn.s \in 0 .. 15
  PROVE  GPR[insn.RA][(i - insn.s) % 16] = TargetInPlace(i)
<1> DEFINE s == insn.s
           a == before[insn.RA]
<1>1. \A j \in Index : GPR[insn.RA][j] =
          IF j < i THEN TargetInPlace(j) ELSE a[j]
  BY DEF IInv, ProgressInPlace
<1>2. CASE s = 0
  <2>1. (i - s) % 16 = i
    BY <1>2 DEF Index
  <2> QED
    BY <1>1, <1>2, <2>1 DEF TargetInPlace, Index
<1>3. CASE s # 0 /\ i < s
  <2>1. (i - s) % 16 = 16 - s + i /\ 16 - s + i \in Index /\ 16 - s + i > i
    BY <1>3 DEF Index
  <2>2. i % s = i
    BY <1>3, Modulo DEF Index
  <2>3. TargetInPlace(i) = a[16 - s + i]
    BY <1>3, <2>2 DEF TargetInPlace
  <2>4. GPR[insn.RA][16 - s + i] = a[16 - s + i]
    BY <1>1, <2>1 DEF Index
  <2> QED
    BY <2>1, <2>3, <2>4
<1>4. CASE s # 0 /\ i >= s
  <2>1. (i - s) % 16 = i - s /\ i - s \in Index /\ i - s < i
    BY <1>4 DEF Index
  <2>2. (i - s) % s = i % s
    BY <1>4, Modulo DEF Index
  <2>3. TargetInPlace(i - s) = TargetInPlace(i)
    BY <1>4, <2>2 DEF TargetInPlace
  <2>4. GPR[insn.RA][i - s] = TargetInPlace(i - s)
    BY <1>1, <2>1
  <2> QED
    BY <2>1, <2>3, <2>4
<1> QED
  BY <1>2, <1>3, <1>4 DEF Index

LEMMA RotateTurnIInv == IInv /\ RotateTurn => IInv'
<1> SUFFICES ASSUME IInv, RotateTurn PROVE IInv'
  OBVIOUS
<1>1. /\ insn \in Insn /\ insn # NoInsn /\ insn.move = "rotate"
      /\ insn.RA \in Reg /\ insn.s \in 0 .. 31 /\ i \in Index
  BY DEF IInv, TypeOK, RotateTurn, Turn, Index, Insn
<1> DEFINE j == (i - insn.s) % 16
<1>2. j \in Index
  BY <1>1 DEF Index
<1>3. GPR[insn.RA][j] \in Byte
  BY <1>1, <1>2 DEF IInv, TypeOK, Quad
<1>4. insn.RT # insn.RA => GPR[insn.RA][j] = before[insn.RA][j]
  BY <1>1, <1>2, Unwritten
<1>5. insn.RT # insn.RA => GPR[insn.RA][j] = Target(i)
  BY <1>1, <1>4 DEF Target
<1>6. Turn("rotate", GPR[insn.RA][j], 1)
  BY DEF RotateTurn
<1>7. insn.s \in 0 .. 15
  <2>1. insn.s = Count % 16 /\ Count \in Nat
    BY <1>1, CountFitsType DEF Cut
  <2> QED
    BY <2>1
<1>8. insn.RT = insn.RA => GPR[insn.RA][j] = TargetInPlace(i)
  BY <1>1, <1>7, ReadInPlace
<1> HIDE DEF j
<1> QED
  BY <1>1, <1>3, <1>5, <1>6, <1>8, TurnIInv

(* Going down, the bytes further down are still unwritten. *)
LEMMA ShiftTurnIInv == IInv /\ ShiftTurn => IInv'
<1> SUFFICES ASSUME IInv, ShiftTurn PROVE IInv'
  OBVIOUS
<1>1. /\ insn \in Insn /\ insn # NoInsn /\ insn.move = "shift"
      /\ insn.RA \in Reg /\ insn.s \in 0 .. 31 /\ i \in Index
  BY DEF IInv, TypeOK, ShiftTurn, Turn, Index, Insn
<1> DEFINE byte == IF i < insn.s THEN 0 ELSE GPR[insn.RA][i - insn.s]
<1>2. byte \in Byte /\ byte = Target(i)
  <2>1. CASE i < insn.s
    BY <1>1, <2>1 DEF Target, Byte
  <2>2. CASE ~(i < insn.s)
    <3>1. i - insn.s \in Index /\ ~Written(i - insn.s)
      BY <1>1, <2>2 DEF Index, Written
    <3>2. GPR[insn.RA][i - insn.s] \in Byte
      BY <1>1, <3>1 DEF IInv, TypeOK, Quad
    <3>3. GPR[insn.RA][i - insn.s] = before[insn.RA][i - insn.s]
      BY <1>1, <3>1, Unwritten
    <3> QED
      BY <1>1, <2>2, <3>2, <3>3 DEF Target
  <2> QED
    BY <2>1, <2>2
<1>3. Turn("shift", byte, -1)
  BY DEF ShiftTurn
<1> HIDE DEF byte
<1> QED
  BY <1>2, <1>3, TurnIInv

(* Going up, the bytes further up are still unwritten. *)
LEMMA MaskTurnIInv == IInv /\ MaskTurn => IInv'
<1> SUFFICES ASSUME IInv, MaskTurn PROVE IInv'
  OBVIOUS
<1>1. /\ insn \in Insn /\ insn # NoInsn /\ insn.move = "mask"
      /\ insn.RA \in Reg /\ insn.s \in 0 .. 31 /\ i \in Index
  BY DEF IInv, TypeOK, MaskTurn, Turn, Index, Insn
<1> DEFINE byte == IF i + insn.s < 16 THEN GPR[insn.RA][i + insn.s] ELSE 0
<1>2. byte \in Byte /\ byte = Target(i)
  <2>1. CASE ~(i + insn.s < 16)
    BY <1>1, <2>1 DEF Target, Byte
  <2>2. CASE i + insn.s < 16
    <3>1. i + insn.s \in Index /\ ~Written(i + insn.s)
      BY <1>1, <2>2 DEF Index, Written
    <3>2. GPR[insn.RA][i + insn.s] \in Byte
      BY <1>1, <3>1 DEF IInv, TypeOK, Quad
    <3>3. GPR[insn.RA][i + insn.s] = before[insn.RA][i + insn.s]
      BY <1>1, <3>1, Unwritten
    <3> QED
      BY <1>1, <2>2, <3>2, <3>3 DEF Target
  <2> QED
    BY <2>1, <2>2
<1>3. Turn("mask", byte, 1)
  BY DEF MaskTurn
<1> HIDE DEF byte
<1> QED
  BY <1>2, <1>3, TurnIInv

(* When the loops have ended, IInv says what the registers hold.           *)
LEMMA IInvMoves == IInv => ShiftsMove /\ RotatesApart
<1> SUFFICES ASSUME IInv, Done PROVE ShiftsMove /\ RotatesApart
  BY DEF ShiftsMove, RotatesApart
<1>1. /\ insn \in Insn /\ insn # NoInsn
      /\ i = IF insn.move = "shift" THEN -1 ELSE 16
      /\ insn.RB \in Field /\ insn.form \in {"imm", "by", "bybi"}
      /\ insn.move \in {"rotate", "shift", "mask"} /\ insn.s \in 0 .. 31
  BY DEF IInv, TypeOK, Done, Index, Insn
<1>2. Count \in Nat /\ insn.s = Cut(insn.move, Count)
  BY <1>1, CountType DEF IInv, TypeOK, CountFits, Count
<1> DEFINE n == insn.s
<1>3. ASSUME NEW k \in Index, insn.move = "rotate" => insn.RT # insn.RA
      PROVE  /\ 15 - k \in Index
             /\ ByteOf(GPR[insn.RT], k) = Target(15 - k)
  <2>1. 15 - k \in Index /\ Written(15 - k)
    BY <1>1 DEF Index, Written
  <2> QED
    BY <1>1, <1>3, <2>1 DEF IInv, Progress, ByteOf
<1>4. ASSUME NEW k \in Index, insn.move = "shift"
      PROVE  ByteOf(GPR[insn.RT], k) =
               IF k + (Count % 32) < 16
               THEN ByteOf(before[insn.RA], k + (Count % 32)) ELSE 0
  <2>1. n = Count % 32
    BY <1>2, <1>4 DEF Cut
  <2>2. Target(15 - k) = IF 15 - k < n THEN 0 ELSE before[insn.RA][15 - k - n]
    BY <1>4 DEF Target
  <2>3. (15 - k < n <=> ~(k + n < 16)) /\ 15 - k - n = 15 - (k + n)
    BY <1>1 DEF Index
  <2> HIDE DEF n
  <2> QED
    BY <1>3, <1>4, <2>1, <2>2, <2>3 DEF ByteOf
<1>5. ASSUME NEW k \in Index, insn.move = "mask"
      PROVE  ByteOf(GPR[insn.RT], k) =
               IF (0 - Count) % 32 <= k
               THEN ByteOf(before[insn.RA], k - ((0 - Count) % 32)) ELSE 0
  <2>1. n = (0 - Count) % 32
    BY <1>2, <1>5 DEF Cut
  <2>2. Target(15 - k) =
          IF 15 - k + n < 16 THEN before[insn.RA][15 - k + n] ELSE 0
    BY <1>5 DEF Target
  <2>3. (15 - k + n < 16 <=> n <= k) /\ 15 - k + n = 15 - (k - n)
    BY <1>1 DEF Index
  <2> HIDE DEF n
  <2> QED
    BY <1>3, <1>5, <2>1, <2>2, <2>3 DEF ByteOf
<1>6. ASSUME NEW k \in Index, insn.move = "rotate", insn.RT # insn.RA
      PROVE  ByteOf(GPR[insn.RT], k) =
               ByteOf(before[insn.RA], (k + Count) % 16)
  <2>1. n = Count % 16
    BY <1>2, <1>6 DEF Cut
  <2>2. Target(15 - k) = before[insn.RA][(15 - k - n) % 16]
    BY <1>6 DEF Target
  <2>3. (15 - k - n) % 16 = 15 - ((k + Count) % 16)
    BY <1>2, <2>1, SMTT(30) DEF Index
  <2> HIDE DEF n
  <2> QED
    BY <1>3, <1>6, <2>2, <2>3 DEF ByteOf
<1>7. ShiftsMove
  BY <1>4, <1>5 DEF ShiftsMove
<1>8. RotatesApart
  BY <1>6 DEF RotatesApart
<1> QED
  BY <1>7, <1>8

(* The same of a loop that rotated a register in place.                    *)
LEMMA IInvInPlace == IInv => RotatesInPlace
<1> SUFFICES ASSUME IInv, Done, insn.move = "rotate", insn.RT = insn.RA,
                    NEW k \in Index
             PROVE  LET s == Count % 16
                        old == before[insn.RA]
                    IN ByteOf(GPR[insn.RT], k) =
                         IF s = 0 THEN ByteOf(old, k)
                         ELSE ByteOf(old, s - 1 - ((15 - k) % s))
  BY DEF RotatesInPlace
<1> DEFINE s == Count % 16
           old == before[insn.RA]
<1>1. insn # NoInsn /\ i = 16
  BY DEF IInv, TypeOK, Done, Index, Insn
<1>2. Count \in Nat /\ insn.s = s
  BY <1>1, CountFitsType DEF Cut
<1>3. 15 - k \in Index /\ 15 - k < i
  BY <1>1 DEF Index
<1>4. GPR[insn.RT][15 - k] = TargetInPlace(15 - k)
  BY <1>1, <1>3 DEF IInv, ProgressInPlace
<1>5. s \in 0 .. 15
  BY <1>2
<1> HIDE DEF s
<1>6. CASE s = 0
  BY <1>2, <1>4, <1>6 DEF TargetInPlace, ByteOf, s
<1>7. CASE s # 0
  <2>1. TargetInPlace(15 - k) = old[16 - s + ((15 - k) % s)]
    BY <1>2, <1>7 DEF TargetInPlace
  <2>2. (15 - k) % s \in 0 .. s - 1
    BY <1>3, <1>5, <1>7, Modulo DEF Index
  <2>3. 16 - s + ((15 - k) % s) = 15 - (s - 1 - ((15 - k) % s))
    BY <1>5, <2>2
  <2> QED
    BY <1>4, <1>7, <2>1, <2>3 DEF ByteOf, s
<1> QED
  BY <1>6, <1>7 DEF s

-----------------------------------------------------------------------------

(* Every step keeps the invariant, for any registers and any counts. *)
THEOREM Invariance == Spec => []IInv
<1>1. Init => IInv
  BY NoInsnAssumption DEF Init, IInv, TypeOK, CountFits, Progress,
       ProgressInPlace
<1>2. IInv /\ [Next]_vars => IInv'
  <2> SUFFICES ASSUME IInv, [Next]_vars PROVE IInv'
    OBVIOUS
  <2>1. CASE Next
    BY <2>1, ExecuteIInv, RotateTurnIInv, ShiftTurnIInv, MaskTurnIInv DEF Next
  <2>2. CASE UNCHANGED vars
    BY <2>2 DEF vars, IInv, TypeOK, CountFits, Count, Progress, Written, Target,
         ProgressInPlace, TargetInPlace
  <2> QED
    BY <2>1, <2>2
<1> QED
  BY <1>1, <1>2, PTL DEF Spec

(* Every byte of every register stays a byte. *)
THEOREM TypeCorrect == Spec => []TypeOK
<1>1. IInv => TypeOK
  BY DEF IInv
<1> QED
  BY <1>1, Invariance, PTL

(* shlqby and rotqmby move the bytes as documented, in place too. *)
THEOREM ShiftsCorrect == Spec => []ShiftsMove
<1>1. IInv => ShiftsMove
  BY IInvMoves
<1> QED
  BY <1>1, Invariance, PTL

(* rotqby rotates the bytes as documented when RT is not RA. *)
THEOREM RotatesCorrect == Spec => []RotatesApart
<1>1. IInv => RotatesApart
  BY IInvMoves
<1> QED
  BY <1>1, Invariance, PTL

(* rotqby of a register in place leaves its first bytes over and over, as  *)
(* many as it should have moved by, and nothing else.                      *)
THEOREM InPlaceCorrect == Spec => []RotatesInPlace
<1>1. IInv => RotatesInPlace
  BY IInvInPlace
<1> QED
  BY <1>1, Invariance, PTL

-----------------------------------------------------------------------------

(* The storage as lines. *)
storage == [line \in 0 .. Lines - 1 |-> QuadAt(line)]

(* Reversing the words twice changes nothing. *)
LEMMA ReversedTwice ==
  ASSUME NEW j \in Index
  PROVE  Reversed(j) \in Index /\ Reversed(Reversed(j)) = j
  BY SMTT(30) DEF Reversed, Index

(* What a remainder is, from a quotient that leaves it. *)
LEMMA Remainder ==
  ASSUME NEW n \in Nat \ {0}, NEW p \in Int, NEW r \in 0 .. n - 1
  PROVE  (n * p + r) % n = r
<1> DEFINE x == n * p + r
           q == x \div n
<1>1. x \in Int
  OBVIOUS
<1>2. q \in Int /\ x % n \in 0 .. n - 1 /\ x = n * q + (x % n)
  BY <1>1, SMTT(30)
<1> HIDE DEF q
<1>3. n * (p - q) = (x % n) - r
  BY <1>2, SMTT(30)
<1>4. ~ p - q >= 1
  BY <1>2, <1>3, SMTT(30)
<1>5. ~ p - q <= -1
  BY <1>2, <1>3, SMTT(30)
<1>6. p = q
  BY <1>2, <1>4, <1>5
<1> QED
  BY <1>2, <1>3, <1>6

(* An address is cut down to the first byte of the line it falls into. *)
LEMMA LSALine ==
  ASSUME NEW x \in Int
  PROVE  /\ Abstract!LineOf(x) \in 0 .. Lines - 1
         /\ LSA(x) = 16 * Abstract!LineOf(x)
<1> DEFINE line == Abstract!LineOf(x)
           d == x \div 16
           e == x % 16
           p == d \div Lines
<1>1. d \in Int /\ e \in 0 .. 15 /\ x = 16 * d + e
  BY SMTT(30)
<1>2. line = d % Lines
  BY DEF Abstract!LineOf
<1> HIDE DEF d, e, line
<1>3. p \in Int /\ line \in 0 .. Lines - 1 /\ d = Lines * p + line
  BY <1>1, <1>2, LinesAssumption, SMTT(30)
<1> HIDE DEF p
<1>4. /\ LSSize \in Nat \ {0}
      /\ 16 * line + e \in 0 .. LSSize - 1
  BY <1>1, <1>3, LinesAssumption DEF LSSize
<1>5. LSSize * p = 16 * (Lines * p)
  BY <1>3, LinesAssumption DEF LSSize
<1>6. x = LSSize * p + (16 * line + e)
  BY <1>1, <1>3, <1>5, LinesAssumption
<1>7. x % LSSize = 16 * line + e
  BY <1>3, <1>4, <1>6, Remainder
<1>8. (16 * line + e) % 16 = e
  BY <1>1, <1>3
<1>9. LSA(x) = (16 * line + e) - ((16 * line + e) % 16)
  BY <1>7 DEF LSA
<1>10. LSA(x) = 16 * line
  BY <1>1, <1>3, <1>8, <1>9, LinesAssumption
<1> QED
  BY <1>3, <1>10 DEF line

(* The bytes of a line are in the storage. *)
LEMMA InStorage ==
  ASSUME NEW line \in 0 .. Lines - 1, NEW j \in Index
  PROVE  16 * line + j \in 0 .. LSSize - 1
  BY LinesAssumption DEF Index, LSSize

-----------------------------------------------------------------------------

(* A step is a load or a store of some register at some address. *)
LEMMA Moves ==
  ASSUME MemoryTypeOK, MemoryNext
  PROVE  \E RT \in Reg, x \in Int :
           COPY_LSA_TO_GPR(RT, x) \/ COPY_GPR_TO_LSA(RT, x)
<1> DEFINE Some(RT) == \E x \in Int :
                         COPY_LSA_TO_GPR(RT, x) \/ COPY_GPR_TO_LSA(RT, x)
<1>1. ASSUME NEW RA \in Reg
      PROVE  PrefWord(GPR[RA]) \in Int
  <2>1. \A j \in Index : GPR[RA][j] \in Int
    <3>1. GPR[RA] \in [Index -> Byte]
      BY DEF MemoryTypeOK, Quad
    <3> QED
      BY <3>1 DEF Byte
  <2>2. 12 \in Index /\ 13 \in Index /\ 14 \in Index
    BY DEF Index
  <2> QED
    BY <2>1, <2>2 DEF PrefWord
<1>2. \A I10 \in Imm10 : SignExtend(16 * I10, 14) \in Int
  <2>1. 2^13 \in Int /\ 2^14 \in Int
    OBVIOUS
  <2> QED
    BY <2>1, ImmAssumption DEF SignExtend
<1>3. \A I16 \in Imm16 : SignExtend(4 * I16, 18) \in Int
  <2>1. 2^17 \in Int /\ 2^18 \in Int
    OBVIOUS
  <2> QED
    BY <2>1, ImmAssumption DEF SignExtend
<1>4. PICK RT \in Reg :
        \/ \E RA \in Reg, I10 \in Imm10 :
             spu_lqd(RT, RA, I10) \/ spu_stqd(RT, RA, I10)
        \/ \E RA, RB \in Reg : spu_lqx(RT, RA, RB) \/ spu_stqx(RT, RA, RB)
        \/ \E I16 \in Imm16 : spu_lqa(RT, I16) \/ spu_stqa(RT, I16)
        \/ \E I16 \in Imm16 : spu_lqr(RT, I16) \/ spu_stqr(RT, I16)
  BY DEF MemoryNext
<1>5. CASE \E RA \in Reg, I10 \in Imm10 :
             spu_lqd(RT, RA, I10) \/ spu_stqd(RT, RA, I10)
  <2>1. PICK RA \in Reg, I10 \in Imm10 :
          spu_lqd(RT, RA, I10) \/ spu_stqd(RT, RA, I10)
    BY <1>5
  <2>2. AddressD(RA, I10) \in Int
    BY <1>1, <1>2 DEF AddressD
  <2> QED
    BY <2>1, <2>2 DEF spu_lqd, spu_stqd
<1>6. CASE \E RA, RB \in Reg : spu_lqx(RT, RA, RB) \/ spu_stqx(RT, RA, RB)
  <2>1. PICK RA \in Reg, RB \in Reg :
          spu_lqx(RT, RA, RB) \/ spu_stqx(RT, RA, RB)
    BY <1>6
  <2>2. AddressX(RA, RB) \in Int
    BY <1>1 DEF AddressX
  <2> QED
    BY <2>1, <2>2 DEF spu_lqx, spu_stqx
<1>7. CASE \E I16 \in Imm16 : spu_lqa(RT, I16) \/ spu_stqa(RT, I16)
  <2>1. PICK I16 \in Imm16 : spu_lqa(RT, I16) \/ spu_stqa(RT, I16)
    BY <1>7
  <2>2. AddressA(I16) \in Int
    BY <1>3 DEF AddressA
  <2> QED
    BY <2>1, <2>2 DEF spu_lqa, spu_stqa
<1>8. CASE \E I16 \in Imm16 : spu_lqr(RT, I16) \/ spu_stqr(RT, I16)
  <2>1. PICK I16 \in Imm16 : spu_lqr(RT, I16) \/ spu_stqr(RT, I16)
    BY <1>8
  <2>2. AddressR(I16) \in Int
    BY <1>3 DEF AddressR, IP
  <2> QED
    BY <2>1, <2>2 DEF spu_lqr, spu_stqr
<1> QED
  BY <1>4, <1>5, <1>6, <1>7, <1>8

(* A load reads within the storage and moves one line. *)
LEMMA LoadLine ==
  ASSUME MemoryTypeOK, NEW RT \in Reg, NEW x \in Int, COPY_LSA_TO_GPR(RT, x)
  PROVE  MemoryTypeOK' /\ Abstract!Load(RT)
<1> DEFINE line == Abstract!LineOf(x)
<1>1. line \in 0 .. Lines - 1 /\ LSA(x) = 16 * line
  BY LSALine
<1> HIDE DEF line
<1>2. \A j \in Index : LocalStorage[LSA(x) + Reversed(j)] \in Byte
  BY <1>1, ReversedTwice, InStorage DEF MemoryTypeOK
<1>3. [j \in Index |-> LocalStorage[LSA(x) + Reversed(j)]] = QuadAt(line)
  BY <1>1 DEF QuadAt
<1>4. QuadAt(line) \in Quad
  BY <1>2, <1>3 DEF Quad
<1>5. MemoryTypeOK'
  BY <1>3, <1>4 DEF COPY_LSA_TO_GPR, MemoryTypeOK
<1>6. storage' = storage
  BY DEF COPY_LSA_TO_GPR, storage, QuadAt
<1>7. storage[line] = QuadAt(line)
  BY <1>1 DEF storage
<1>8. address' = x /\ GPR' = [GPR EXCEPT ![RT] = storage[line]]
  BY <1>3, <1>7 DEF COPY_LSA_TO_GPR
<1> QED
  BY <1>5, <1>6, <1>8 DEF Abstract!Load, storage, line

(* A store stays in the storage and changes one line, to what RT holds. *)
LEMMA StoreLine ==
  ASSUME MemoryTypeOK, NEW RT \in Reg, NEW x \in Int, COPY_GPR_TO_LSA(RT, x)
  PROVE  MemoryTypeOK' /\ Abstract!Store(RT)
<1> DEFINE line == Abstract!LineOf(x)
<1>1. line \in 0 .. Lines - 1 /\ LSA(x) = 16 * line
  BY LSALine
<1> HIDE DEF line
<1>2. \A a \in Int : a - 16 * line \in Index =>
        GPR[RT][Reversed(a - 16 * line)] \in Byte
  BY ReversedTwice DEF MemoryTypeOK, Quad
<1>3. DOMAIN LocalStorage = 0 .. LSSize - 1 /\ LSSize \in Int
  BY LinesAssumption DEF MemoryTypeOK, LSSize
<1>4. LocalStorage' = [a \in 0 .. LSSize - 1 |->
                         IF a - 16 * line \in Index
                         THEN GPR[RT][Reversed(a - 16 * line)]
                         ELSE LocalStorage[a]]
  BY <1>1, <1>3 DEF COPY_GPR_TO_LSA
<1>5. MemoryTypeOK'
  BY <1>2, <1>3, <1>4 DEF COPY_GPR_TO_LSA, MemoryTypeOK
<1>6. ASSUME NEW l \in 0 .. Lines - 1
      PROVE  QuadAt(l)' = IF l = line THEN GPR[RT] ELSE QuadAt(l)
  <2>1. ASSUME NEW j \in Index
        PROVE  LocalStorage'[16 * l + Reversed(j)] =
                 IF l = line THEN GPR[RT][j]
                 ELSE LocalStorage[16 * l + Reversed(j)]
    <3>1. Reversed(j) \in Index /\ Reversed(Reversed(j)) = j
      BY ReversedTwice
    <3> DEFINE k == Reversed(j)
    <3> HIDE DEF k
    <3>2. 16 * l + k \in 0 .. LSSize - 1
      BY <3>1, InStorage DEF k
    <3>3. /\ l = line => (16 * l + k) - 16 * line = k
          /\ l # line => (16 * l + k) - 16 * line \notin Index
      BY <1>1, <3>1, LinesAssumption DEF Index, k
    <3> QED
      BY <1>4, <3>1, <3>2, <3>3 DEF k
  <2>2. CASE l = line
    <3>1. GPR[RT] = [j \in Index |-> GPR[RT][j]]
      BY DEF MemoryTypeOK, Quad
    <3> QED
      BY <2>1, <2>2, <3>1 DEF QuadAt
  <2>3. CASE l # line
    BY <2>1, <2>3 DEF QuadAt
  <2> QED
    BY <2>2, <2>3
<1>7. storage' = [storage EXCEPT ![line] = GPR[RT]]
  BY <1>1, <1>6 DEF storage
<1> QED
  BY <1>5, <1>7 DEF Abstract!Store, COPY_GPR_TO_LSA, storage, line

-----------------------------------------------------------------------------

(* Byte j of a loaded register is where it should be exactly when byte     *)
(* Reversed(j) of the line is the one on the other side of its word.       *)
LEMMA OtherSide ==
  ASSUME NEW j \in Index
  PROVE  4 * (Reversed(j) \div 4) + 3 - (Reversed(j) % 4) = 15 - j
  BY SMTT(30) DEF Reversed, Index

LEMMA ReversedWhenWordsSymmetric ==
  ASSUME NEW storageByte, NEW line \in Int,
         NEW q, \A j \in Index : q[j] = storageByte[line + Reversed(j)]
  PROVE  (\A j \in Index : q[j] = storageByte[line + 15 - j])
           <=> \A j \in Index :
                 storageByte[line + j] =
                   storageByte[line + 4 * (j \div 4) + 3 - (j % 4)]
<1> DEFINE other(j) == 4 * (j \div 4) + 3 - (j % 4)
<1>1. \A j \in Index : line + 4 * (j \div 4) + 3 - (j % 4) = line + other(j)
  BY DEF Index
<1>2. \A j \in Index : line + 15 - j = line + other(Reversed(j))
  BY OtherSide DEF Index
<1> HIDE DEF other
<1>3. ASSUME \A j \in Index : q[j] = storageByte[line + other(Reversed(j))],
             NEW j \in Index
      PROVE  storageByte[line + j] = storageByte[line + other(j)]
  BY <1>3, ReversedTwice
<1>4. ASSUME \A j \in Index :
               storageByte[line + j] = storageByte[line + other(j)],
             NEW j \in Index
      PROVE  q[j] = storageByte[line + other(Reversed(j))]
  BY <1>4, ReversedTwice
<1> QED
  BY <1>1, <1>2, <1>3, <1>4

-----------------------------------------------------------------------------

(* Registers hold sixteen bytes, and the storage keeps its size: no access *)
(* of spu_emu_mem.cpp is outside it.                                       *)
THEOREM MemoryTypeCorrect == MemorySpec => []MemoryTypeOK
<1>1. MemoryInit => MemoryTypeOK
  BY LinesAssumption DEF MemoryInit, MemoryTypeOK, LSSize, Byte
<1>2. MemoryTypeOK /\ [MemoryNext]_memoryVars => MemoryTypeOK'
  <2> SUFFICES ASSUME MemoryTypeOK, [MemoryNext]_memoryVars
               PROVE  MemoryTypeOK'
    OBVIOUS
  <2>1. CASE MemoryNext
    BY <2>1, Moves, LoadLine, StoreLine
  <2>2. CASE UNCHANGED memoryVars
    BY <2>2 DEF memoryVars, MemoryTypeOK
  <2> QED
    BY <2>1, <2>2
<1> QED
  BY <1>1, <1>2, PTL DEF MemorySpec

(* Loads and stores implement QuadStore, for a storage of any size and     *)
(* registers of any value: an address means the line it falls into, and a  *)
(* load returns what was stored there last.                                *)
THEOREM Refinement == MemorySpec => StoreSpec
<1>1. MemoryInit => Abstract!Init
  <2> SUFFICES ASSUME MemoryInit
               PROVE  Abstract!Init
    OBVIOUS
  <2>1. ASSUME NEW line \in 0 .. Lines - 1
        PROVE  QuadAt(line) \in Quad
    <3>1. ASSUME NEW j \in Index
          PROVE  LocalStorage[16 * line + Reversed(j)] = 0
      <4>1. Reversed(j) \in Index
        BY ReversedTwice
      <4>2. 16 * line + Reversed(j) \in 0 .. LSSize - 1
        BY <4>1, InStorage
      <4> QED
        BY <4>2 DEF MemoryInit
    <3> QED
      BY <3>1 DEF QuadAt, Quad, Byte
  <2>2. storage \in [0 .. Lines - 1 -> Quad]
    BY <2>1 DEF storage
  <2> QED
    BY <2>2 DEF MemoryInit, Abstract!Init, Abstract!Line, storage
<1>2. MemoryTypeOK /\ [MemoryNext]_memoryVars => [Abstract!Next]_(Abstract!vars)
  <2> SUFFICES ASSUME MemoryTypeOK, [MemoryNext]_memoryVars
               PROVE  [Abstract!Next]_(Abstract!vars)
    OBVIOUS
  <2>1. CASE MemoryNext
    <3>1. \E RT \in Reg : Abstract!Load(RT) \/ Abstract!Store(RT)
      BY <2>1, Moves, LoadLine, StoreLine
    <3> QED
      BY <3>1 DEF Abstract!Next
  <2>2. CASE UNCHANGED memoryVars
    BY <2>2 DEF memoryVars, Abstract!vars, QuadAt
  <2> QED
    BY <2>1, <2>2
<1> QED
  BY <1>1, <1>2, MemoryTypeCorrect, PTL DEF MemorySpec, StoreSpec, Abstract!Spec

(* A load reverses the bytes of a line, as the comment on it says, exactly *)
(* when every word of the line reads the same from both ends.              *)
THEOREM LoadsReverse == MemorySpec => BytesReversedExcept
<1> DEFINE Reverses ==
      \A RT \in Reg : GPR'[RT] # GPR[RT] =>
        LET line == LSA(address')
        IN (\A j \in Index : GPR'[RT][j] = LocalStorage[line + 15 - j])
             <=> \A j \in Index :
                   LocalStorage[line + j] =
                     LocalStorage[line + 4 * (j \div 4) + 3 - (j % 4)]
<1>1. MemoryTypeOK /\ [MemoryNext]_memoryVars => [Reverses]_memoryVars
  <2> SUFFICES ASSUME MemoryTypeOK, MemoryNext, NEW RT \in Reg, GPR'[RT] # GPR[RT]
               PROVE  LET line == LSA(address')
                      IN (\A j \in Index :
                            GPR'[RT][j] = LocalStorage[line + 15 - j])
                           <=> \A j \in Index :
                                 LocalStorage[line + j] =
                                   LocalStorage[line + 4 * (j \div 4) + 3 - (j % 4)]
    OBVIOUS
  <2>1. PICK r \in Reg, x \in Int :
               COPY_LSA_TO_GPR(r, x) \/ COPY_GPR_TO_LSA(r, x)
    BY Moves
  <2>2. COPY_LSA_TO_GPR(r, x) /\ r = RT
    BY <2>1 DEF COPY_LSA_TO_GPR, COPY_GPR_TO_LSA, MemoryTypeOK
  <2>3. /\ address' = x
        /\ \A j \in Index : GPR'[RT][j] = LocalStorage[LSA(x) + Reversed(j)]
    BY <2>2 DEF COPY_LSA_TO_GPR, MemoryTypeOK
  <2>4. LSA(x) \in Int
    BY LSALine, LinesAssumption
  <2> HIDE DEF Reverses
  <2> QED
    BY <2>3, <2>4, ReversedWhenWordsSymmetric
<1> QED
  BY <1>1, MemoryTypeCorrect, PTL DEF MemorySpec, BytesReversedExcept
=============================================================================
