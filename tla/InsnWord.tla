------------------------------ MODULE InsnWord ------------------------------
(***************************************************************************)
(* An instruction word as the union SPU_INSTRUCTION of spu_emu.h lays it   *)
(* out.  Every bit field but the opcodes begins at bit 0, 7, 14 or 21, so  *)
(* a word is its 11 most significant bits and three digits of 7 bits; an   *)
(* immediate or an opcode that crosses a digit is put together from the    *)
(* digits it lies on.                                                      *)
(*                                                                         *)
(* Pack is the switch at the end of spu_assemble, which fills the fields   *)
(* of one format; Components is spu_decode_op_components, which reads them.*)
(***************************************************************************)
EXTENDS Integers

Word == [op : 0 .. 2047, b : 0 .. 127, a : 0 .. 127, t : 0 .. 127]

WordOf(op, b, a, t) == [op |-> op, b |-> b, a |-> a, t |-> t]

(* Widths are given as the number of values a field has: 128 for 7 bits.   *)
(* A value assigned to a bit field is cut to its width.                    *)
Cut(x, values) == x % values

(* SignExtend(t, Bits) of a field of that width. *)
SignExtend(x, values) == IF 2 * x < values THEN x ELSE x - values

(* The bits of an opcode a format keeps: opcode >> 7, >> 4, ... *)
OpField(opcode, values) == values * (opcode \div values)

(* The fields of the formats, from a word. *)
I8(w) == (w.op % 2) * 128 + w.b
I10(w) == (w.op % 8) * 128 + w.b
I16(w) == (w.op % 4) * 16384 + w.b * 128 + w.a
I18(w) == (w.op % 16) * 16384 + w.b * 128 + w.a
UpperRT(w) == w.op % 128          \* RRR.RT
UpperROH(w) == (w.op \div 4) % 4  \* LBT.ROH
LowerROH(w) == w.b % 4            \* LBTI.ROH

-----------------------------------------------------------------------------

(* The operands spu_assemble has read, by the field they are for. *)
PackRRR(opcode, rt, ra, rb, rc) ==
  WordOf(OpField(opcode, 128) + Cut(rt, 128), Cut(rb, 128), Cut(ra, 128), Cut(rc, 128))

PackRR(opcode, rt, ra, rb) ==
  WordOf(opcode, Cut(rb, 128), Cut(ra, 128), Cut(rt, 128))

PackRI7(opcode, rt, ra, imm) == PackRR(opcode, rt, ra, imm)

PackRI8(opcode, rt, ra, imm) ==
  WordOf(OpField(opcode, 2) + Cut(imm, 256) \div 128, Cut(imm, 128),
         Cut(ra, 128), Cut(rt, 128))

PackRI10(opcode, rt, ra, imm) ==
  WordOf(OpField(opcode, 8) + Cut(imm, 1024) \div 128, Cut(imm, 128),
         Cut(ra, 128), Cut(rt, 128))

PackRI16(opcode, rt, imm) ==
  WordOf(OpField(opcode, 4) + Cut(imm, 65536) \div 16384,
         Cut(imm, 16384) \div 128, Cut(imm, 128), Cut(rt, 128))

PackRI18(opcode, rt, imm) ==
  WordOf(OpField(opcode, 16) + Cut(imm, 262144) \div 16384,
         Cut(imm, 16384) \div 128, Cut(imm, 128), Cut(rt, 128))

(* ROL = ro & 0x7F, ROH = (ro >> 7) & 3. *)
PackLBT(opcode, ro, imm) ==
  WordOf(OpField(opcode, 16) + 4 * (Cut(ro, 512) \div 128)
           + Cut(imm, 65536) \div 16384,
         Cut(imm, 16384) \div 128, Cut(imm, 128), Cut(ro, 128))

PackLBTI(opcode, ro, ra) ==
  WordOf(opcode, Cut(ro, 512) \div 128, Cut(ra, 128), Cut(ro, 128))

-----------------------------------------------------------------------------

(* SPU_OP_COMPONENTS.  The two halves of IMM that the branch hints fill    *)
(* are BRTARG and BRINST; for the other formats BRTARG is not used.        *)
Operands(rt, ra, rb, rc, imm) ==
  [RT |-> rt, RA |-> ra, RB |-> rb, RC |-> rc, IMM |-> imm, BRTARG |-> 0]

(* Mutant: ROH is moved by two bits, as the disassembler moves it. *)
HintOffsetNarrow(roh, rol) == SignExtend(roh * 4 + rol, 2048)

(* The nine bits of ROH and ROL are sign extended as if they were eleven,  *)
(* so that BRINST, and BRTARG of hbr, are never negative.                  *)
HintOffset(roh, rol) == SignExtend(roh * 128 + rol, 2048)

Components(type, w) ==
  CASE type = "RRR" -> Operands(UpperRT(w), w.a, w.b, w.t, 0)
    [] type = "RR" -> Operands(w.t, w.a, w.b, 0, 0)
    [] type = "RI7" -> Operands(w.t, w.a, 0, 0, SignExtend(w.b, 128))
    [] type = "RI8" -> Operands(w.t, w.a, 0, 0, SignExtend(I8(w), 256))
    [] type = "RI10" -> Operands(w.t, w.a, 0, 0, SignExtend(I10(w), 1024))
    [] type = "RI16" -> Operands(w.t, 0, 0, 0, SignExtend(I16(w), 65536))
    [] type = "RI18" -> Operands(w.t, 0, 0, 0, SignExtend(I18(w), 262144))
    [] type = "LBT" ->
         [Operands(0, 0, 0, 0, HintOffset(UpperROH(w), w.t))
            EXCEPT !.BRTARG = SignExtend(I16(w), 65536)]
    [] type = "LBTI" ->
         [Operands(0, w.a, 0, 0, 0)
            EXCEPT !.BRTARG = HintOffset(LowerROH(w), w.t)]
    [] OTHER -> Operands(0, 0, 0, 0, 0)

-----------------------------------------------------------------------------

(* The word of a format with an opcode that has those components; hbr has  *)
(* five bits that are no operand's.                                        *)
Repacked(opcode, type, c) ==
  CASE type = "RRR" -> PackRRR(opcode, c.RT, c.RA, c.RB, c.RC)
    [] type = "RR" -> PackRR(opcode, c.RT, c.RA, c.RB)
    [] type = "RI7" -> PackRI7(opcode, c.RT, c.RA, c.IMM)
    [] type = "RI8" -> PackRI8(opcode, c.RT, c.RA, c.IMM)
    [] type = "RI10" -> PackRI10(opcode, c.RT, c.RA, c.IMM)
    [] type = "RI16" -> PackRI16(opcode, c.RT, c.IMM)
    [] type = "RI18" -> PackRI18(opcode, c.RT, c.IMM)
    [] type = "LBT" -> PackLBT(opcode, c.IMM, c.BRTARG)
    [] type = "LBTI" -> PackLBTI(opcode, c.BRTARG, c.RA)

Used(type, w) == IF type = "LBTI" THEN [w EXCEPT !.b = @ % 4] ELSE w

(* How many words of a format share an opcode field.                       *)
OpValues(type) ==
  CASE type = "RRR" -> 128
    [] type \in {"RI18", "LBT"} -> 16
    [] type = "RI10" -> 8
    [] type = "RI16" -> 4
    [] type = "RI8" -> 2
    [] OTHER -> 1
=============================================================================
