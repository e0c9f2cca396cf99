------------------------------ MODULE SpuState ------------------------------
(***************************************************************************)
(* What the handlers of spu_emu_*.cpp share of an SPU_t: its registers.    *)
(* A register is its 16 bytes, numbered as m128_u8 numbers them.           *)
(***************************************************************************)
EXTENDS Integers

CONSTANT Reg   \* the registers

Byte == 0 .. 255
Index == 0 .. 15
Quad == [Index -> Byte]

VARIABLE GPR   \* what they hold

(* The preferred word, m128_u32[GPR_PREF_SLOT], but for its top byte: no   *)
(* handler that uses this keeps more than the low 18 bits.                 *)
PrefWord(q) == q[12] + 256 * q[13] + 65536 * q[14]
=============================================================================
