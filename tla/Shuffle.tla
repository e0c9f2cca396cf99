------------------------------ MODULE Shuffle -------------------------------
(***************************************************************************)
(* The instructions that move whole bytes by a mask: the insertion         *)
(* controls of spu_emu_mem.cpp and shufb, and the ones that make a mask of *)
(* bits and bits of a mask, of spu_emu_int_misc.cpp.                       *)
(***************************************************************************)
EXTENDS LaneLogic, LaneShift

(* 0x1F in byte 0 down to 0x10 in byte 15. *)
ControlKeep == Lanes(8, LAMBDA j : Bits(31 - j, 8))

(* The element at byte offset t, counted from byte 15 down, is selected    *)
(* from the other register's preferred slot: 03, 02 03, 00 .. 03, 00 .. 07,*)
(* the last of them in the lowest byte.                                    *)
Control(t, size) ==
  LET first == 16 - size - t
      last == IF size = 8 THEN 7 ELSE 3
  IN Lanes(8, LAMBDA j :
       IF j \in first .. first + size - 1 THEN Bits(last - (j - first), 8)
       ELSE Lane(ControlKeep, 8, j))

(* & 0xF, 0xE, 0xC, 0x8 *)
Aligned(address, size) == size * ((address % 16) \div size)

Offset(q) == LowBits(PrefWord(q), 4)

spu_cbd(a, i7) == Control(Aligned(Offset(a) + SignExtend7(i7), 1), 1)
spu_cbx(a, b) == Control(Aligned(Offset(a) + Offset(b), 1), 1)
spu_chd(a, i7) == Control(Aligned(Offset(a) + SignExtend7(i7), 2), 2)
spu_chx(a, b) == Control(Aligned(Offset(a) + Offset(b), 2), 2)
spu_cwd(a, i7) == Control(Aligned(Offset(a) + SignExtend7(i7), 4), 4)
spu_cwx(a, b) == Control(Aligned(Offset(a) + Offset(b), 4), 4)
spu_cdd(a, i7) == Control(Aligned(Offset(a) + SignExtend7(i7), 8), 8)
spu_cdx(a, b) == Control(Aligned(Offset(a) + Offset(b), 8), 8)

(* Mutant: bit 4 of a control byte is dropped. *)
SelectedLow(a, b, c) == Lane(a, 8, LowBits(c, 4))

(* RA_RB[0x1F & c] *)
Selected(a, b, c) ==
  LET k == LowBits(c, 5) IN IF k < 16 THEN Lane(a, 8, k) ELSE Lane(b, 8, k - 16)

(* 0xE & c keeps bits 1 to 3 of a control byte; 0x80 is never among its    *)
(* values.                                                                 *)
spu_shufb(a, b, c) ==
  Lanes(8, LAMBDA i :
    LET control == Lane(c, 8, i)
        escape == control \cap {1, 2, 3}
    IN CASE escape = {1, 2, 3} -> {7}
         [] escape = {2, 3} -> 0 .. 7
         [] OTHER -> Selected(a, b, control))

-----------------------------------------------------------------------------

(* Bit i of the preferred word, spread over lane i: the word's bytes are   *)
(* copied beside a mask of single bits and compared with it.               *)
mask_all_set16 == Lanes(16, LAMBDA i : {i})
mask_all_set32 == Lanes(32, LAMBDA i : {i})

spu_fsmb(a) ==
  LET word_mask == LowBits(PrefWord(a), 16)
      lo == srli_si128(set1(8, word_mask % 256), 8) \cap mask_all_set8
      hi == slli_si128(set1(8, word_mask \div 256), 8) \cap mask_all_set8
  IN cmpeq(mask_all_set8, lo \cup hi, 8)
spu_fsmh(a) ==
  cmpeq(mask_all_set16,
        set1(16, LowBits(PrefWord(a), 8)) \cap mask_all_set16, 16)
spu_fsm(a) ==
  cmpeq(mask_all_set32,
        set1(32, LowBits(PrefWord(a), 4)) \cap mask_all_set32, 32)

InPrefWord(x) == Lanes(32, LAMBDA i : IF i = 3 THEN x ELSE {})

(* The lowest bit of every lane, put together in the preferred word. *)
Gathered(a, w) == InPrefWord({i \in 0 .. (128 \div w) - 1 : w * i \in a})

spu_gbb(a) == Gathered(a, 8)
spu_gbh(a) == Gathered(a, 16)
spu_gb(a) == Gathered(a, 32)
=============================================================================
