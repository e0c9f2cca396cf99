----------------------------- MODULE LaneShift ------------------------------
(***************************************************************************)
(* The shifts and rotates of lanes and by bits: spu_emu_rot.cpp,           *)
(* spu_emu_rotmask.cpp and spu_emu_shift.cpp without the shifts of a       *)
(* quadword by bytes, which are in QuadMove.  Every handler is given the   *)
(* registers and the immediate it reads, and returns what it writes to RT; *)
(* where one writes lane by lane it reads only the lane it writes, and so  *)
(* RT may be one of the registers it reads.                                *)
(***************************************************************************)
EXTENDS BitLanes

SignExtend7(i7) == IF i7 < 64 THEN i7 ELSE i7 - 128

(* The word of a register that counts and addresses are taken from. *)
PrefWord(q) == Lane(q, 32, 3)

(* m128_u64[i] *)
Dword(q, i) == Lane(q, 64, i)
Dwords(low, high) == Lanes(64, LAMBDA i : IF i = 0 THEN low ELSE high)

(* Lane i of a shifted by the count of lane i of b. *)
ByLane(a, b, w, shift(_, _)) ==
  Lanes(w, LAMBDA i : shift(Lane(a, w, i), Lane(b, w, i)))

rotl(x, w, s) == ShiftLeft(x, w, s) \cup ShiftRight(x, w - s)

spu_roth(a, b) ==
  ByLane(a, b, 16, LAMBDA x, y : rotl(x, 16, LowBits(y, 4)))
spu_rothi(a, i7) ==
  LET s == i7 % 16 IN srli(a, 16, 16 - s) \cup slli(a, 16, s)
spu_rot(a, b) ==
  ByLane(a, b, 32, LAMBDA x, y : rotl(x, 32, LowBits(y, 5)))
spu_roti(a, i7) ==
  LET s == i7 % 16 IN srli(a, 32, 32 - s) \cup slli(a, 32, s)

(* _0 >> (64 - s) for no bits is a shift by 64, which is undefined: 64-bit *)
(* code shifts by 0, and the helper of 32-bit code returns 0.              *)
Leftover(x, s, wraps) ==
  IF s = 0 THEN (IF wraps THEN x ELSE {}) ELSE ShiftRight(x, 64 - s)

spu_rotqbii(a, i7) ==
  LET s == i7 % 8
  IN {Dwords(ShiftLeft(Dword(a, 0), 64, s) \cup Leftover(Dword(a, 1), s, wraps),
             ShiftLeft(Dword(a, 1), 64, s) \cup Leftover(Dword(a, 0), s, wraps)) :
        wraps \in BOOLEAN}
spu_rotqbi(a, b) == spu_rotqbii(a, LowBits(PrefWord(b), 3))

-----------------------------------------------------------------------------

(* 0x1f & (0 - count), 0x3f & (0 - count) *)
Negated(y, n) == (0 - LowBits(y, n)) % 2 ^ n
NegatedImm(i7, n) == (0 - SignExtend7(i7)) % 2 ^ n

spu_rothm(a, b) ==
  ByLane(a, b, 16, LAMBDA x, y :
    IF Negated(y, 5) < 16 THEN ShiftRight(x, Negated(y, 5)) ELSE {})
spu_rothmi(a, i7) == srli(a, 16, NegatedImm(i7, 5))
spu_rotmah(a, b) ==
  ByLane(a, b, 16, LAMBDA x, y :
    IF Negated(y, 5) < 16 THEN ShiftRightSigned(x, 16, Negated(y, 5))
                          ELSE 0 .. 15)
spu_rotmahi(a, i7) == srai(a, 16, NegatedImm(i7, 5))

(* Mutant: the count is not negated. *)
spu_rotm_forward(a, b) ==
  ByLane(a, b, 32, LAMBDA x, y :
    IF LowBits(y, 6) < 32 THEN ShiftRight(x, LowBits(y, 6)) ELSE {})
spu_rotm(a, b) ==
  ByLane(a, b, 32, LAMBDA x, y :
    IF Negated(y, 6) < 32 THEN ShiftRight(x, Negated(y, 6)) ELSE {})
spu_rotmi(a, i7) == srli(a, 32, NegatedImm(i7, 6))
spu_rotma(a, b) ==
  ByLane(a, b, 32, LAMBDA x, y :
    CASE Negated(y, 6) < 32 -> ShiftRightSigned(x, 32, Negated(y, 6))
      [] Negated(y, 6) >= 32 /\ ~IsNegative(x, 32) -> {}
      [] OTHER -> 0 .. 31)
spu_rotmai(a, i7) == srai(a, 32, NegatedImm(i7, 6))

(* What is to come down from the upper doubleword is computed as what has  *)
(* changed in it.                                                          *)
MaskBits(a, s) ==
  LET up == Dword(a, 1)
      leftover == SymDiff(up, ShiftRight(up, s))
  IN Dwords(ShiftRight(Dword(a, 0), s) \cup leftover, ShiftRight(up, s))
spu_rotqmbi(a, b) == MaskBits(a, Negated(PrefWord(b), 3))
spu_rotqmbii(a, i7) == MaskBits(a, (0 - i7) % 8)

-----------------------------------------------------------------------------

(* The counts of these are not masked; a shift of a 32-bit value by 32 and *)
(* more is undefined, and x86 shifts by the count modulo 32.  A halfword   *)
(* is shifted as an int and cut to 16 bits.                                *)
spu_shlh(a, b) ==
  ByLane(a, b, 16, LAMBDA x, y : ShiftLeft(x, 16, LowBits(y, 5)))
spu_shlhi(a, i7) ==
  Lanes(16, LAMBDA i : ShiftLeft(Lane(a, 16, i), 16, i7 % 32))
spu_shl(a, b) ==
  ByLane(a, b, 32, LAMBDA x, y : ShiftLeft(x, 32, LowBits(y, 5)))
spu_shli(a, i7) ==
  Lanes(32, LAMBDA i : ShiftLeft(Lane(a, 32, i), 32, i7 % 32))

(* The bits that are to come up from the lower doubleword are taken from   *)
(* the upper one.                                                          *)
spu_shlqbii(a, i7) ==
  LET s == i7 % 8
      up == Dword(a, 1)
  IN IF s = 0 THEN a
     ELSE Dwords(ShiftLeft(Dword(a, 0), 64, s),
                 ShiftLeft(up, 64, s) \cup ShiftRight(up, 64 - s))
spu_shlqbi(a, b) == spu_shlqbii(a, LowBits(PrefWord(b), 3))
=============================================================================
