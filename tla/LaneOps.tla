------------------------------ MODULE LaneOps -------------------------------
(***************************************************************************)
(* The add, subtract and unsigned-compare intrinsics of                    *)
(* spu_internals_x86.h and sse_extensions.h, on one 32-bit lane of their   *)
(* operands: SSE has neither a carry flag nor an unsigned compare, and     *)
(* these make do with halved words and signed compares.                    *)
(*                                                                         *)
(* A word is its unsigned value.  Nothing in the intrinsics depends on the *)
(* lane having 32 bits, so Msb stands for 2^31.  A compare mask, all ones  *)
(* or all zeros in the code, is a Boolean.                                 *)
(***************************************************************************)
EXTENDS Integers

CONSTANT Msb   \* the value of the most significant bit of a lane

ASSUME MsbAssumption == Msb \in Nat /\ Msb > 1

Modulus == 2 * Msb

Word == 0 .. Modulus - 1

(* The SSE instructions the intrinsics are made of. *)
add_epi32(x, y) == (x + y) % Modulus
sub_epi32(x, y) == (x - y) % Modulus
Half(x) == x \div 2       \* x >> 1
Lsb(x) == x % 2           \* (x << 31) >> 31
MsbOf(x) == x \div Msb    \* x >> 31

AsSigned(x) == IF x < Msb THEN x ELSE x - Modulus
cmplt_epi32(x, y) == AsSigned(x) < AsSigned(y)
cmpgt_epi32(x, y) == AsSigned(x) > AsSigned(y)

-----------------------------------------------------------------------------

(* Mutant: the low bits are not compared when the halves are equal. *)
cmplt_epu32_halves(A, B) == cmplt_epi32(Half(A), Half(B))

cmplt_epu32(A, B) ==
  \/ cmplt_epi32(Half(A), Half(B))
  \/ Half(A) = Half(B) /\ cmplt_epi32(Lsb(A), Lsb(B))

cmpgt_epu32(A, B) ==
  \/ cmpgt_epi32(Half(A), Half(B))
  \/ Half(A) = Half(B) /\ cmpgt_epi32(Lsb(A), Lsb(B))

si_clgt(RA, RB) == cmpgt_epu32(RA, RB)

si_a(RA, RB) == add_epi32(RA, RB)

si_addx(RA, RB, RT) == add_epi32(add_epi32(RA, RB), Lsb(RT))

(* (RA & RB)'s low bit is the carry out of the two low bits. *)
SumOfHalves(RA, RB) ==
  add_epi32(add_epi32(Half(RA), Half(RB)), Lsb(RA) * Lsb(RB))

(* Mutant: the carry of the two low bits is forgotten. *)
si_cg_halves(RA, RB) == MsbOf(add_epi32(Half(RA), Half(RB)))

si_cg(RA, RB) == MsbOf(SumOfHalves(RA, RB))

(* Mutant: the carry in is ignored. *)
si_cgx_no_carry(RA, RB, RT) == MsbOf(SumOfHalves(RA, RB))

(* The carry in is added to the halved sum. *)
si_cgx(RA, RB, RT) == MsbOf(add_epi32(Lsb(RT), SumOfHalves(RA, RB)))

si_sf(RA, RB) == sub_epi32(RB, RA)

(* 0 if RB - RA borrows. *)
si_bg(RA, RB) == IF cmplt_epu32(RB, RA) THEN 0 ELSE 1

Borrow(RT) == sub_epi32(Lsb(RT), 1)   \* 1 -> 0, 0 -> -1

(* Mutant: the borrow in is taken the wrong way round. *)
si_bgx_inverted(RA, RB, RT) ==
  IF cmplt_epu32(sub_epi32(RB, Lsb(RT)), RB) THEN 0 ELSE 1

(* RA is not read. *)
si_bgx(RA, RB, RT) ==
  IF cmplt_epu32(add_epi32(RB, Borrow(RT)), RB) THEN 0 ELSE 1

si_sfx(RA, RB, RT) == add_epi32(si_sf(RA, RB), Borrow(RT))
=============================================================================
