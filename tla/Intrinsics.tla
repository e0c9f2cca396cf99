----------------------------- MODULE Intrinsics -----------------------------
(***************************************************************************)
(* The multiply intrinsics of spu_internals_x86.h, with sfi and clgt, on   *)
(* one 32-bit lane.  SSE has no multiply of 16-bit halves into 32-bit      *)
(* products: the products are put together from the low and the high       *)
(* halves that mullo and mulhi return.  An intrinsic is a step that reads  *)
(* the operands and sets the result.                                       *)
(*                                                                         *)
(* HalfMsb stands for 2^15.  The immediate of mpyi, mpyui and sfi is drawn *)
(* from all 16-bit values, by its bits.                                    *)
(***************************************************************************)
EXTENDS LaneOps

CONSTANT HalfMsb   \* the value of the most significant bit of half a lane

HalfModulus == 2 * HalfMsb

ASSUME HalfAssumption ==
  HalfMsb \in Nat /\ Modulus = HalfModulus * HalfModulus

HalfWord == 0 .. HalfModulus - 1

VARIABLES
  ra, rb, rc,   \* the operands RA, RB and RC
  imm,          \* the bits of the immediate operand IMM
  insn,         \* the intrinsic that ran, "none" before any
  rt            \* its result

laneVars == <<ra, rb, rc, imm, insn, rt>>

Hi(x) == x \div HalfModulus   \* x >> 16
Lo(x) == x % HalfModulus      \* (x << 16) >> 16

AsSignedHalf(x) == IF x < HalfMsb THEN x ELSE x - HalfModulus

(* A result put together from two halves, low half first. *)
Join(lo, hi) == lo + HalfModulus * hi

(* The SSE multiplies of 16-bit lanes. *)
mullo_epi16(x, y) == (x * y) % HalfModulus
mulhi_epu16(x, y) == (x * y) \div HalfModulus
mulhi_epi16(x, y) ==
  ((AsSignedHalf(x) * AsSignedHalf(y)) \div HalfModulus) % HalfModulus

-----------------------------------------------------------------------------

Product(x, y) == Join(mullo_epi16(x, y), mulhi_epi16(x, y))
ProductUnsigned(x, y) == Join(mullo_epi16(x, y), mulhi_epu16(x, y))

(* Mutant: the high half of the product is the unsigned one. *)
si_mpy_unsigned(a, b) == ProductUnsigned(Lo(a), Lo(b))

si_mpy(a, b) == Product(Lo(a), Lo(b))
si_mpyu(a, b) == ProductUnsigned(Lo(a), Lo(b))
si_mpyi(a, value) == si_mpy(a, value)
si_mpyui(a, value) == si_mpyu(a, value)
si_mpya(a, b, c) == add_epi32(si_mpy(a, b), c)

(* Mutant: both operands are taken from the low halves. *)
si_mpyh_low(a, b) == mullo_epi16(Lo(a), Lo(b))

(* The low half of the product, left in the low half of the lane. *)
si_mpyh(a, b) == mullo_epi16(Hi(a), Lo(b))

(* The product is shifted left and right again, with its sign. *)
si_mpys(a, b) == AsSignedHalf(Lo(si_mpy(a, b))) % Modulus

si_mpyhh(a, b) == Product(Hi(a), Hi(b))
si_mpyhha(a, b, c) == add_epi32(si_mpyhh(a, b), c)

(* Mutant: the high half of the product is the signed one. *)
si_mpyhhu_signed(a, b) == Product(Hi(a), Hi(b))

si_mpyhhu(a, b) == ProductUnsigned(Hi(a), Hi(b))
si_mpyhhau(a, b, c) == add_epi32(si_mpyhhu(a, b), c)

(* _mm_set1_epi32( (int32_t)imm ) of an int16_t. *)
SignExtended(value) == AsSignedHalf(value) % Modulus

(* Mutant: the operands are swapped. *)
si_sfi_swapped(a, value) ==
  Join((Lo(a) - Lo(SignExtended(value))) % HalfModulus,
       (Hi(a) - Hi(SignExtended(value))) % HalfModulus)

(* The immediate fills a 32-bit lane, the subtraction is of 16-bit lanes. *)
si_sfi(a, value) ==
  Join((Lo(SignExtended(value)) - Lo(a)) % HalfModulus,
       (Hi(SignExtended(value)) - Hi(a)) % HalfModulus)

-----------------------------------------------------------------------------

LaneInit ==
  /\ ra \in Word /\ rb \in Word /\ rc \in Word
  /\ imm \in HalfWord
  /\ insn = "none"
  /\ rt = 0

Returns(name, value) ==
  /\ insn' = name
  /\ rt' = value
  /\ UNCHANGED <<ra, rb, rc, imm>>

Run ==
  \/ Returns("mpy", si_mpy(ra, rb))
  \/ Returns("mpyu", si_mpyu(ra, rb))
  \/ Returns("mpyi", si_mpyi(ra, imm))
  \/ Returns("mpyui", si_mpyui(ra, imm))
  \/ Returns("mpya", si_mpya(ra, rb, rc))
  \/ Returns("mpyh", si_mpyh(ra, rb))
  \/ Returns("mpys", si_mpys(ra, rb))
  \/ Returns("mpyhh", si_mpyhh(ra, rb))
  \/ Returns("mpyhha", si_mpyhha(ra, rb, rc))
  \/ Returns("mpyhhu", si_mpyhhu(ra, rb))
  \/ Returns("mpyhhau", si_mpyhhau(ra, rb, rc))
  \/ Returns("sfi", si_sfi(ra, imm))

LaneNext == insn = "none" /\ Run

LaneSpec == LaneInit /\ [][LaneNext]_laneVars

-----------------------------------------------------------------------------

(* A result fits its lane. *)
LaneTypeOK == rt \in Word

SignedLo == AsSignedHalf(Lo(ra)) * AsSignedHalf(Lo(rb))
SignedHi == AsSignedHalf(Hi(ra)) * AsSignedHalf(Hi(rb))

(* mpy, mpyi, mpya, mpyhh and mpyhha: the products of the signed halves    *)
(* come out whole, with their sign, though mullo knows no sign.            *)
SignedProducts ==
  /\ insn = "mpy" => rt = SignedLo % Modulus
  /\ insn = "mpyi" => rt = (AsSignedHalf(Lo(ra)) * AsSignedHalf(imm)) % Modulus
  /\ insn = "mpya" => rt = (SignedLo + rc) % Modulus
  /\ insn = "mpyhh" => rt = SignedHi % Modulus
  /\ insn = "mpyhha" => rt = (SignedHi + rc) % Modulus

(* The same of the unsigned products. *)
UnsignedProducts ==
  /\ insn = "mpyu" => rt = Lo(ra) * Lo(rb)
  /\ insn = "mpyui" => rt = Lo(ra) * imm
  /\ insn = "mpyhhu" => rt = Hi(ra) * Hi(rb)
  /\ insn = "mpyhhau" => rt = (Hi(ra) * Hi(rb) + rc) % Modulus

(* The products put together from a low half that knows no sign and a high *)
(* half that does are whole, for every form of multiply that returns one.  *)
ProductsWhole == SignedProducts /\ UnsignedProducts

(* sfi is "RT<-I10-RA" exactly when the low halves do not borrow.          *)
SfiUnlessBorrow ==
  insn = "sfi" =>
    ((rt = (AsSignedHalf(imm) - ra) % Modulus) <=> (imm >= Lo(ra)))

(* mpyh is "RT<-(RAh*RB)<<16" only where the half it should move up is 0;  *)
(* mpys is "RT<-(RA*RB)>>16", the high half, only where that is the low    *)
(* half, which it returns, too.                                            *)
HalvesMisplaced ==
  /\ insn = "mpyh" =>
       ((rt = (Hi(ra) * Lo(rb) * HalfModulus) % Modulus)
          <=> ((Hi(ra) * Lo(rb)) % HalfModulus = 0))
  /\ insn = "mpys" =>
       ((rt = (SignedLo \div HalfModulus) % Modulus)
          <=> (SignedLo \div HalfModulus
                 = AsSignedHalf(SignedLo % HalfModulus)))
=============================================================================
