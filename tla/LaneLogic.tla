----------------------------- MODULE LaneLogic ------------------------------
(***************************************************************************)
(* The intrinsics on lanes of bytes, halfwords and words that need no      *)
(* arithmetic wider than a lane: constant formation, adds and subtracts,   *)
(* logical forms, compares, counts and conversions to scalars of           *)
(* spu_internals_x86.h, the SSE extensions they use, and the handlers of   *)
(* spu_emu_int_and.cpp, _or.cpp, _xor.cpp and spu_emu_int_misc.cpp that    *)
(* work lane by lane.                                                      *)
(***************************************************************************)
EXTENDS BitLanes

si_ilh(n) == set1(16, n)
si_ilhu(n) == set1_of(32, ShiftLeft(Bits(n, 32), 32, 16))
si_il(n) == set1(32, n)
si_ila(n) == set1(32, n)
si_iohl(a, n) == a \cup set1(32, n)

(* The mask whose byte i has bit i % 8. *)
mask_all_set8 == Lanes(8, LAMBDA i : {i % 8})

(* The bits of the immediate are left where they are in their bytes. *)
si_fsmbi(n) ==
  LET r3 == srli_si128(set1(8, n), 8)
      r4 == slli_si128(set1(8, n \div 256), 8)
  IN (r3 \cap mask_all_set8) \cup (r4 \cap mask_all_set8)

si_ah(a, b) == add(a, b, 16)
si_ahi(a, n) == add(a, set1(16, n), 16)
si_ai(a, n) == add(a, set1(32, n), 32)
si_sfh(a, b) == sub(b, a, 16)
si_sfhi(a, n) == sub(set1(16, n), a, 16)

-----------------------------------------------------------------------------

si_and(a, b) == a \cap b
si_andc(a, b) == andnot(b, a)
si_andbi(a, n) == a \cap set1(8, n)
si_andhi(a, n) == a \cap set1(16, n)
si_andi(a, n) == a \cap set1(32, n)
si_nand(a, b) == andnot(a \cap b, set1(32, -1))
si_or(a, b) == a \cup b
si_orc(a, b) == a \cup andnot(b, set1(32, -1))
si_orbi(a, n) == a \cup set1(8, n)
si_orhi(a, n) == a \cup set1(16, n)
si_ori(a, n) == a \cup set1(32, n)
si_nor(a, b) == andnot(a \cup b, set1(32, -1))
si_xor(a, b) == SymDiff(a, b)
si_xorbi(a, n) == SymDiff(a, set1(8, n))
si_xorhi(a, n) == SymDiff(a, set1(16, n))
si_xori(a, n) == SymDiff(a, set1(32, n))

(* The words are turned three times over; the result is left in word 0. *)
si_orx(a) ==
  LET Turned(q) == shuffle_ps(q, q, 1, 2, 3, 0)
      temp1 == a \cup Turned(a)
      temp2 == temp1 \cup Turned(temp1)
      temp3 == temp2 \cup Turned(temp2)
  IN Lane(temp3, 32, 0)

si_selb(a, b, c) == andnot(c, a) \cup (c \cap b)

-----------------------------------------------------------------------------

(* sse_extensions.h: shifts of bytes from shifts of words. *)
mm_srli_epi8(q, n) == set1(8, 255 \div 2 ^ n) \cap srli(q, 32, n)
mm_slli_epi8(q, n) == set1(8, 255 * 2 ^ n) \cap slli(q, 32, n)
Shifted8(q) == mm_srli_epi8(q, 1)
Lsb8(q) == mm_srli_epi8(mm_slli_epi8(q, 7), 7)

(* An unsigned compare from signed ones of the halves, and of the lowest   *)
(* bits where these are equal.                                             *)
HalvedCompare(shiftA, shiftB, lsbA, lsbB, w) ==
  cmpgt(shiftA, shiftB, w)
    \cup (cmpeq(shiftA, shiftB, w) \cap cmpgt(lsbA, lsbB, w))
mm_cmpgt_epu8(a, b) ==
  HalvedCompare(Shifted8(a), Shifted8(b), Lsb8(a), Lsb8(b), 8)
mm_cmpgt_epu16(a, b) ==
  LET Lsb(q) == srli(slli(q, 16, 15), 16, 15)
  IN HalvedCompare(srli(a, 16, 1), srli(b, 16, 1), Lsb(a), Lsb(b), 16)
mm_cmpgt_epu32(a, b) ==
  LET Lsb(q) == srli(slli(q, 32, 31), 32, 31)
  IN HalvedCompare(srli(a, 32, 1), srli(b, 32, 1), Lsb(a), Lsb(b), 32)

si_ceqb(a, b) == cmpeq(a, b, 8)
si_ceqh(a, b) == cmpeq(a, b, 16)
si_ceq(a, b) == cmpeq(a, b, 32)
si_ceqbi(a, n) == cmpeq(a, set1(8, n), 8)
si_ceqhi(a, n) == cmpeq(a, set1(16, n), 16)
si_ceqi(a, n) == cmpeq(a, set1(32, n), 32)
si_cgtb(a, b) == cmpgt(a, b, 8)
si_cgth(a, b) == cmpgt(a, b, 16)
si_cgt(a, b) == cmpgt(a, b, 32)
si_cgtbi(a, n) == cmpgt(a, set1(8, n), 8)
si_cgthi(a, n) == cmpgt(a, set1(16, n), 16)
si_cgti(a, n) == cmpgt(a, set1(32, n), 32)
si_clgtb(a, b) == mm_cmpgt_epu8(a, b)
si_clgth(a, b) == mm_cmpgt_epu16(a, b)
si_clgt(a, b) == mm_cmpgt_epu32(a, b)
si_clgtbi(a, n) == mm_cmpgt_epu8(a, set1(8, n))
(* Mutant: the immediate is not sign extended. *)
si_clgthi_unextended(a, n) == mm_cmpgt_epu16(a, set1(16, n % 1024))
si_clgthi(a, n) == mm_cmpgt_epu16(a, set1(16, n))
si_clgti(a, n) == mm_cmpgt_epu32(a, set1(32, n))

-----------------------------------------------------------------------------

(* 0x55.., 0x33.., 0x0F.. *)
Mask55 == set1(8, 85)
Mask33 == set1(8, 51)
Mask0F == set1(8, 15)

mm_cntb_epui8(a) ==
  LET t0 == sub(a, mm_srli_epi8(a, 1) \cap Mask55, 8)
      t1 == add(t0 \cap Mask33, mm_srli_epi8(t0, 2) \cap Mask33, 8)
  IN add(t1, mm_srli_epi8(t1, 4), 8) \cap Mask0F

(* The low 32 bits of a product with 0x01010101. *)
TimesOnes(x) ==
  Sum(Sum(x, ShiftLeft(x, 32, 8), 32),
      Sum(ShiftLeft(x, 32, 16), ShiftLeft(x, 32, 24), 32), 32)

(* _mm_mul_epu32 multiplies words 0 and 2, and so the products of the      *)
(* others need the words moved down; the shuffle takes words 0 and 2 of    *)
(* both products and leaves the counts in the order 0, 2, 1, 3.            *)
mm_cntb_epi32(a) ==
  LET t0 == sub(a, srli(a, 32, 1) \cap Mask55, 8)
      t1 == add(t0 \cap Mask33, srli(t0, 32, 2) \cap Mask33, 8)
      t2 == add(t1, srli(t1, 32, 4), 8) \cap Mask0F
      Products(q) == Lanes(32, LAMBDA i :
                       IF i \in {0, 2} THEN TimesOnes(Lane(q, 32, i)) ELSE {})
      p0 == Products(t2)
      p1 == Products(srli_si128(t2, 4))
  IN srli(shuffle_ps(p0, p1, 0, 2, 0, 2), 32, 24)

si_cntb(a) == mm_cntb_epui8(a)

si_clz(a) ==
  LET t0 == a \cup srli(a, 32, 1)
      t1 == t0 \cup srli(t0, 32, 2)
      t2 == t1 \cup srli(t1, 32, 4)
      t3 == t2 \cup srli(t2, 32, 8)
      t4 == t3 \cup srli(t3, 32, 16)
  IN sub(set1(32, 32), mm_cntb_epi32(t4), 32)

(* Halfwords 7 to 4, the upper doubleword; si_to_uint and the like cut it. *)
si_to_ullong_aux(a) == Lane(a, 64, 1)
si_to_uint(a) == si_to_ullong_aux(a) \cap 0 .. 31

-----------------------------------------------------------------------------

Byte(q, i) == Number(Lane(q, 8, i))

spu_avgb(a, b) ==
  Lanes(8, LAMBDA i : Bits((Byte(a, i) + Byte(b, i) + 1) \div 2, 8))

(* The compare is signed. *)
spu_absdb(a, b) ==
  (cmpgt(a, b, 8) \cap sub(a, b, 8)) \cup (cmpgt(b, a, 8) \cap sub(b, a, 8))

SumOfBytes(q, i) ==
  Byte(q, 4 * i) + Byte(q, 4 * i + 1) + Byte(q, 4 * i + 2) + Byte(q, 4 * i + 3)
spu_sumb(a, b) ==
  Lanes(32, LAMBDA i : ShiftLeft(Bits(SumOfBytes(b, i), 16), 32, 16)
                         \cup Bits(SumOfBytes(a, i), 16))

si_xsbh(a) == srai(slli(a, 16, 8), 16, 8)
si_xshw(a) == srai(slli(a, 32, 16), 32, 16)

(* Words 1 and 3 are kept and their signs looked for in words 0 and 2. *)
si_xswd(a) ==
  LET upper == Lanes(32, LAMBDA i : IF i % 2 = 1 THEN 0 .. 31 ELSE {})
      RA_has_sign_bit == Lanes(32, LAMBDA i : Lane(a, 32, i) \cap {31}) \cap upper
      RA_sign_extension == RA_has_sign_bit \cap (Ones \ upper)
  IN (a \cap upper) \cup RA_sign_extension

spu_eqv(a, b) == cmpeq(a, b, 32) \cap set1(32, 1)
=============================================================================
