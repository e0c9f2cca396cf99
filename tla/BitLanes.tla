------------------------------ MODULE BitLanes ------------------------------
(***************************************************************************)
(* A quadword as the set of its bits that are 1, numbered as in the union  *)
(* __m128: bit 0 is the lowest bit of m128_u8[0], m128_u16[0], m128_u32[0] *)
(* and m128_u64[0], and so lanes of every width lie in it.  The SSE        *)
(* operations the handlers are made of are defined on it.                  *)
(***************************************************************************)
EXTENDS Integers, FiniteSets, FiniteSetsExt

Bit == 0 .. 127
Ones == Bit

Lane(q, w, i) == {b \in 0 .. w - 1 : w * i + b \in q}

(* The quadword whose lanes of width w are f(0), f(1), ... *)
Lanes(w, f(_)) ==
  UNION {{w * i + b : b \in f(i)} : i \in 0 .. (128 \div w) - 1}

(* The bits of a number; numbers are less than 2^30 in magnitude. *)
Bits(n, w) ==
  {b \in 0 .. w - 1 : IF b < 30 THEN (n \div 2 ^ b) % 2 = 1 ELSE n < 0}

Number(x) == MapThenSumSet(LAMBDA b : 2 ^ b, x)

(* The lowest n bits as a number: x & (2^n - 1). *)
LowBits(x, n) == Number({b \in x : b < n})

IsNegative(x, w) == w - 1 \in x

Signed(x, w) == Number(x) - (IF IsNegative(x, w) THEN 2 ^ w ELSE 0)

(* The most significant bit in which lanes differ decides. *)
Below(x, y) == x # y /\ Max(SymDiff(x, y)) \in y
BelowSigned(x, y, w) ==
  IF IsNegative(x, w) = IsNegative(y, w) THEN Below(x, y) ELSE IsNegative(x, w)

(* Bit i of a sum is odd; a carry arrives at i from the last place below   *)
(* it where both or no addend has a bit.                                   *)
Sum(x, y, w) ==
  LET Carry(i) == \E j \in 0 .. i - 1 :
                    j \in x \cap y /\ \A k \in j + 1 .. i - 1 : k \in x \cup y
  IN {i \in 0 .. w - 1 : (i \in SymDiff(x, y)) # Carry(i)}

Complement(x, w) == (0 .. w - 1) \ x
Difference(x, y, w) == Sum(Sum(x, Complement(y, w), w), {0}, w)

-----------------------------------------------------------------------------

(* Shifts of one lane; a count of w and more leaves nothing, or the sign. *)
ShiftLeft(x, w, s) == {b + s : b \in x} \cap 0 .. w - 1
ShiftRight(x, s) == {b - s : b \in {c \in x : c >= s}}
ShiftRightSigned(x, w, s) ==
  ShiftRight(x, s) \cup
    IF IsNegative(x, w) THEN {b \in 0 .. w - 1 : b >= w - s} ELSE {}

slli(q, w, s) == Lanes(w, LAMBDA i : ShiftLeft(Lane(q, w, i), w, s))
srli(q, w, s) == Lanes(w, LAMBDA i : ShiftRight(Lane(q, w, i), s))
srai(q, w, s) == Lanes(w, LAMBDA i : ShiftRightSigned(Lane(q, w, i), w, s))

(* _mm_slli_si128, _mm_srli_si128: by bytes. *)
slli_si128(q, n) == ShiftLeft(q, 128, 8 * n)
srli_si128(q, n) == ShiftRight(q, 8 * n)

set1(w, n) == Lanes(w, LAMBDA i : Bits(n, w))
set1_of(w, x) == Lanes(w, LAMBDA i : x)

andnot(a, b) == b \ a

WhereLanes(w, p(_)) ==
  Lanes(w, LAMBDA i : IF p(i) THEN 0 .. w - 1 ELSE {})
cmpeq(a, b, w) == WhereLanes(w, LAMBDA i : Lane(a, w, i) = Lane(b, w, i))
cmpgt(a, b, w) ==
  WhereLanes(w, LAMBDA i : BelowSigned(Lane(b, w, i), Lane(a, w, i), w))

add(a, b, w) == Lanes(w, LAMBDA i : Sum(Lane(a, w, i), Lane(b, w, i), w))
sub(a, b, w) == Lanes(w, LAMBDA i : Difference(Lane(a, w, i), Lane(b, w, i), w))

(* _mm_shuffle_ps: two words of a, then two of b. *)
shuffle_ps(a, b, x0, x1, x2, x3) ==
  Lanes(32, LAMBDA i :
    CASE i = 0 -> Lane(a, 32, x0) [] i = 1 -> Lane(a, 32, x1)
      [] i = 2 -> Lane(b, 32, x2) [] OTHER -> Lane(b, 32, x3))
=============================================================================
