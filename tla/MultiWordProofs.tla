--------------------------- MODULE MultiWordProofs --------------------------
(***************************************************************************)
(* The intrinsics of LaneOps compute what their names say for lanes of any *)
(* width, and the chain of MultiWord adds and subtracts numbers of two     *)
(* words correctly for any width.  The arithmetic is in the lemmas about   *)
(* single intrinsics; the inductive invariant is IInv.  The second half is *)
(* about the intrinsics of Intrinsics, which multiply the halves of lanes. *)
(***************************************************************************)
EXTENDS MultiWord, Intrinsics, TLAPS

(* Wrapping around once, up and down. *)
LEMMA Wrap ==
  ASSUME NEW x \in Int
  PROVE  /\ x \in Word => x % Modulus = x
         /\ x \in Modulus .. 2 * Modulus - 1 => x % Modulus = x - Modulus
         /\ x \in -Modulus .. -1 => x % Modulus = x + Modulus
  BY MsbAssumption DEF Modulus, Word

(* The same as one formula, for what a sum of two words can be. *)
LEMMA WrapSum ==
  ASSUME NEW x \in 0 .. 2 * Modulus - 1
  PROVE  /\ x % Modulus = IF x < Modulus THEN x ELSE x - Modulus
         /\ Modulus \in Nat
  BY Wrap, MsbAssumption DEF Modulus, Word

(* A word is twice its half plus its low bit. *)
LEMMA HalfAndLsb ==
  ASSUME NEW x \in Word
  PROVE  /\ Half(x) \in 0 .. Msb - 1
         /\ Lsb(x) \in {0, 1}
         /\ x = 2 * Half(x) + Lsb(x)
  BY MsbAssumption DEF Word, Modulus, Half, Lsb

(* The most significant bit. *)
LEMMA Top ==
  ASSUME NEW x \in Word
  PROVE  MsbOf(x) = IF x < Msb THEN 0 ELSE 1
  BY MsbAssumption DEF Word, Modulus, MsbOf

(* cmplt_epu32 compares without sign, though it is made of signed compares. *)
LEMMA LessIsUnsigned ==
  ASSUME NEW A \in Word, NEW B \in Word
  PROVE  cmplt_epu32(A, B) <=> A < B
<1>1. /\ AsSigned(Half(A)) = Half(A) /\ AsSigned(Half(B)) = Half(B)
      /\ AsSigned(Lsb(A)) = Lsb(A) /\ AsSigned(Lsb(B)) = Lsb(B)
  BY HalfAndLsb, MsbAssumption DEF AsSigned
<1>2. cmplt_epu32(A, B) <=>
        Half(A) < Half(B) \/ (Half(A) = Half(B) /\ Lsb(A) < Lsb(B))
  BY <1>1 DEF cmplt_epu32, cmplt_epi32
<1>3. /\ Half(A) \in Int /\ Lsb(A) \in {0, 1} /\ A = 2 * Half(A) + Lsb(A)
      /\ Half(B) \in Int /\ Lsb(B) \in {0, 1} /\ B = 2 * Half(B) + Lsb(B)
  BY HalfAndLsb, MsbAssumption
<1>4. (Half(A) < Half(B) \/ (Half(A) = Half(B) /\ Lsb(A) < Lsb(B))) <=> A < B
  BY <1>3
<1> QED
  BY <1>2, <1>4

(* The same of cmpgt_epu32, the compare behind si_clgt. *)
LEMMA GreaterIsUnsigned ==
  ASSUME NEW A \in Word, NEW B \in Word
  PROVE  si_clgt(A, B) <=> A > B
<1>1. /\ AsSigned(Half(A)) = Half(A) /\ AsSigned(Half(B)) = Half(B)
      /\ AsSigned(Lsb(A)) = Lsb(A) /\ AsSigned(Lsb(B)) = Lsb(B)
  BY HalfAndLsb, MsbAssumption DEF AsSigned
<1>2. si_clgt(A, B) <=>
        Half(A) > Half(B) \/ (Half(A) = Half(B) /\ Lsb(A) > Lsb(B))
  BY <1>1 DEF si_clgt, cmpgt_epu32, cmpgt_epi32
<1>3. /\ Half(A) \in Int /\ Lsb(A) \in {0, 1} /\ A = 2 * Half(A) + Lsb(A)
      /\ Half(B) \in Int /\ Lsb(B) \in {0, 1} /\ B = 2 * Half(B) + Lsb(B)
  BY HalfAndLsb, MsbAssumption
<1>4. (Half(A) > Half(B) \/ (Half(A) = Half(B) /\ Lsb(A) > Lsb(B))) <=> A > B
  BY <1>3
<1> QED
  BY <1>2, <1>4

(* Adding the halves and the carry of the low bits halves the sum, and     *)
(* never overflows the lane.                                               *)
LEMMA HalvedSum ==
  ASSUME NEW A \in Word, NEW B \in Word
  PROVE  /\ SumOfHalves(A, B) \in Word
         /\ A + B - 2 * SumOfHalves(A, B) \in {0, 1}
<1> DEFINE ha == Half(A)
           hb == Half(B)
           la == Lsb(A)
           lb == Lsb(B)
<1>1. /\ ha \in 0 .. Msb - 1 /\ la \in {0, 1} /\ A = 2 * ha + la
      /\ hb \in 0 .. Msb - 1 /\ lb \in {0, 1} /\ B = 2 * hb + lb
  BY HalfAndLsb
<1>2. la * lb \in {0, 1} /\ la + lb - 2 * (la * lb) \in {0, 1}
  BY <1>1
<1>3. SumOfHalves(A, B) = (((ha + hb) % Modulus) + la * lb) % Modulus
  BY DEF SumOfHalves, add_epi32
<1> HIDE DEF ha, hb, la, lb
<1>4. ha + hb \in Word /\ ha + hb + la * lb \in Word
  BY <1>1, <1>2, MsbAssumption DEF Word, Modulus
<1>5. ha + hb \in Int /\ ha + hb + la * lb \in Int
  BY <1>1, <1>2
<1>6. SumOfHalves(A, B) = ha + hb + la * lb
  BY <1>3, <1>4, <1>5, Wrap
<1> QED
  BY <1>1, <1>2, <1>4, <1>6

(* si_cg is the carry out of the sum. *)
LEMMA CarryGenerate ==
  ASSUME NEW A \in Word, NEW B \in Word
  PROVE  si_cg(A, B) = IF A + B < Modulus THEN 0 ELSE 1
<1>1. /\ SumOfHalves(A, B) \in Word
      /\ A + B - 2 * SumOfHalves(A, B) \in {0, 1}
  BY HalvedSum
<1>2. MsbOf(SumOfHalves(A, B)) = IF SumOfHalves(A, B) < Msb THEN 0 ELSE 1
  BY <1>1, Top
<1> QED
  BY <1>1, <1>2, MsbAssumption DEF si_cg, Word, Modulus

(* si_cgx is the carry out of the sum unless there is a carry in and the   *)
(* sum without it is one of two.                                           *)
LEMMA CarryGenerateExtended ==
  ASSUME NEW A \in Word, NEW B \in Word, NEW T \in {0, 1},
         T = 0 \/ A + B \notin {Modulus - 2, 2 * Modulus - 2}
  PROVE  si_cgx(A, B, T) = IF A + B + T < Modulus THEN 0 ELSE 1
<1> DEFINE s == SumOfHalves(A, B)
<1>1. s \in Word /\ A + B - 2 * s \in {0, 1}
  BY HalvedSum
<1>2. Lsb(T) = T
  BY DEF Lsb
<1>3. si_cgx(A, B, T) = MsbOf((T + s) % Modulus)
  BY <1>2 DEF si_cgx, add_epi32
<1> HIDE DEF s
<1>4. T + s \in Word
  BY <1>1, MsbAssumption DEF Word, Modulus
<1>5. (T + s) % Modulus = T + s
  BY <1>1, <1>4, Wrap DEF Word
<1>6. si_cgx(A, B, T) = IF T + s < Msb THEN 0 ELSE 1
  BY <1>3, <1>4, <1>5, Top
<1> QED
  BY <1>1, <1>6, MsbAssumption DEF Word, Modulus

(* For those two sums a carry in turns the carry out around. *)
LEMMA CarryMisplaced ==
  ASSUME NEW A \in Word, NEW B \in Word,
         A + B \in {Modulus - 2, 2 * Modulus - 2}
  PROVE  si_cgx(A, B, 1) = IF A + B + 1 < Modulus THEN 1 ELSE 0
<1> DEFINE s == SumOfHalves(A, B)
<1>1. s \in Word /\ A + B - 2 * s \in {0, 1}
  BY HalvedSum
<1>2. Lsb(1) = 1
  BY DEF Lsb
<1>3. si_cgx(A, B, 1) = MsbOf((1 + s) % Modulus)
  BY <1>2 DEF si_cgx, add_epi32
<1> HIDE DEF s
<1>4. Modulus = 2 * Msb /\ Msb \in Nat /\ Msb > 0
  BY MsbAssumption DEF Modulus
<1>5. CASE A + B = Modulus - 2
  <2>1. 1 + s = Msb
    BY <1>1, <1>4, <1>5 DEF Word
  <2>2. Msb \in Word /\ Msb % Modulus = Msb
    BY <1>4, Wrap DEF Word
  <2> QED
    BY <1>3, <1>4, <1>5, <2>1, <2>2, Top
<1>6. CASE A + B = 2 * Modulus - 2
  <2>1. 1 + s = Modulus
    BY <1>1, <1>4, <1>6 DEF Word
  <2>2. Modulus % Modulus = 0 /\ 0 \in Word
    BY <1>4 DEF Word
  <2> QED
    BY <1>3, <1>4, <1>6, <2>1, <2>2, Top
<1> QED
  BY <1>5, <1>6

(* si_cgx returns a bit whatever the sum. *)
LEMMA CarryIsBit ==
  ASSUME NEW A \in Word, NEW B \in Word, NEW T \in {0, 1}
  PROVE  si_cgx(A, B, T) \in {0, 1}
<1> DEFINE s == SumOfHalves(A, B)
<1>1. s \in Word
  BY HalvedSum
<1>2. Lsb(T) = T
  BY DEF Lsb
<1>3. si_cgx(A, B, T) = MsbOf((T + s) % Modulus)
  BY <1>2 DEF si_cgx, add_epi32
<1> HIDE DEF s
<1>4. (T + s) % Modulus \in Word
  BY <1>1, MsbAssumption DEF Word, Modulus
<1> QED
  BY <1>3, <1>4, Top

(* si_bg is 0 exactly when the difference borrows. *)
LEMMA BorrowGenerate ==
  ASSUME NEW A \in Word, NEW B \in Word
  PROVE  si_bg(A, B) = IF B < A THEN 0 ELSE 1
  BY LessIsUnsigned DEF si_bg

(* si_bgx looks at the borrow in and at whether RB is 0, and at nothing    *)
(* else.                                                                   *)
LEMMA BorrowGenerateExtended ==
  ASSUME NEW A \in Word, NEW B \in Word, NEW T \in {0, 1}
  PROVE  si_bgx(A, B, T) = 0 <=> T = 0 /\ B # 0
<1> DEFINE d == add_epi32(B, Borrow(T))
<1>1. Modulus \in Nat /\ Modulus > 1
  BY MsbAssumption DEF Modulus
<1>2. Lsb(T) = T
  BY DEF Lsb
<1>3. Borrow(T) = IF T = 0 THEN Modulus - 1 ELSE 0
  <2>1. T - 1 \in Int /\ (T = 0 => T - 1 \in -Modulus .. -1)
        /\ (T = 1 => T - 1 \in Word)
    BY <1>1 DEF Word
  <2> QED
    BY <1>1, <1>2, <2>1, Wrap DEF Borrow, sub_epi32
<1>4. d = IF T = 1 THEN B ELSE IF B = 0 THEN Modulus - 1 ELSE B - 1
  <2>1. B + Borrow(T) \in 0 .. 2 * Modulus - 1
    BY <1>1, <1>3 DEF Word
  <2> DEFINE x == B + Borrow(T)
  <2>2. x \in 0 .. 2 * Modulus - 1
    BY <2>1
  <2>3. d = x % Modulus
    BY DEF add_epi32
  <2>4. x % Modulus = IF x < Modulus THEN x ELSE x - Modulus
    <3> HIDE DEF x
    <3> QED BY <2>2, WrapSum
  <2> QED
    BY <1>1, <1>3, <2>3, <2>4 DEF Word
<1>5. d \in Word
  BY <1>1, <1>4 DEF Word
<1>6. si_bgx(A, B, T) = IF d < B THEN 0 ELSE 1
  BY <1>5, LessIsUnsigned DEF si_bgx
<1> HIDE DEF d
<1> QED
  BY <1>1, <1>4, <1>6 DEF Word

(* Numbers of two words compare as their high words do, or, where these    *)
(* are equal, as their low words.                                          *)
LEMMA HigherWordDecides ==
  ASSUME NEW a1 \in Word, NEW a2 \in Word, NEW b1 \in Word, NEW b2 \in Word
  PROVE  (b1 + Modulus * b2 < a1 + Modulus * a2) <=>
           (b2 < a2 \/ (b2 = a2 /\ b1 < a1))
<1> DEFINE n == Modulus
<1>1. n \in Nat /\ n > 1
  BY MsbAssumption DEF Modulus
<1>2. /\ a1 \in 0 .. n - 1 /\ b1 \in 0 .. n - 1
      /\ a2 \in Int /\ b2 \in Int
  BY <1>1 DEF Word
<1> HIDE DEF n
<1>3. n * a2 \in Int /\ n * b2 \in Int
  BY <1>1, <1>2
<1>4. CASE b2 < a2
  <2>1. n * (a2 - b2) >= n
    BY <1>1, <1>2, <1>4
  <2>2. n * a2 - n * b2 = n * (a2 - b2)
    BY <1>1, <1>2
  <2> QED
    BY <1>1, <1>2, <1>3, <1>4, <2>1, <2>2 DEF n
<1>5. CASE b2 = a2
  BY <1>1, <1>2, <1>3, <1>5 DEF n
<1>6. CASE b2 > a2
  <2>1. n * (b2 - a2) >= n
    BY <1>1, <1>2, <1>6
  <2>2. n * b2 - n * a2 = n * (b2 - a2)
    BY <1>1, <1>2
  <2> QED
    BY <1>1, <1>2, <1>3, <1>6, <2>1, <2>2 DEF n
<1> QED
  BY <1>2, <1>4, <1>5, <1>6

(* si_a and the carry of si_cg make up the sum. *)
LEMMA AddLowWords ==
  ASSUME NEW A \in Word, NEW B \in Word
  PROVE  /\ si_a(A, B) \in Word
         /\ A + B = si_a(A, B) + Modulus * si_cg(A, B)
<1>1. A + B \in Word \/ A + B \in Modulus .. 2 * Modulus - 1
  BY MsbAssumption DEF Word, Modulus
<1>2. A + B \in Int
  BY DEF Word
<1>3. si_a(A, B) = IF A + B < Modulus THEN A + B ELSE A + B - Modulus
  BY <1>1, <1>2, Wrap, MsbAssumption DEF si_a, add_epi32, Word, Modulus
<1> QED
  BY <1>3, CarryGenerate, MsbAssumption DEF Word, Modulus

(* si_sf and the borrow of si_bg make up the difference. *)
LEMMA SubtractLowWords ==
  ASSUME NEW A \in Word, NEW B \in Word
  PROVE  /\ si_sf(A, B) \in Word
         /\ B - A = si_sf(A, B) - Modulus * (1 - si_bg(A, B))
<1>1. B - A \in Word \/ B - A \in -Modulus .. -1
  BY MsbAssumption DEF Word, Modulus
<1>2. B - A \in Int
  BY DEF Word
<1>3. si_sf(A, B) = IF B < A THEN B - A + Modulus ELSE B - A
  BY <1>1, <1>2, Wrap, MsbAssumption DEF si_sf, sub_epi32, Word, Modulus
<1> QED
  BY <1>3, BorrowGenerate, MsbAssumption DEF Word, Modulus

(* si_addx is the sum of three, less what does not fit. *)
LEMMA AddHighWords ==
  ASSUME NEW A \in Word, NEW B \in Word, NEW T \in {0, 1}
  PROVE  /\ si_addx(A, B, T) \in Word
         /\ si_addx(A, B, T) =
              IF A + B + T < Modulus THEN A + B + T ELSE A + B + T - Modulus
<1>1. Lsb(T) = T
  BY DEF Lsb
<1> DEFINE s == si_a(A, B)
<1>2. s \in Word /\ A + B = s + Modulus * si_cg(A, B)
  BY AddLowWords
<1>3. si_cg(A, B) = IF A + B < Modulus THEN 0 ELSE 1
  BY CarryGenerate
<1>4. si_addx(A, B, T) = (s + T) % Modulus
  BY <1>1 DEF si_addx, si_a, add_epi32
<1> HIDE DEF s
<1>5. s = IF A + B < Modulus THEN A + B ELSE A + B - Modulus
  BY <1>2, <1>3, MsbAssumption DEF Word, Modulus
<1> DEFINE x == s + T
<1>6. x \in 0 .. 2 * Modulus - 1
  BY <1>2, MsbAssumption DEF Word, Modulus
<1>7. x % Modulus = IF x < Modulus THEN x ELSE x - Modulus
  <2> HIDE DEF x
  <2> QED BY <1>6, WrapSum
<1> QED
  BY <1>2, <1>4, <1>5, <1>7, MsbAssumption DEF Word, Modulus

(* si_sfx is the difference less the borrow, plus what was borrowed. *)
LEMMA SubtractHighWords ==
  ASSUME NEW A \in Word, NEW B \in Word, NEW T \in {0, 1}
  PROVE  /\ si_sfx(A, B, T) \in Word
         /\ si_sfx(A, B, T) =
              IF B - A + T - 1 < 0 THEN B - A + T - 1 + Modulus
                                   ELSE B - A + T - 1
<1>1. Borrow(T) = IF T = 1 THEN 0 ELSE Modulus - 1
  <2>1. Lsb(T) = T
    BY DEF Lsb
  <2>2. 0 % Modulus = 0 /\ (-1) % Modulus = -1 + Modulus
    BY Wrap, MsbAssumption DEF Word, Modulus
  <2> QED
    BY <2>1, <2>2, MsbAssumption DEF Borrow, sub_epi32, Modulus
<1> DEFINE d == si_sf(A, B)
<1>2. d \in Word /\ d = IF B < A THEN B - A + Modulus ELSE B - A
  <2>1. /\ d \in Word
        /\ B - A = d - Modulus * (1 - si_bg(A, B))
        /\ si_bg(A, B) = IF B < A THEN 0 ELSE 1
    BY SubtractLowWords, BorrowGenerate
  <2> HIDE DEF d
  <2> QED
    BY <2>1, MsbAssumption DEF Word, Modulus
<1>3. si_sfx(A, B, T) = (d + Borrow(T)) % Modulus
  BY DEF si_sfx, add_epi32
<1> HIDE DEF d
<1> DEFINE x == d + Borrow(T)
<1>4. x \in 0 .. 2 * Modulus - 1
  BY <1>1, <1>2, MsbAssumption DEF Word, Modulus
<1>5. x % Modulus = IF x < Modulus THEN x ELSE x - Modulus
  <2> HIDE DEF x
  <2> QED BY <1>4, WrapSum
<1> QED
  BY <1>1, <1>2, <1>3, <1>5, MsbAssumption DEF Word, Modulus

-----------------------------------------------------------------------------

(* Nothing is done yet. *)
LEMMA InitIInv == Init => IInv
<1> SUFFICES ASSUME Init PROVE IInv
  OBVIOUS
<1>1. TypeOK
  BY MsbAssumption DEF Init, TypeOK, Word, Modulus
<1> QED
  BY <1>1 DEF Init, IInv, LowSum, LowDifference, SumIsRight, SumsNotPictured,
              DifferenceIsRight, CarryOutExcept, BorrowOutExcept

(* The low words of a sum, and the carry they leave. *)
LEMMA AddLowIInv == IInv /\ AddLow => IInv'
<1> SUFFICES ASSUME IInv, AddLow PROVE IInv'
  OBVIOUS
<1>1. /\ RA[1] \in Word /\ RB[1] \in Word
      /\ RT' = [RT EXCEPT ![1] = si_a(RA[1], RB[1])]
      /\ carry' = si_cg(RA[1], RB[1])
      /\ done' = 1 /\ op = "add" /\ UNCHANGED <<op, RA, RB>>
  BY DEF IInv, TypeOK, AddLow, Step
<1>2. /\ si_a(RA[1], RB[1]) \in Word
      /\ RA[1] + RB[1] = si_a(RA[1], RB[1]) + Modulus * si_cg(RA[1], RB[1])
      /\ si_cg(RA[1], RB[1]) \in {0, 1}
  BY <1>1, AddLowWords, CarryGenerate
<1>3. TypeOK'
  BY <1>1, <1>2 DEF IInv, TypeOK
<1>4. RT'[1] = si_a(RA[1], RB[1])
  BY <1>1 DEF IInv, TypeOK
<1>5. LowSum'
  BY <1>1, <1>2, <1>4 DEF LowSum
<1> QED
  BY <1>1, <1>3, <1>5 DEF IInv, LowDifference, SumIsRight, DifferenceIsRight,
                          SumsNotPictured, CarryOutExcept, BorrowOutExcept

(* The low words of a difference, and the borrow they leave. *)
LEMMA SubLowIInv == IInv /\ SubLow => IInv'
<1> SUFFICES ASSUME IInv, SubLow PROVE IInv'
  OBVIOUS
<1>1. /\ RA[1] \in Word /\ RB[1] \in Word
      /\ RT' = [RT EXCEPT ![1] = si_sf(RA[1], RB[1])]
      /\ carry' = si_bg(RA[1], RB[1])
      /\ done' = 1 /\ op = "sub" /\ UNCHANGED <<op, RA, RB>>
  BY DEF IInv, TypeOK, SubLow, Step
<1>2. /\ si_sf(RA[1], RB[1]) \in Word
      /\ RB[1] - RA[1] =
           si_sf(RA[1], RB[1]) - Modulus * (1 - si_bg(RA[1], RB[1]))
      /\ si_bg(RA[1], RB[1]) \in {0, 1}
  BY <1>1, SubtractLowWords, BorrowGenerate
<1>3. TypeOK'
  BY <1>1, <1>2 DEF IInv, TypeOK
<1>4. RT'[1] = si_sf(RA[1], RB[1])
  BY <1>1 DEF IInv, TypeOK
<1>5. LowDifference'
  BY <1>1, <1>2, <1>4 DEF LowDifference
<1>6. SumsNotPictured'
  <2>1. carry' = IF RB[1] >= RA[1] THEN 1 ELSE 0
    BY <1>1, BorrowGenerate DEF Word
  <2> QED
    BY <1>1, <2>1 DEF SumsNotPictured
<1> QED
  BY <1>1, <1>3, <1>5, <1>6 DEF IInv, LowSum, SumIsRight, DifferenceIsRight,
                               CarryOutExcept, BorrowOutExcept

(* Two words of which the low one is short of c times Modulus and the high *)
(* one, that c counted in, of d times Modulus.                             *)
LEMMA TwoWords ==
  ASSUME NEW M \in Nat, NEW low \in Int, NEW high \in Int,
         NEW c \in Int, NEW d \in Int, NEW x \in Int, NEW y \in Int,
         x = low + M * c, y + c = high + M * d
  PROVE  low + M * high + (M * M) * d = x + M * y
<1>1. M * (y + c) = M * (high + M * d)
  OBVIOUS
<1>2. M * (y + c) = M * y + M * c
  OBVIOUS
<1>3. M * (high + M * d) = M * high + (M * M) * d
  OBVIOUS
<1>4. M * y \in Int /\ M * c \in Int /\ M * high \in Int /\ (M * M) * d \in Int
  OBVIOUS
<1> QED
  BY <1>1, <1>2, <1>3, <1>4

(* The high words of a sum: what is short is an overflow of both words.    *)
LEMMA AddHighIInv == IInv /\ AddHigh => IInv'
<1> SUFFICES ASSUME IInv, AddHigh PROVE IInv'
  OBVIOUS
<1> DEFINE t == si_addx(RA[2], RB[2], carry)
           g == si_cgx(RA[2], RB[2], carry)
<1>1. /\ RA[1] \in Word /\ RB[1] \in Word /\ RA[2] \in Word /\ RB[2] \in Word
      /\ RT[1] \in Word /\ carry \in {0, 1}
      /\ RT' = [RT EXCEPT ![2] = t] /\ carry' = g
      /\ done = 1 /\ done' = 2 /\ op = "add" /\ UNCHANGED <<op, RA, RB>>
  BY DEF IInv, TypeOK, AddHigh, Step
<1>2. /\ t \in Word /\ g \in {0, 1}
      /\ t = IF RA[2] + RB[2] + carry < Modulus
             THEN RA[2] + RB[2] + carry ELSE RA[2] + RB[2] + carry - Modulus
  BY <1>1, AddHighWords, CarryIsBit
<1>3. carry = 0 \/ RA[2] + RB[2] \notin {Modulus - 2, 2 * Modulus - 2} =>
        g = IF RA[2] + RB[2] + carry < Modulus THEN 0 ELSE 1
  BY <1>1, CarryGenerateExtended
<1>4. RA[1] + RB[1] = RT[1] + Modulus * carry
  BY <1>1 DEF IInv, LowSum
<1> HIDE DEF t, g
<1>5. TypeOK'
  BY <1>1, <1>2 DEF IInv, TypeOK
<1>6. RT'[1] = RT[1] /\ RT'[2] = t
  BY <1>1 DEF IInv, TypeOK
<1> DEFINE o == IF RA[2] + RB[2] + carry < Modulus THEN 0 ELSE 1
           sum == Value(RA) + Value(RB)
<1>7. Modulus \in Nat /\ Modulus > 1
  BY MsbAssumption DEF Modulus
<1>8. Value(RT)' + Range * o = sum
  <2>1. RA[2] + RB[2] + carry = t + Modulus * o
    BY <1>1, <1>2, <1>7 DEF Word
  <2>2. o \in Int
    OBVIOUS
  <2> DEFINE y == RA[2] + RB[2]
             z == RA[1] + RB[1]
  <2>3. y \in Int /\ z \in Int /\ t \in Int /\ RT[1] \in Int /\ carry \in Int
    BY <1>1, <1>2 DEF Word
  <2>4. z = RT[1] + Modulus * carry /\ y + carry = t + Modulus * o
    BY <1>4, <2>1
  <2>5. sum = z + Modulus * y
    BY <1>1, <1>7 DEF Value, Word
  <2> HIDE DEF o, y, z, sum
  <2>6. RT[1] + Modulus * t + (Modulus * Modulus) * o = z + Modulus * y
    BY <1>7, <2>2, <2>3, <2>4, TwoWords
  <2> QED
    BY <1>6, <2>5, <2>6 DEF Value, Range
<1>9. o \in {0, 1}
  OBVIOUS
<1>10. /\ Value(RT)' \in Int /\ Range \in Int /\ Value(RT)' >= 0
       /\ Value(RT)' < Range
  <2>1. /\ RT[1] \in Int /\ 0 <= RT[1] /\ RT[1] <= Modulus - 1
        /\ t \in Int /\ 0 <= t /\ t <= Modulus - 1
    BY <1>1, <1>2, <1>7 DEF Word
  <2>2. Modulus * t >= 0 /\ Modulus * t <= Modulus * (Modulus - 1)
    BY <1>7, <2>1
  <2>3. Modulus * (Modulus - 1) = Modulus * Modulus - Modulus
    BY <1>7
  <2>4. Modulus * t \in Int /\ Modulus * Modulus \in Int
    BY <1>7, <2>1
  <2> QED
    BY <1>6, <1>7, <2>1, <2>2, <2>3, <2>4 DEF Value, Range
<1>11. o = 1 <=> sum >= Range
  <2>1. sum \in Int
    BY <1>8, <1>9, <1>10
  <2> HIDE DEF o, sum
  <2>2. CASE o = 0
    BY <1>8, <1>10, <2>1, <2>2
  <2>3. CASE o = 1
    BY <1>8, <1>10, <2>1, <2>3
  <2> QED
    BY <1>9, <2>2, <2>3
<1>12. SumIsRight'
  BY <1>1, <1>8, <1>9 DEF SumIsRight, Value, Range
<1>13. carry = 1 <=> RA[1] + RB[1] >= Modulus
  BY <1>1, <1>4, <1>7 DEF Word
<1>14. CarryOutExcept'
  <2>1. CASE carry = 0 \/ RA[2] + RB[2] \notin {Modulus - 2, 2 * Modulus - 2}
    <3>1. g = o
      BY <1>3, <2>1
    <3>2. RA[1] + RB[1] < Modulus \/ carry = 1
      BY <1>1, <1>7, <1>13 DEF Word
    <3> QED
      BY <1>1, <1>11, <2>1, <3>1, <3>2 DEF CarryOutExcept, Value, Range
  <2>2. CASE carry = 1 /\ RA[2] + RB[2] \in {Modulus - 2, 2 * Modulus - 2}
    <3>1. g = IF RA[2] + RB[2] + 1 < Modulus THEN 1 ELSE 0
      BY <1>1, <2>2, CarryMisplaced DEF g
    <3>2. g = 1 - o
      BY <2>2, <3>1
    <3> HIDE DEF o, sum
    <3>3. g = 1 <=> ~(sum >= Range)
      BY <1>9, <1>11, <3>2
    <3>4. ~(RA[1] + RB[1] < Modulus)
      BY <1>1, <1>7, <1>13, <2>2 DEF Word
    <3> QED
      BY <1>1, <2>2, <3>3, <3>4 DEF CarryOutExcept, sum, Value, Range
  <2> QED
    BY <1>1, <2>1, <2>2
<1> QED
  BY <1>1, <1>5, <1>12, <1>14 DEF IInv, LowSum, LowDifference,
                                  DifferenceIsRight, SumsNotPictured,
                                  BorrowOutExcept

(* A difference and a sum of the same words differ by an odd number, and   *)
(* Modulus is even: whatever is borrowed and carried, they are different.  *)
LEMMA DifferenceNoSum ==
  ASSUME NEW A \in Word, NEW B \in Word, NEW T \in {0, 1}, NEW t,
         t = IF B - A + T - 1 < 0 THEN B - A + T - 1 + Modulus
                                  ELSE B - A + T - 1
  PROVE  t # (A + B + T) % Modulus
<1> DEFINE x == A + B + T
<1>1. Msb \in Nat /\ Msb > 1 /\ Modulus = 2 * Msb
  BY MsbAssumption DEF Modulus
<1>2. A \in 0 .. Modulus - 1 /\ B \in 0 .. Modulus - 1
  BY DEF Word
<1>3. x \in 0 .. 2 * Modulus - 1
  BY <1>1, <1>2
<1>4. x % Modulus = IF x < Modulus THEN x ELSE x - Modulus
  <2> HIDE DEF x
  <2> QED
    BY <1>3, WrapSum
<1> QED
  BY <1>1, <1>2, <1>4

(* The high words of a difference: what is borrowed is a whole range.      *)
LEMMA SubHighIInv == IInv /\ SubHigh => IInv'
<1> SUFFICES ASSUME IInv, SubHigh PROVE IInv'
  OBVIOUS
<1> DEFINE t == si_sfx(RA[2], RB[2], carry)
           g == si_bgx(RA[2], RB[2], carry)
<1>1. /\ RA[1] \in Word /\ RB[1] \in Word /\ RA[2] \in Word /\ RB[2] \in Word
      /\ RT[1] \in Word /\ carry \in {0, 1}
      /\ RT' = [RT EXCEPT ![2] = t] /\ carry' = g
      /\ done = 1 /\ done' = 2 /\ op = "sub" /\ UNCHANGED <<op, RA, RB>>
  BY DEF IInv, TypeOK, SubHigh, Step
<1>2. /\ t \in Word
      /\ t = IF RB[2] - RA[2] + carry - 1 < 0
             THEN RB[2] - RA[2] + carry - 1 + Modulus
             ELSE RB[2] - RA[2] + carry - 1
  BY <1>1, SubtractHighWords
<1>3. g \in {0, 1}
  BY DEF si_bgx
<1>4. RB[1] - RA[1] = RT[1] - Modulus * (1 - carry)
  BY <1>1 DEF IInv, LowDifference
<1> HIDE DEF t, g
<1>5. TypeOK'
  BY <1>1, <1>2, <1>3 DEF IInv, TypeOK
<1>6. RT'[1] = RT[1] /\ RT'[2] = t
  BY <1>1 DEF IInv, TypeOK
<1> DEFINE o == IF RB[2] - RA[2] + carry - 1 < 0 THEN 1 ELSE 0
           difference == Value(RB) - Value(RA)
<1>7. Modulus \in Nat /\ Modulus > 1
  BY MsbAssumption DEF Modulus
<1>8. Value(RT)' - Range * o = difference
  <2> DEFINE y == RB[2] - RA[2]
             z == RB[1] - RA[1]
             c == carry - 1
             d == -o
  <2>1. y \in Int /\ z \in Int /\ t \in Int /\ RT[1] \in Int /\ c \in Int /\ d \in Int
    BY <1>1, <1>2 DEF Word
  <2>2. z = RT[1] + Modulus * c
    BY <1>1, <1>4, <1>7 DEF Word
  <2>3. y + c = t + Modulus * d
    BY <1>1, <1>2, <1>7 DEF Word
  <2>4. difference = z + Modulus * y
    BY <1>1, <1>7 DEF Value, Word
  <2>5. (Modulus * Modulus) * d = -((Modulus * Modulus) * o)
    BY <1>7
  <2> HIDE DEF y, z, c, d, difference
  <2>6. RT[1] + Modulus * t + (Modulus * Modulus) * d = z + Modulus * y
    BY <1>7, <2>1, <2>2, <2>3, TwoWords
  <2>7. /\ RT[1] + Modulus * t \in Int /\ (Modulus * Modulus) * o \in Int
    BY <1>7, <2>1
  <2> QED
    BY <1>6, <2>4, <2>5, <2>6, <2>7 DEF Value, Range
<1>9. o \in {0, 1}
  OBVIOUS
<1>10. carry = 0 <=> RB[1] < RA[1]
  BY <1>1, <1>4, <1>7 DEF Word
<1>11. SumsNotPictured'
  <2>1. carry = IF RB[1] >= RA[1] THEN 1 ELSE 0
    BY <1>1, <1>10 DEF Word
  <2>2. t # (RA[2] + RB[2] + carry) % Modulus
    BY <1>1, <1>2, DifferenceNoSum
  <2> QED
    BY <1>1, <1>6, <2>1, <2>2 DEF SumsNotPictured
<1>12. DifferenceIsRight'
  BY <1>1, <1>8, <1>9, <1>11 DEF DifferenceIsRight, Value, Range
<1>13. g = 0 <=> carry = 0 /\ RB[2] # 0
  BY <1>1, BorrowGenerateExtended DEF g
<1>14. (Value(RB) < Value(RA)) <=>
         (RB[2] < RA[2] \/ (RB[2] = RA[2] /\ RB[1] < RA[1]))
  BY <1>1, HigherWordDecides DEF Value
<1>15. BorrowOutExcept'
  BY <1>1, <1>10, <1>13, <1>14 DEF BorrowOutExcept, Value, Word
<1> QED
  BY <1>1, <1>5, <1>12, <1>15 DEF IInv, LowSum, LowDifference, SumIsRight,
                                  CarryOutExcept

(* Nothing changes. *)
LEMMA StutterIInv == IInv /\ UNCHANGED vars => IInv'
BY DEF IInv, TypeOK, LowSum, LowDifference, SumIsRight, DifferenceIsRight,
       SumsNotPictured, CarryOutExcept, BorrowOutExcept, Value, vars

(* IInv is inductive: it holds between any two instructions of the chain.  *)
THEOREM Invariance == Spec => []IInv
<1>1. IInv /\ [Next]_vars => IInv'
  BY AddLowIInv, AddHighIInv, SubLowIInv, SubHighIInv, StutterIInv DEF Next
<1> QED
  BY InitIInv, <1>1, PTL DEF Spec

(* Results are words and carries are bits. *)
THEOREM TypeCorrect == Spec => []TypeOK
BY Invariance, PTL DEF IInv

(* a, cg and addx add numbers of two words, for lanes of any width.        *)
THEOREM SumCorrect == Spec => []SumIsRight
BY Invariance, PTL DEF IInv

(* sf, bg and sfx subtract numbers of two words, for lanes of any width,   *)
(* and never add them as the rows of sfx and bg picture.                   *)
THEOREM DifferenceCorrect == Spec => []DifferenceIsRight
BY Invariance, PTL DEF IInv

(* cgx hands on the carry but for the two sums, for lanes of any width.    *)
THEOREM CarryCorrectExcept == Spec => []CarryOutExcept
BY Invariance, PTL DEF IInv

(* bgx hands on the borrow exactly when the high word of RA does not       *)
(* matter to it, for lanes of any width.                                   *)
THEOREM BorrowCorrectExcept == Spec => []BorrowOutExcept
BY Invariance, PTL DEF IInv

-----------------------------------------------------------------------------

(***************************************************************************)
(* The multiplies and sfi of Intrinsics, for halves and lanes of any width *)
(* where two halves make a lane.                                           *)
(***************************************************************************)

(* A smaller factor makes a product smaller by one multiplicand. *)
LEMMA MulLess ==
  ASSUME NEW n \in Nat, NEW a \in Int, NEW b \in Int, a < b
  PROVE  n * a + n <= n * b
<1>1. n * (b - a - 1) >= 0
  OBVIOUS
<1> QED
  BY <1>1

(* Quotient and remainder, of negative numbers, too. *)
LEMMA Division ==
  ASSUME NEW n \in Nat \ {0}, NEW x \in Int
  PROVE  /\ x \div n \in Int /\ x % n \in 0 .. n - 1
         /\ x = n * (x \div n) + (x % n)
  OBVIOUS

(* There is only one way to divide. *)
LEMMA Unique ==
  ASSUME NEW n \in Nat \ {0}, NEW q \in Int, NEW r \in 0 .. n - 1
  PROVE  (n * q + r) \div n = q /\ (n * q + r) % n = r
<1> DEFINE x == n * q + r
           d == x \div n
           m == x % n
<1>1. x \in Int
  OBVIOUS
<1> HIDE DEF x
<1>2. d \in Int /\ m \in 0 .. n - 1 /\ x = n * d + m
  BY <1>1, Division
<1> HIDE DEF d, m
<1>3. n * d + m = n * q + r
  BY <1>2 DEF x
<1>4. ~(d < q)
  BY <1>2, <1>3, MulLess
<1>5. ~(q < d)
  BY <1>2, <1>3, MulLess
<1>6. d = q
  BY <1>2, <1>4, <1>5
<1>7. m = r
  BY <1>2, <1>3, <1>6
<1> QED
  BY <1>6, <1>7 DEF x, d, m

(* Numbers that differ by a multiple of n have the same remainder. *)
LEMMA SameResidue ==
  ASSUME NEW n \in Nat \ {0}, NEW a \in Int, NEW b \in Int, NEW k \in Int,
         a = b + n * k
  PROVE  a % n = b % n
<1> DEFINE q == b \div n
           r == b % n
<1>1. q \in Int /\ r \in 0 .. n - 1 /\ b = n * q + r
  BY Division
<1> HIDE DEF q, r
<1>2. a = n * (q + k) + r
  BY <1>1
<1>3. q + k \in Int
  BY <1>1
<1>4. (n * (q + k) + r) % n = r
  BY <1>1, <1>3, Unique
<1> QED
  BY <1>2, <1>4 DEF r

(* Half a lane has M values, a lane M * M. *)
M == HalfModulus

LEMMA HalfFacts ==
  /\ HalfMsb \in Nat /\ M \in Nat /\ M >= 2 /\ M = 2 * HalfMsb
  /\ Modulus \in Nat /\ Modulus >= 2 * M /\ Modulus = M * M
  /\ HalfModulus = M
<1>1. M = 2 * HalfMsb
  BY DEF M, HalfModulus
<1>2. HalfMsb \in Nat /\ Modulus = M * M
  BY HalfAssumption DEF M, HalfModulus
<1>3. Modulus \in Nat /\ Modulus > 2
  BY MsbAssumption DEF Modulus
<1>4. HalfMsb # 0
  BY <1>1, <1>2, <1>3
<1>5. M \in Nat /\ M >= 2
  BY <1>1, <1>2, <1>4
<1>6. M * M >= 2 * M
  BY <1>5
<1> QED
  BY <1>1, <1>2, <1>3, <1>5, <1>6 DEF M

(* Two digits below M make a number below Modulus, and are read off it. *)
LEMMA TwoDigits ==
  ASSUME NEW h \in 0 .. M - 1, NEW l \in 0 .. M - 1
  PROVE  /\ M * h + l \in 0 .. Modulus - 1
         /\ (M * h + l) \div M = h /\ (M * h + l) % M = l
<1>1. M \in Nat \ {0} /\ Modulus = M * M
  BY HalfFacts
<1>2. h \in Int /\ h < M /\ l \in Int /\ 0 <= l /\ l < M /\ 0 <= h
  BY <1>1
<1> HIDE DEF M
<1>3. M * h + M <= M * M
  BY <1>1, <1>2, MulLess
<1>4. M * h >= 0 /\ M * h \in Int
  BY <1>1, <1>2
<1>5. (M * h + l) \div M = h /\ (M * h + l) % M = l
  BY <1>1, <1>2, Unique
<1> QED
  BY <1>1, <1>2, <1>3, <1>4, <1>5

(* A word is two halves. *)
LEMMA Halves ==
  ASSUME NEW x \in Word
  PROVE  /\ Hi(x) \in 0 .. M - 1 /\ Lo(x) \in 0 .. M - 1
         /\ x = M * Hi(x) + Lo(x)
<1> DEFINE h == x \div M
           l == x % M
<1>1. M \in Nat \ {0} /\ Modulus = M * M /\ Modulus \in Nat
  BY HalfFacts
<1>2. x \in Int /\ 0 <= x /\ x < M * M
  BY <1>1 DEF Word
<1> HIDE DEF M
<1>3. h \in Int /\ l \in 0 .. M - 1 /\ x = M * h + l
  BY <1>1, <1>2, Division
<1> HIDE DEF h, l
<1>4. ~(h < 0)
  BY <1>1, <1>2, <1>3, MulLess
<1>5. ~(M < h)
  BY <1>1, <1>2, <1>3, MulLess
<1>6. h # M
  BY <1>1, <1>2, <1>3
<1>7. h \in 0 .. M - 1
  BY <1>1, <1>3, <1>4, <1>5, <1>6
<1> QED
  BY <1>3, <1>7 DEF h, l, Hi, Lo, M

(* Any number, cut into digits of which the upper is cut to its width. *)
LEMMA JoinWhole ==
  ASSUME NEW p \in Int
  PROVE  Join(p % M, (p \div M) % M) = p % Modulus
<1> DEFINE d == p \div M
           l == p % M
           e == d \div M
           s == d % M
<1>1. M \in Nat \ {0} /\ Modulus = M * M /\ Modulus \in Nat \ {0}
  BY HalfFacts
<1> HIDE DEF M
<1>2. d \in Int /\ l \in 0 .. M - 1 /\ p = M * d + l
  BY <1>1, Division
<1> HIDE DEF d, l
<1>3. e \in Int /\ s \in 0 .. M - 1 /\ d = M * e + s
  BY <1>1, <1>2, Division
<1> HIDE DEF e, s
<1>4. M * s + l \in 0 .. Modulus - 1
  BY <1>2, <1>3, TwoDigits
<1>5. p = Modulus * e + (M * s + l)
  <2>1. M * (M * e + s) = (M * M) * e + M * s
    BY <1>1, <1>3
  <2> QED
    BY <1>1, <1>2, <1>3, <2>1
<1>6. (Modulus * e + (M * s + l)) % Modulus = M * s + l
  BY <1>1, <1>3, <1>4, Unique
<1>7. Join(l, s) = M * s + l
  BY <1>1, <1>2, <1>3 DEF Join, M
<1> QED
  BY <1>5, <1>6, <1>7 DEF d, l, e, s

(* Reading half a lane as a signed number takes M from it, or nothing.     *)
LEMMA SignOfHalf ==
  ASSUME NEW x \in 0 .. M - 1
  PROVE  /\ AsSignedHalf(x) \in Int
         /\ -HalfMsb <= AsSignedHalf(x) /\ AsSignedHalf(x) < HalfMsb
         /\ x = AsSignedHalf(x) \/ x = AsSignedHalf(x) + M
BY HalfFacts DEF AsSignedHalf

(* mullo knows no sign, mulhi_epi16 does: together they are the product.   *)
LEMMA SignedProduct ==
  ASSUME NEW x \in 0 .. M - 1, NEW y \in 0 .. M - 1
  PROVE  Product(x, y) = (AsSignedHalf(x) * AsSignedHalf(y)) % Modulus
<1> DEFINE a == AsSignedHalf(x)
           b == AsSignedHalf(y)
<1>1. M \in Nat \ {0} /\ x \in Int /\ y \in Int
  BY HalfFacts
<1>2. a \in Int /\ b \in Int /\ (x = a \/ x = a + M) /\ (y = b \/ y = b + M)
  BY SignOfHalf
<1> HIDE DEF M, a, b
<1>3. PICK k \in {0, 1}, j \in {0, 1} : x = a + M * k /\ y = b + M * j
  BY <1>1, <1>2
<1> DEFINE c == a * j + k * b + M * (k * j)
<1>4. a * b \in Int /\ x * y \in Int /\ c \in Int
  BY <1>1, <1>2, <1>3
<1>5. x * y = a * b + M * c
  <2>1. CASE k = 0 /\ j = 0
    BY <1>1, <1>2, <1>3, <2>1
  <2>2. CASE k = 0 /\ j = 1
    BY <1>1, <1>2, <1>3, <2>2
  <2>3. CASE k = 1 /\ j = 0
    BY <1>1, <1>2, <1>3, <2>3
  <2>4. CASE k = 1 /\ j = 1
    BY <1>1, <1>2, <1>3, <2>4
  <2> QED
    BY <2>1, <2>2, <2>3, <2>4
<1> HIDE DEF c
<1>6. (x * y) % M = (a * b) % M
  BY <1>1, <1>4, <1>5, SameResidue
<1>7. Product(x, y) = Join((a * b) % M, ((a * b) \div M) % M)
  BY <1>6 DEF Product, mullo_epi16, mulhi_epi16, a, b, M
<1> QED
  BY <1>4, <1>7, JoinWhole DEF a, b

(* The unsigned product fits a lane, and its halves are what is joined.    *)
LEMMA UnsignedProduct ==
  ASSUME NEW x \in 0 .. M - 1, NEW y \in 0 .. M - 1
  PROVE  /\ ProductUnsigned(x, y) = x * y
         /\ x * y \in 0 .. Modulus - 1
<1>1. M \in Nat \ {0} /\ x \in Nat /\ y \in Nat /\ x < M /\ y < M
         /\ Modulus = M * M
  BY HalfFacts
<1> HIDE DEF M
<1>2. M * y + M <= M * M
  BY <1>1, MulLess
<1>3. y * x + y <= y * M
  BY <1>1, MulLess
<1>4. x * y \in Nat /\ x * y < M * M
  BY <1>1, <1>2, <1>3
<1>5. x * y = M * ((x * y) \div M) + ((x * y) % M)
  BY <1>1, <1>4, Division
<1>6. ProductUnsigned(x, y) = ((x * y) % M) + M * ((x * y) \div M)
  BY DEF ProductUnsigned, Join, mullo_epi16, mulhi_epu16, M
<1>7. (x * y) \div M \in Int /\ (x * y) % M \in Int
  BY <1>1, <1>4, Division
<1> QED
  BY <1>1, <1>4, <1>5, <1>6, <1>7

(* Adding to what is left of a number in a lane is adding to the number.   *)
LEMMA AddToRemainder ==
  ASSUME NEW p \in Int, NEW c \in Int
  PROVE  add_epi32(p % Modulus, c) = (p + c) % Modulus
<1>1. Modulus \in Nat \ {0}
  BY HalfFacts
<1> DEFINE q == p \div Modulus
           r == p % Modulus
<1> HIDE DEF Modulus
<1>2. q \in Int /\ r \in Int /\ p = Modulus * q + r
  BY <1>1, Division
<1> HIDE DEF q, r
<1>3. p + c \in Int /\ r + c \in Int /\ p + c = (r + c) + Modulus * q
  BY <1>1, <1>2
<1>4. (p + c) % Modulus = (r + c) % Modulus
  BY <1>1, <1>2, <1>3, SameResidue
<1> QED
  BY <1>1, <1>4 DEF r, add_epi32

(* A remainder is in its lane. *)
LEMMA InLane ==
  ASSUME NEW p \in Int
  PROVE  p % Modulus \in 0 .. Modulus - 1
<1>1. Modulus \in Nat \ {0}
  BY HalfFacts
<1> QED
  BY <1>1, Division

(* The operands the intrinsics read are what they need not change. *)
Operands ==
  ra \in Word /\ rb \in Word /\ rc \in Word /\ imm \in 0 .. M - 1

(* The halves of the operands, and the two signed products of them.        *)
LEMMA HalvesOfOperands ==
  ASSUME Operands
  PROVE  /\ Hi(ra) \in 0 .. M - 1 /\ Lo(ra) \in 0 .. M - 1
         /\ Hi(rb) \in 0 .. M - 1 /\ Lo(rb) \in 0 .. M - 1
         /\ rc \in Int /\ Lo(imm) = imm
         /\ SignedLo \in Int /\ SignedHi \in Int
<1>1. /\ Hi(ra) \in 0 .. M - 1 /\ Lo(ra) \in 0 .. M - 1
      /\ Hi(rb) \in 0 .. M - 1 /\ Lo(rb) \in 0 .. M - 1
  BY Halves DEF Operands
<1>2. rc \in Int
  BY HalfFacts DEF Operands, Word
<1>3. Lo(imm) = imm
  <2>1. 0 \in 0 .. M - 1 /\ M \in Nat /\ imm \in 0 .. M - 1
    BY HalfFacts DEF Operands
  <2>2. (M * 0 + imm) % M = imm
    BY <2>1, TwoDigits
  <2>3. M * 0 + imm = imm
    BY <2>1
  <2> QED
    BY <2>2, <2>3 DEF Lo, M
<1>4. /\ AsSignedHalf(Lo(ra)) \in Int /\ AsSignedHalf(Lo(rb)) \in Int
      /\ AsSignedHalf(Hi(ra)) \in Int /\ AsSignedHalf(Hi(rb)) \in Int
  BY <1>1, SignOfHalf
<1>5. SignedLo \in Int /\ SignedHi \in Int
  BY <1>4 DEF SignedLo, SignedHi
<1> QED
  BY <1>1, <1>2, <1>3, <1>5

(* What the multiplies that return whole signed products compute. *)
LEMMA SignedMultiplies ==
  ASSUME Operands
  PROVE  /\ si_mpy(ra, rb) = SignedLo % Modulus
         /\ si_mpyi(ra, imm)
              = (AsSignedHalf(Lo(ra)) * AsSignedHalf(imm)) % Modulus
         /\ si_mpya(ra, rb, rc) = (SignedLo + rc) % Modulus
         /\ si_mpyhh(ra, rb) = SignedHi % Modulus
         /\ si_mpyhha(ra, rb, rc) = (SignedHi + rc) % Modulus
<1>1. si_mpy(ra, rb) = SignedLo % Modulus
  BY HalvesOfOperands, SignedProduct DEF si_mpy, SignedLo
<1>2. si_mpyi(ra, imm)
        = (AsSignedHalf(Lo(ra)) * AsSignedHalf(imm)) % Modulus
  BY HalvesOfOperands, SignedProduct DEF si_mpyi, si_mpy, Operands
<1>3. si_mpya(ra, rb, rc) = (SignedLo + rc) % Modulus
  BY <1>1, HalvesOfOperands, AddToRemainder DEF si_mpya
<1>4. si_mpyhh(ra, rb) = SignedHi % Modulus
  BY HalvesOfOperands, SignedProduct DEF si_mpyhh, SignedHi
<1>5. si_mpyhha(ra, rb, rc) = (SignedHi + rc) % Modulus
  BY <1>4, HalvesOfOperands, AddToRemainder DEF si_mpyhha
<1> QED
  BY <1>1, <1>2, <1>3, <1>4, <1>5

(* The unsigned ones. *)
LEMMA UnsignedMultiplies ==
  ASSUME Operands
  PROVE  /\ si_mpyu(ra, rb) = Lo(ra) * Lo(rb)
         /\ si_mpyui(ra, imm) = Lo(ra) * imm
         /\ si_mpyhhu(ra, rb) = Hi(ra) * Hi(rb)
         /\ si_mpyhhau(ra, rb, rc) = (Hi(ra) * Hi(rb) + rc) % Modulus
         /\ Lo(ra) * Lo(rb) \in 0 .. Modulus - 1
         /\ Lo(ra) * imm \in 0 .. Modulus - 1
         /\ Hi(ra) * Hi(rb) \in 0 .. Modulus - 1
<1>1. /\ si_mpyu(ra, rb) = Lo(ra) * Lo(rb)
      /\ Lo(ra) * Lo(rb) \in 0 .. Modulus - 1
  BY HalvesOfOperands, UnsignedProduct DEF si_mpyu
<1>2. /\ si_mpyui(ra, imm) = Lo(ra) * imm
      /\ Lo(ra) * imm \in 0 .. Modulus - 1
  BY HalvesOfOperands, UnsignedProduct DEF si_mpyui, si_mpyu, Operands
<1>3. /\ si_mpyhhu(ra, rb) = Hi(ra) * Hi(rb)
      /\ Hi(ra) * Hi(rb) \in 0 .. Modulus - 1
  BY HalvesOfOperands, UnsignedProduct DEF si_mpyhhu
<1>4. si_mpyhhau(ra, rb, rc) = (Hi(ra) * Hi(rb) + rc) % Modulus
  BY <1>3, HalfFacts DEF si_mpyhhau, add_epi32
<1> QED
  BY <1>1, <1>2, <1>3, <1>4

(* Numbers closer than n with the same remainder are the same. *)
LEMMA CloseResidues ==
  ASSUME NEW n \in Nat \ {0}, NEW a \in Int, NEW b \in Int,
         a - b < n, b - a < n, a % n = b % n
  PROVE  a = b
<1> DEFINE q == a \div n
           d == b \div n
           r == a % n
<1>1. /\ q \in Int /\ r \in Int /\ a = n * q + r
      /\ d \in Int /\ b = n * d + r
  BY Division
<1> HIDE DEF q, d, r
<1>2. ~(q < d)
  BY <1>1, MulLess
<1>3. ~(d < q)
  BY <1>1, MulLess
<1>4. q = d
  BY <1>1, <1>2, <1>3
<1> QED
  BY <1>1, <1>4

(* The immediate of sfi in a lane: its lower half is the immediate, and    *)
(* its upper half, taken modulo M, is what the sign takes off.             *)
LEMMA SignExtension ==
  ASSUME NEW x \in 0 .. M - 1
  PROVE  /\ Lo(SignExtended(x)) = x
         /\ \E t \in Int, u \in {0, 1} :
              /\ AsSignedHalf(x) = x + M * t
              /\ Hi(SignExtended(x)) = t + M * u
<1>1. /\ M \in Nat \ {0} /\ M >= 2 /\ Modulus = M * M /\ Modulus \in Nat \ {0}
      /\ x \in Int /\ HalfMsb \in Nat
      /\ 0 \in 0 .. M - 1 /\ M - 1 \in 0 .. M - 1
  BY HalfFacts
<1>2. CASE x < HalfMsb
  <2>1. AsSignedHalf(x) = x
    BY <1>2 DEF AsSignedHalf
  <2>2. /\ M * 0 + x \in 0 .. Modulus - 1
        /\ (M * 0 + x) \div M = 0 /\ (M * 0 + x) % M = x
    BY <1>1, TwoDigits
  <2>3. (Modulus * 0 + (M * 0 + x)) % Modulus = M * 0 + x
    BY <1>1, <2>2, Unique
  <2>4. M * 0 + x = x /\ Modulus * 0 + (M * 0 + x) = x
    BY <1>1
  <2>5. SignExtended(x) = x
    BY <1>1, <2>1, <2>3, <2>4 DEF SignExtended
  <2>6. Lo(SignExtended(x)) = x /\ Hi(SignExtended(x)) = 0
    BY <2>2, <2>4, <2>5 DEF Lo, Hi, M
  <2>7. x = x + M * 0 /\ 0 = 0 + M * 0 /\ 0 \in Int /\ 0 \in {0, 1}
    BY <1>1
  <2> QED
    BY <2>1, <2>6, <2>7
<1>3. CASE ~(x < HalfMsb)
  <2>1. AsSignedHalf(x) = x - M
    BY <1>1, <1>3 DEF AsSignedHalf, M
  <2>2. /\ M * (M - 1) + x \in 0 .. Modulus - 1
        /\ (M * (M - 1) + x) \div M = M - 1 /\ (M * (M - 1) + x) % M = x
    BY <1>1, TwoDigits
  <2>3. (Modulus * (-1) + (M * (M - 1) + x)) % Modulus = M * (M - 1) + x
    <3> DEFINE k == -1
               r == M * (M - 1) + x
    <3>1. k \in Int /\ r \in 0 .. Modulus - 1
      BY <2>2
    <3> HIDE DEF k, r
    <3>2. (Modulus * k + r) % Modulus = r
      BY <1>1, <3>1, Unique
    <3> QED
      BY <3>2 DEF k, r
  <2>4. Modulus * (-1) + (M * (M - 1) + x) = x - M
    <3>1. M * (M - 1) = M * M - M
      BY <1>1
    <3> QED
      BY <1>1, <3>1
  <2>5. SignExtended(x) = M * (M - 1) + x
    BY <1>1, <2>1, <2>3, <2>4 DEF SignExtended
  <2>6. Lo(SignExtended(x)) = x /\ Hi(SignExtended(x)) = M - 1
    BY <2>2, <2>5 DEF Lo, Hi, M
  <2>7. x - M = x + M * (-1) /\ M - 1 = -1 + M * 1 /\ -1 \in Int /\ 1 \in {0, 1}
    BY <1>1
  <2> QED
    BY <2>1, <2>6, <2>7
<1> QED
  BY <1>2, <1>3

(* sfi subtracts right exactly when the lower halves do not borrow. *)
LEMMA SubtractsUnlessBorrow ==
  ASSUME Operands
  PROVE  (si_sfi(ra, imm) = (AsSignedHalf(imm) - ra) % Modulus)
           <=> imm >= Lo(ra)
<1> DEFINE l == Lo(ra)
           h == Hi(ra)
           H == Hi(SignExtended(imm))
           p == AsSignedHalf(imm) - ra
<1>1. /\ M \in Nat \ {0} /\ M >= 2
  BY HalfFacts
<1>2. l \in 0 .. M - 1 /\ h \in 0 .. M - 1 /\ ra = M * h + l
  BY Halves DEF Operands
<1>3. imm \in 0 .. M - 1
  BY DEF Operands
<1>4. PICK t \in Int, u \in {0, 1} :
        AsSignedHalf(imm) = imm + M * t /\ H = t + M * u
  BY <1>3, SignExtension
<1>5. Lo(SignExtended(imm)) = imm
  BY <1>3, SignExtension
<1>6. si_sfi(ra, imm) = Join((imm - l) % M, (H - h) % M)
  BY <1>5 DEF si_sfi, M
<1> HIDE DEF M, l, h, H
<1>7. /\ imm \in Int /\ l \in Int /\ h \in Int /\ u \in Int /\ H \in Int
      /\ t - h \in Int /\ t - h - 1 \in Int /\ imm - l \in Int
  BY <1>1, <1>2, <1>3, <1>4
<1>8. p = (imm - l) + M * (t - h) /\ p \in Int
  <2>1. M * (t - h) = M * t - M * h
    BY <1>1, <1>7
  <2>2. M * t \in Int /\ M * h \in Int
    BY <1>1, <1>7
  <2> QED
    BY <1>2, <1>4, <1>7, <2>1, <2>2
<1> HIDE DEF p
<1>9. p % M = (imm - l) % M
  <2> DEFINE k == t - h
             b == imm - l
  <2>1. p = b + M * k /\ k \in Int /\ b \in Int
    BY <1>7, <1>8
  <2> HIDE DEF k, b
  <2>2. p % M = b % M
    BY <1>1, <1>8, <2>1, SameResidue
  <2> QED
    BY <2>2 DEF b
<1>10. (H - h) % M = (t - h) % M
  <2>1. H - h = (t - h) + M * u /\ H - h \in Int
    BY <1>1, <1>4, <1>7
  <2> QED
    BY <1>1, <1>7, <2>1, SameResidue
<1>11. p % Modulus = Join((imm - l) % M, (p \div M) % M)
  BY <1>8, <1>9, JoinWhole
<1>12. CASE imm >= l
  <2>1. imm - l \in 0 .. M - 1 /\ p = M * (t - h) + (imm - l)
    BY <1>1, <1>2, <1>3, <1>7, <1>8, <1>12
  <2>2. p \div M = t - h
    BY <1>1, <1>7, <2>1, Unique
  <2> QED
    BY <1>6, <1>10, <1>11, <1>12, <2>2 DEF l, p
<1>13. CASE ~(imm >= l)
  <2>1. /\ imm - l + M \in 0 .. M - 1
        /\ p = M * (t - h - 1) + (imm - l + M)
    <3>1. M * (t - h - 1) = M * (t - h) - M /\ M * (t - h) \in Int
      BY <1>1, <1>7
    <3> QED
      BY <1>1, <1>2, <1>3, <1>7, <1>8, <1>13, <3>1
  <2>2. p \div M = t - h - 1
    BY <1>1, <1>7, <2>1, Unique
  <2>3. (t - h) % M # (t - h - 1) % M
    <3>1. (t - h) - (t - h - 1) < M /\ (t - h - 1) - (t - h) < M
            /\ t - h # t - h - 1
      BY <1>1, <1>7
    <3> QED
      BY <1>1, <1>7, <3>1, CloseResidues
  <2> DEFINE v == (imm - l) % M
             y == (t - h) % M
             z == (t - h - 1) % M
  <2>4. v \in Int /\ y \in Int /\ z \in Int
    BY <1>1, <1>7, Division
  <2>5. si_sfi(ra, imm) = v + M * y /\ p % Modulus = v + M * z
    BY <1>6, <1>10, <1>11, <2>2 DEF Join, M
  <2>6. y # z
    BY <2>3
  <2> HIDE DEF v, y, z
  <2>7. v + M * y # v + M * z
    <3>1. CASE y < z
      BY <1>1, <2>4, <3>1, MulLess
    <3>2. CASE z < y
      BY <1>1, <2>4, <3>2, MulLess
    <3> QED
      BY <2>4, <2>6, <3>1, <3>2
  <2> QED
    BY <1>13, <2>5, <2>7 DEF l, p
<1> QED
  BY <1>12, <1>13

(* Right or wrong, its result is two halves. *)
LEMMA SubtractsInLane ==
  ASSUME Operands
  PROVE  si_sfi(ra, imm) \in 0 .. Modulus - 1
<1> DEFINE x == Lo(SignExtended(imm)) - Lo(ra)
           y == Hi(SignExtended(imm)) - Hi(ra)
           l == x % M
           h == y % M
<1>1. M \in Nat \ {0}
  BY HalfFacts
<1>2. /\ Lo(SignExtended(imm)) \in Int /\ Lo(ra) \in Int
      /\ Hi(SignExtended(imm)) \in Int /\ Hi(ra) \in Int
  <2>1. imm \in 0 .. M - 1
    BY DEF Operands
  <2>2. PICK t \in Int, u \in {0, 1} : Hi(SignExtended(imm)) = t + M * u
    BY <2>1, SignExtension
  <2>3. t + M * u \in Int
    BY <1>1
  <2>4. Lo(SignExtended(imm)) \in Int
    BY <1>1, <2>1, SignExtension
  <2> QED
    BY <1>1, <2>2, <2>3, <2>4, HalvesOfOperands
<1>3. l \in 0 .. M - 1 /\ h \in 0 .. M - 1
  <2>1. x \in Int /\ y \in Int
    BY <1>2
  <2> HIDE DEF x, y
  <2> QED
    BY <1>1, <2>1, Division
<1>4. si_sfi(ra, imm) = l + M * h
  BY DEF si_sfi, Join, M
<1> HIDE DEF l, h
<1>5. l + M * h = M * h + l
  BY <1>1, <1>3
<1> QED
  BY <1>3, <1>4, <1>5, TwoDigits

(* mpyh leaves its product in the lower half. *)
LEMMA ProductNotShifted ==
  ASSUME Operands
  PROVE  /\ si_mpyh(ra, rb) \in 0 .. Modulus - 1
         /\ (si_mpyh(ra, rb) = (Hi(ra) * Lo(rb) * M) % Modulus)
              <=> (Hi(ra) * Lo(rb)) % M = 0
<1> DEFINE p == Hi(ra) * Lo(rb)
           d == p \div M
           r == p % M
<1>1. /\ M \in Nat \ {0} /\ M >= 2 /\ Modulus = M * M /\ Modulus \in Nat \ {0}
      /\ 0 \in 0 .. M - 1 /\ M <= Modulus
  BY HalfFacts
<1>2. p \in Int
  BY <1>1, HalvesOfOperands
<1>3. si_mpyh(ra, rb) = r
  BY DEF si_mpyh, mullo_epi16, M
<1> HIDE DEF M, p
<1>4. d \in Int /\ r \in 0 .. M - 1 /\ p = M * d + r
  BY <1>1, <1>2, Division
<1> HIDE DEF d, r
<1>5. M * r + 0 \in 0 .. Modulus - 1
  BY <1>1, <1>4, TwoDigits
<1>6. p * M = Modulus * d + (M * r + 0)
  <2>1. (M * d + r) * M = (M * M) * d + M * r
    BY <1>1, <1>4
  <2> QED
    BY <1>1, <1>4, <2>1
<1>7. (p * M) % Modulus = M * r + 0
  <2>1. (Modulus * d + (M * r + 0)) % Modulus = M * r + 0
    BY <1>1, <1>4, <1>5, Unique
  <2> QED
    BY <1>6, <2>1
<1>8. (r = M * r + 0) <=> r = 0
  <2>1. r \in Nat /\ 2 * r <= M * r
    BY <1>1, <1>4
  <2> QED
    BY <1>1, <1>4, <2>1
<1>9. r \in 0 .. Modulus - 1
  BY <1>1, <1>4
<1> QED
  BY <1>3, <1>7, <1>8, <1>9 DEF p, r

(* mpys returns the lower half of its product, with a sign. *)
LEMMA LowerHalfReturned ==
  ASSUME Operands
  PROVE  /\ si_mpys(ra, rb) \in 0 .. Modulus - 1
         /\ (si_mpys(ra, rb) = (SignedLo \div M) % Modulus)
              <=> SignedLo \div M = AsSignedHalf(SignedLo % M)
<1> DEFINE p == SignedLo
           a == AsSignedHalf(Lo(ra))
           b == AsSignedHalf(Lo(rb))
           d == p \div M
           r == p % M
           s == AsSignedHalf(r)
<1>1. /\ M \in Nat \ {0} /\ M >= 2 /\ Modulus = M * M /\ Modulus \in Nat \ {0}
      /\ M = 2 * HalfMsb /\ HalfMsb \in Nat
      /\ Modulus >= 2 * M
  BY HalfFacts
<1>2. /\ a \in Int /\ -HalfMsb <= a /\ a < HalfMsb
      /\ b \in Int /\ -HalfMsb <= b /\ b < HalfMsb
  BY HalvesOfOperands, SignOfHalf
<1>3. p = a * b /\ p \in Int
  BY HalvesOfOperands DEF SignedLo
<1>4. si_mpy(ra, rb) = p % Modulus
  BY SignedMultiplies
<1>5. si_mpys(ra, rb) = s % Modulus
  <2>1. d \in Int /\ r \in 0 .. M - 1
    BY <1>1, <1>3, Division
  <2>2. d % M \in 0 .. M - 1
    BY <1>1, <2>1, Division
  <2>3. (M * (d % M) + r) % M = r
    BY <2>1, <2>2, TwoDigits
  <2>4. p % Modulus = r + M * (d % M)
    BY <1>3, JoinWhole DEF Join, M
  <2>5. r + M * (d % M) = M * (d % M) + r
    BY <1>1, <2>1, <2>2
  <2>6. Lo(p % Modulus) = r
    BY <2>3, <2>4, <2>5 DEF Lo, M
  <2> QED
    BY <1>1, <1>4, <2>6 DEF si_mpys
<1> HIDE DEF M, p, a, b
<1>6. d \in Int /\ r \in 0 .. M - 1 /\ p = M * d + r
  BY <1>1, <1>3, Division
<1>7. s \in Int /\ -HalfMsb <= s /\ s < HalfMsb
  BY <1>6, SignOfHalf
<1> HIDE DEF d, r, s
<1>8. /\ -(HalfMsb * HalfMsb) <= a * b /\ a * b <= HalfMsb * HalfMsb
      /\ a * b \in Int /\ HalfMsb * HalfMsb \in Int
  <2>1. (HalfMsb - a) * (HalfMsb + b) >= 0 /\ (HalfMsb + a) * (HalfMsb - b) >= 0
    BY <1>1, <1>2
  <2>2. (HalfMsb - a) * (HalfMsb - b) >= 0 /\ (HalfMsb + a) * (HalfMsb + b) >= 0
    BY <1>1, <1>2
  <2>3. /\ (HalfMsb - a) * (HalfMsb + b)
             = HalfMsb * HalfMsb + HalfMsb * b - a * HalfMsb - a * b
        /\ (HalfMsb + a) * (HalfMsb - b)
             = HalfMsb * HalfMsb - HalfMsb * b + a * HalfMsb - a * b
        /\ (HalfMsb - a) * (HalfMsb - b)
             = HalfMsb * HalfMsb - HalfMsb * b - a * HalfMsb + a * b
        /\ (HalfMsb + a) * (HalfMsb + b)
             = HalfMsb * HalfMsb + HalfMsb * b + a * HalfMsb + a * b
    BY <1>1, <1>2
  <2>4. /\ HalfMsb * b \in Int /\ a * HalfMsb \in Int /\ a * b \in Int
        /\ HalfMsb * HalfMsb \in Int
    BY <1>1, <1>2
  <2> QED
    BY <2>1, <2>2, <2>3, <2>4
<1>9. M * HalfMsb = 2 * (HalfMsb * HalfMsb) /\ M * (-HalfMsb) = -(2 * (HalfMsb * HalfMsb))
        /\ HalfMsb * HalfMsb >= 0
  BY <1>1
<1>10. d <= HalfMsb
  <2> SUFFICES ASSUME HalfMsb < d PROVE FALSE
    BY <1>1, <1>6
  <2>1. M * HalfMsb + M <= M * d
    BY <1>1, <1>6, MulLess
  <2> QED
    BY <1>1, <1>3, <1>6, <1>8, <1>9, <2>1
<1>11. -HalfMsb - 1 <= d
  <2> SUFFICES ASSUME d < -HalfMsb - 1 PROVE FALSE
    BY <1>1, <1>6
  <2>1. M * d + M <= M * (-HalfMsb - 1)
    BY <1>1, <1>6, MulLess
  <2>2. M * (-HalfMsb - 1) = M * (-HalfMsb) - M
    BY <1>1
  <2> QED
    BY <1>1, <1>3, <1>6, <1>8, <1>9, <2>1, <2>2
<1>12. s - d < Modulus /\ d - s < Modulus
  BY <1>1, <1>6, <1>7, <1>10, <1>11
<1>13. (s % Modulus = d % Modulus) <=> d = s
  BY <1>1, <1>6, <1>7, <1>12, CloseResidues
<1>14. s % Modulus \in 0 .. Modulus - 1
  BY <1>7, InLane
<1> QED
  BY <1>5, <1>13, <1>14 DEF p, d, r, s

(* The inductive invariant of Intrinsics: the operands are never written,  *)
(* and the result is right for the intrinsic that ran.                     *)
IntrinsicsInv ==
  /\ Operands
  /\ LaneTypeOK
  /\ ProductsWhole /\ SfiUnlessBorrow /\ HalvesMisplaced

(* The names of the intrinsics are different: what ran last is known. *)
LEMMA RunKeepsInv == IntrinsicsInv /\ Run => IntrinsicsInv'
<1> SUFFICES ASSUME IntrinsicsInv, Run PROVE IntrinsicsInv'
  OBVIOUS
<1>1. UNCHANGED <<ra, rb, rc, imm>>
  BY DEF Run, Returns
<1>2. Operands /\ Operands'
  BY <1>1 DEF IntrinsicsInv, Operands
<1>3. Word = 0 .. Modulus - 1 /\ HalfModulus = M
  BY HalfFacts DEF Word
<1> DEFINE P == AsSignedHalf(Lo(ra)) * AsSignedHalf(imm)
           Q == Hi(ra) * Hi(rb) + rc
<1>4. /\ SignedLo \in Int /\ SignedHi \in Int /\ rc \in Int
      /\ SignedLo + rc \in Int /\ SignedHi + rc \in Int
      /\ P \in Int /\ Q \in Int
  <2>1. /\ Hi(ra) \in 0 .. M - 1 /\ Lo(ra) \in 0 .. M - 1
        /\ Hi(rb) \in 0 .. M - 1 /\ imm \in 0 .. M - 1 /\ M \in Nat
    BY <1>2, HalvesOfOperands, HalfFacts DEF Operands
  <2>2. AsSignedHalf(Lo(ra)) \in Int /\ AsSignedHalf(imm) \in Int
    BY <2>1, SignOfHalf
  <2> QED
    BY <1>2, <2>1, <2>2, HalvesOfOperands
<1>5. /\ SignedLo % Modulus \in Word /\ SignedHi % Modulus \in Word
      /\ (SignedLo + rc) % Modulus \in Word
      /\ (SignedHi + rc) % Modulus \in Word
      /\ P % Modulus \in Word /\ Q % Modulus \in Word
  BY <1>3, <1>4, InLane
<1>6. /\ si_mpy(ra, rb) = SignedLo % Modulus
      /\ si_mpyi(ra, imm) = P % Modulus
      /\ si_mpya(ra, rb, rc) = (SignedLo + rc) % Modulus
      /\ si_mpyhh(ra, rb) = SignedHi % Modulus
      /\ si_mpyhha(ra, rb, rc) = (SignedHi + rc) % Modulus
  BY <1>2, SignedMultiplies
<1>7. /\ si_mpyu(ra, rb) = Lo(ra) * Lo(rb)
      /\ si_mpyui(ra, imm) = Lo(ra) * imm
      /\ si_mpyhhu(ra, rb) = Hi(ra) * Hi(rb)
      /\ si_mpyhhau(ra, rb, rc) = Q % Modulus
      /\ Lo(ra) * Lo(rb) \in Word
      /\ Lo(ra) * imm \in Word
      /\ Hi(ra) * Hi(rb) \in Word
  BY <1>2, <1>3, UnsignedMultiplies
<1>8. /\ si_mpyh(ra, rb) \in Word
      /\ (si_mpyh(ra, rb) = (Hi(ra) * Lo(rb) * M) % Modulus)
           <=> (Hi(ra) * Lo(rb)) % M = 0
  BY <1>2, <1>3, ProductNotShifted
<1>9. /\ si_mpys(ra, rb) \in Word
      /\ (si_mpys(ra, rb) = (SignedLo \div M) % Modulus)
           <=> SignedLo \div M = AsSignedHalf(SignedLo % M)
  BY <1>2, <1>3, LowerHalfReturned
<1>10. (si_sfi(ra, imm) = (AsSignedHalf(imm) - ra) % Modulus)
           <=> imm >= Lo(ra)
  BY <1>2, SubtractsUnlessBorrow
<1>11. si_sfi(ra, imm) \in Word
  BY <1>2, <1>3, SubtractsInLane
<1>12. SignedLo' = SignedLo /\ SignedHi' = SignedHi
  BY <1>1 DEF SignedLo, SignedHi
<1>13. LaneTypeOK'
  BY <1>5, <1>6, <1>7, <1>8, <1>9, <1>11 DEF Run, Returns, LaneTypeOK
<1>14. SignedProducts'
  BY <1>1, <1>3, <1>6, <1>12 DEF Run, Returns, SignedProducts
<1>15. UnsignedProducts'
  BY <1>1, <1>3, <1>7 DEF Run, Returns, UnsignedProducts
<1>16. SfiUnlessBorrow'
  BY <1>1, <1>3, <1>10 DEF Run, Returns, SfiUnlessBorrow
<1>17. HalvesMisplaced'
  BY <1>1, <1>3, <1>8, <1>9, <1>12 DEF Run, Returns, HalvesMisplaced
<1> QED
  BY <1>2, <1>13, <1>14, <1>15, <1>16, <1>17 DEF IntrinsicsInv, ProductsWhole

(* Before an intrinsic has run there is nothing to be right. *)
LEMMA InitIntrinsicsInv == LaneInit => IntrinsicsInv
<1> SUFFICES ASSUME LaneInit PROVE IntrinsicsInv
  OBVIOUS
<1>1. /\ HalfWord = 0 .. M - 1
      /\ Modulus \in Nat /\ Modulus >= 2
  BY HalfFacts DEF Word, HalfWord
<1>2. Operands /\ LaneTypeOK
  BY <1>1 DEF LaneInit, Operands, LaneTypeOK, Word
<1> QED
  BY <1>2 DEF LaneInit, IntrinsicsInv, ProductsWhole, SignedProducts,
              UnsignedProducts, SfiUnlessBorrow, HalvesMisplaced

LEMMA StutterIntrinsicsInv ==
  IntrinsicsInv /\ UNCHANGED laneVars => IntrinsicsInv'
BY DEF IntrinsicsInv, laneVars, Operands, LaneTypeOK, ProductsWhole,
       SignedProducts, UnsignedProducts, SfiUnlessBorrow,
       HalvesMisplaced, SignedLo, SignedHi

(* IntrinsicsInv is inductive. *)
THEOREM IntrinsicsInvariance == LaneSpec => []IntrinsicsInv
<1>1. LaneInit => IntrinsicsInv
  BY InitIntrinsicsInv
<1>2. IntrinsicsInv /\ [LaneNext]_laneVars => IntrinsicsInv'
  BY RunKeepsInv, StutterIntrinsicsInv DEF LaneNext
<1> QED
  BY <1>1, <1>2, PTL DEF LaneSpec

(* The products put together from two halves are whole, whatever the sign, *)
(* and a sum with one is the sum with the whole product, for every width.  *)
THEOREM ProductsCorrect == LaneSpec => []ProductsWhole
BY IntrinsicsInvariance, PTL DEF IntrinsicsInv

(* sfi subtracts whole words only when the lower halves do not borrow. *)
THEOREM SfiCorrectUnlessBorrow == LaneSpec => []SfiUnlessBorrow
BY IntrinsicsInvariance, PTL DEF IntrinsicsInv

(* mpyh and mpys return a half in the wrong place, but for the operands    *)
(* where that makes no difference.                                         *)
THEOREM HalvesMisplacedExactly == LaneSpec => []HalvesMisplaced
BY IntrinsicsInvariance, PTL DEF IntrinsicsInv
=============================================================================
