---------------------------- MODULE LaneMachine -----------------------------
(***************************************************************************)
(* Programs of instructions on registers: every step calls the handler, or *)
(* the intrinsic, of the instruction at pc with the registers it names and *)
(* leaves the result in RT.  A program is straight-line code; the calls    *)
(* keep nothing but the registers.                                         *)
(***************************************************************************)
EXTENDS Shuffle, Sequences

CONSTANT Programs  \* records: code, and operands, the contents of registers 1 to 3

VARIABLES code, pc, gpr, scalar

vars == <<code, pc, gpr, scalar>>

Regs == 1 .. 7

Init ==
  /\ \E p \in Programs :
       /\ code = p.code
       /\ \E v \in p.operands : gpr = [r \in Regs |-> IF r \in DOMAIN v THEN v[r] ELSE {}]
  /\ pc = 1
  /\ scalar = {}

Insn == code[pc]
RA == gpr[Insn.a]
RB == gpr[Insn.b]
RC == gpr[Insn.c]
RT == gpr[Insn.t]
IMM == Insn.n

Running == pc <= Len(code)

(* One of several results when the operation is undefined. *)
CallAny(op, results) ==
  /\ Running
  /\ Insn.op = op
  /\ \E result \in results : gpr' = [gpr EXCEPT ![Insn.t] = result]
  /\ pc' = pc + 1
  /\ UNCHANGED <<code, scalar>>

Call(op, result) == CallAny(op, {result})

(* spu_internals_x86.h *)
ConstantFormation ==
  \/ Call("ilh", si_ilh(IMM))
  \/ Call("ilhu", si_ilhu(IMM))
  \/ Call("il", si_il(IMM))
  \/ Call("ila", si_ila(IMM))
  \/ Call("iohl", si_iohl(RA, IMM))
  \/ Call("fsmbi", si_fsmbi(IMM))

AddAndSubtract ==
  \/ Call("ah", si_ah(RA, RB))
  \/ Call("ahi", si_ahi(RA, IMM))
  \/ Call("ai", si_ai(RA, IMM))
  \/ Call("sfh", si_sfh(RA, RB))
  \/ Call("sfhi", si_sfhi(RA, IMM))

CompareEqual ==
  \/ Call("ceqb", si_ceqb(RA, RB))
  \/ Call("ceqh", si_ceqh(RA, RB))
  \/ Call("ceq", si_ceq(RA, RB))
  \/ Call("ceqbi", si_ceqbi(RA, IMM))
  \/ Call("ceqhi", si_ceqhi(RA, IMM))
  \/ Call("ceqi", si_ceqi(RA, IMM))

CompareGreater ==
  \/ Call("cgtb", si_cgtb(RA, RB))
  \/ Call("cgth", si_cgth(RA, RB))
  \/ Call("cgt", si_cgt(RA, RB))
  \/ Call("cgtbi", si_cgtbi(RA, IMM))
  \/ Call("cgthi", si_cgthi(RA, IMM))
  \/ Call("cgti", si_cgti(RA, IMM))
  \/ Call("clgtb", si_clgtb(RA, RB))
  \/ Call("clgth", si_clgth(RA, RB))
  \/ Call("clgt", si_clgt(RA, RB))
  \/ Call("clgtbi", si_clgtbi(RA, IMM))
  \/ Call("clgthi", si_clgthi(RA, IMM))
  \/ Call("clgti", si_clgti(RA, IMM))

SelectAndCount ==
  \/ Call("selb", si_selb(RA, RB, RC))
  \/ Call("cntb", si_cntb(RA))
  \/ Call("clz", si_clz(RA))

ToScalar ==
  /\ Running
  /\ Insn.op = "to_uint"
  /\ scalar' = si_to_uint(RA)
  /\ pc' = pc + 1
  /\ UNCHANGED <<code, gpr>>

-----------------------------------------------------------------------------

(* spu_emu_int_and.cpp, spu_emu_int_or.cpp, spu_emu_int_xor.cpp *)
And ==
  \/ Call("and", si_and(RA, RB))
  \/ Call("andc", si_andc(RA, RB))
  \/ Call("andbi", si_andbi(RA, IMM))
  \/ Call("andhi", si_andhi(RA, IMM))
  \/ Call("andi", si_andi(RA, IMM))
  \/ Call("nand", si_nand(RA, RB))
Or ==
  \/ Call("or", si_or(RA, RB))
  \/ Call("orc", si_orc(RA, RB))
  \/ Call("orbi", si_orbi(RA, IMM))
  \/ Call("orhi", si_orhi(RA, IMM))
  \/ Call("ori", si_ori(RA, IMM))
  \/ Call("orx", si_orx(RA))
  \/ Call("nor", si_nor(RA, RB))
Xor ==
  \/ Call("xor", si_xor(RA, RB))
  \/ Call("xorbi", si_xorbi(RA, IMM))
  \/ Call("xorhi", si_xorhi(RA, IMM))
  \/ Call("xori", si_xori(RA, IMM))

(* spu_emu_int_misc.cpp *)
IntMisc ==
  \/ Call("avgb", spu_avgb(RA, RB))
  \/ Call("absdb", spu_absdb(RA, RB))
  \/ Call("sumb", spu_sumb(RA, RB))
  \/ Call("xsbh", si_xsbh(RA))
  \/ Call("xshw", si_xshw(RA))
  \/ Call("xswd", si_xswd(RA))
  \/ Call("eqv", spu_eqv(RA, RB))
FormAndGather ==
  \/ Call("fsmb", spu_fsmb(RA))
  \/ Call("fsmh", spu_fsmh(RA))
  \/ Call("fsm", spu_fsm(RA))
  \/ Call("gbb", spu_gbb(RA))
  \/ Call("gbh", spu_gbh(RA))
  \/ Call("gb", spu_gb(RA))
ShuffleBytes == Call("shufb", spu_shufb(RA, RB, RC))

(* spu_emu_mem.cpp *)
InsertionControl ==
  \/ Call("cbd", spu_cbd(RA, IMM))
  \/ Call("cbx", spu_cbx(RA, RB))
  \/ Call("chd", spu_chd(RA, IMM))
  \/ Call("chx", spu_chx(RA, RB))
  \/ Call("cwd", spu_cwd(RA, IMM))
  \/ Call("cwx", spu_cwx(RA, RB))
  \/ Call("cdd", spu_cdd(RA, IMM))
  \/ Call("cdx", spu_cdx(RA, RB))

(* spu_emu_rot.cpp, spu_emu_rotmask.cpp, spu_emu_shift.cpp *)
Rotate ==
  \/ Call("roth", spu_roth(RA, RB))
  \/ Call("rothi", spu_rothi(RA, IMM))
  \/ Call("rot", spu_rot(RA, RB))
  \/ Call("roti", spu_roti(RA, IMM))
  \/ CallAny("rotqbii", spu_rotqbii(RA, IMM))
  \/ CallAny("rotqbi", spu_rotqbi(RA, RB))
RotateAndMask ==
  \/ Call("rothm", spu_rothm(RA, RB))
  \/ Call("rothmi", spu_rothmi(RA, IMM))
  \/ Call("rotmah", spu_rotmah(RA, RB))
  \/ Call("rotmahi", spu_rotmahi(RA, IMM))
  \/ Call("rotm", spu_rotm(RA, RB))
  \/ Call("rotmi", spu_rotmi(RA, IMM))
  \/ Call("rotma", spu_rotma(RA, RB))
  \/ Call("rotmai", spu_rotmai(RA, IMM))
  \/ Call("rotqmbi", spu_rotqmbi(RA, RB))
  \/ Call("rotqmbii", spu_rotqmbii(RA, IMM))
Shift ==
  \/ Call("shlh", spu_shlh(RA, RB))
  \/ Call("shlhi", spu_shlhi(RA, IMM))
  \/ Call("shl", spu_shl(RA, RB))
  \/ Call("shli", spu_shli(RA, IMM))
  \/ Call("shlqbi", spu_shlqbi(RA, RB))
  \/ Call("shlqbii", spu_shlqbii(RA, IMM))

Next ==
  \/ ConstantFormation \/ AddAndSubtract
  \/ CompareEqual \/ CompareGreater \/ SelectAndCount \/ ToScalar
  \/ And \/ Or \/ Xor \/ IntMisc \/ FormAndGather \/ ShuffleBytes
  \/ InsertionControl \/ Rotate \/ RotateAndMask \/ Shift

Spec == Init /\ [][Next]_vars

-----------------------------------------------------------------------------

(* What the table of instructions, spu-insns.h, says of the ones executed, *)
(* lane by lane and bit by bit.  Shift counts have the bits the operands   *)
(* of the table and the handlers' comments give them: five for halfwords,  *)
(* six for words, three for a quadword.                                    *)
LOCAL RotatedBits(x, w, s) == {(b + s) % w : b \in x}
LOCAL UpBits(x, w, s) == {b \in 0 .. w - 1 : b - s \in x}
LOCAL DownBits(x, w, s, sign) ==
  {b \in 0 .. w - 1 : IF b + s < w THEN b + s \in x ELSE sign /\ w - 1 \in x}

(* A count is the lane of a register or an immediate. *)
CountOf(n, bits) == n % 2 ^ bits

RotatedBy(a, w, count(_)) ==
  Lanes(w, LAMBDA i : RotatedBits(Lane(a, w, i), w, count(i)))
ShiftedUpBy(a, w, count(_)) ==
  Lanes(w, LAMBDA i : UpBits(Lane(a, w, i), w, count(i)))
ShiftedDownBy(a, w, sign, count(_)) ==
  Lanes(w, LAMBDA i : DownBits(Lane(a, w, i), w, count(i), sign))

(* Every lane holds f of the lane of a. *)
EachLane(a, w, f(_)) == Lanes(w, LAMBDA i : f(Lane(a, w, i)))

LeadingZeros(a) ==
  EachLane(a, 32, LAMBDA x : Bits(IF x = {} THEN 32 ELSE 31 - Max(x), 32))
OnesInBytes(a) == EachLane(a, 8, LAMBDA x : Bits(Cardinality(x), 8))
SumsOfBytes(a, b) ==
  LET SumOf(q, i) == MapThenSumSet(LAMBDA j : Number(Lane(q, 8, j)), 4 * i .. 4 * i + 3)
  IN Lanes(16, LAMBDA h : Bits(SumOf(IF h % 2 = 0 THEN a ELSE b, h \div 2), 16))
Averages(a, b) ==
  Lanes(8, LAMBDA i :
    Bits((Number(Lane(a, 8, i)) + Number(Lane(b, 8, i)) + 1) \div 2, 8))
Distances(a, b) ==
  LET Apart(m, n) == IF m > n THEN m - n ELSE n - m
  IN Lanes(8, LAMBDA i :
       Bits(Apart(Number(Lane(a, 8, i)), Number(Lane(b, 8, i))), 8))

(* The lower half of every lane of width w, with its sign. *)
Widened(a, w) ==
  EachLane(a, w, LAMBDA x :
    {b \in 0 .. w - 1 : (IF b < w \div 2 THEN b ELSE w \div 2 - 1) \in x})

(* Lanes of ones and zeros: where the lanes of a are above those of b; one *)
(* for every bit of a word; and the other way round.                       *)
AboveUnsigned(a, b, w) ==
  WhereLanes(w, LAMBDA i : Below(Lane(b, w, i), Lane(a, w, i)))
MaskOf(x, w) == WhereLanes(w, LAMBDA i : i \in x)
BitsOf(a, w) == {i \in 0 .. (128 \div w) - 1 : w * i \in a}

InSlot(x) == {96 + b : b \in x}
AllWords(a) == UNION {Lane(a, 32, i) : i \in 0 .. 3}

-----------------------------------------------------------------------------

(* Instruction op leaves what is pictured, but for the operands named. *)
Yields(op, pictured, departs) ==
  Insn.op = op => (gpr'[Insn.t] = pictured <=> ~departs)

Never == FALSE
HalfCount(i) == LowBits(Lane(RB, 16, i), 5)
WordCount(i) == LowBits(Lane(RB, 32, i), 6)
QuadCount == LowBits(PrefWord(RB), 3)

(* roti has four bits of its amount for words of 32; a rotation of the     *)
(* quadword by no bits is left to the build.                               *)
RotatesAsPictured ==
  /\ Yields("rot", RotatedBy(RA, 32, WordCount), Never)
  /\ Yields("roth", RotatedBy(RA, 16, HalfCount), Never)
  /\ Yields("rothi", RotatedBy(RA, 16, LAMBDA i : IMM), Never)
  /\ Yields("roti", RotatedBy(RA, 32, LAMBDA i : IMM),
            IMM % 32 >= 16 /\ RotatedBy(RA, 32, LAMBDA i : 16) # RA)
  /\ Insn.op = "rotqbii" /\ IMM % 8 # 0 =>
       Yields("rotqbii", RotatedBy(RA, 128, LAMBDA i : IMM % 8), Never)
  /\ Insn.op = "rotqbi" /\ QuadCount # 0 =>
       Yields("rotqbi", RotatedBy(RA, 128, LAMBDA i : QuadCount), Never)

(* What comes down from the upper doubleword, and what should. *)
ComesDownWrong(s) ==
  LET up == Dword(RA, 1)
      low == ShiftRight(Dword(RA, 0), s)
  IN low \cup SymDiff(up, ShiftRight(up, s)) # low \cup ShiftLeft(up, 64, 64 - s)

RotateAndMaskAsPictured ==
  LET HalfDown(i) == (0 - HalfCount(i)) % 32
      WordDown(i) == (0 - WordCount(i)) % 64
      QuadDown == (0 - QuadCount) % 8
      HalfImm(i) == (0 - IMM) % 32
      WordImm(i) == (0 - IMM) % 64
      QuadImm == (0 - IMM) % 8
  IN
  /\ Yields("rothm", ShiftedDownBy(RA, 16, FALSE, HalfDown), Never)
  /\ Yields("rothmi", ShiftedDownBy(RA, 16, FALSE, HalfImm), Never)
  /\ Yields("rotmah", ShiftedDownBy(RA, 16, TRUE, HalfDown),
            \E i \in 0 .. 7 : HalfDown(i) >= 16 /\ ~IsNegative(Lane(RA, 16, i), 16))
  /\ Yields("rotmahi", ShiftedDownBy(RA, 16, TRUE, HalfImm), Never)
  /\ Yields("rotm", ShiftedDownBy(RA, 32, FALSE, WordDown), Never)
  /\ Yields("rotmi", ShiftedDownBy(RA, 32, FALSE, WordImm), Never)
  /\ Yields("rotma", ShiftedDownBy(RA, 32, TRUE, WordDown), Never)
  /\ Yields("rotmai", ShiftedDownBy(RA, 32, TRUE, WordImm), Never)
  /\ Yields("rotqmbi", ShiftedDownBy(RA, 128, FALSE, LAMBDA i : QuadDown),
            ComesDownWrong(QuadDown))
  /\ Yields("rotqmbii", ShiftedDownBy(RA, 128, FALSE, LAMBDA i : QuadImm),
            ComesDownWrong(QuadImm))

(* A word shifted by 32 and more is shifted by the rest modulo 32; what    *)
(* comes up into the upper doubleword is its own upper bits.               *)
StaysShort(count(_)) ==
  \E i \in 0 .. 3 :
    count(i) >= 32 /\ ShiftLeft(Lane(RA, 32, i), 32, count(i) % 32) # {}
ComesUpWrong(s) ==
  \E b \in 64 - s .. 63 : (b \in Dword(RA, 0)) # (b \in Dword(RA, 1))

ShiftsAsPictured ==
  LET WordImm(i) == IMM % 64
  IN
  /\ Yields("shlh", ShiftedUpBy(RA, 16, HalfCount), Never)
  /\ Yields("shlhi", ShiftedUpBy(RA, 16, LAMBDA i : IMM % 32), Never)
  /\ Yields("shl", ShiftedUpBy(RA, 32, WordCount), StaysShort(WordCount))
  /\ Yields("shli", ShiftedUpBy(RA, 32, WordImm), StaysShort(WordImm))
  /\ Yields("shlqbi", ShiftedUpBy(RA, 128, LAMBDA i : QuadCount),
            ComesUpWrong(QuadCount))
  /\ Yields("shlqbii", ShiftedUpBy(RA, 128, LAMBDA i : IMM % 8),
            ComesUpWrong(IMM % 8))

(* absdb compares bytes as signed numbers, xswd takes a doubleword's upper *)
(* half for its lower, eqv compares whole words, and orx leaves its result *)
(* in word 0.                                                              *)
MiscAsPictured ==
  LET SignsDiffer(i) ==
        IsNegative(Lane(RA, 8, i), 8) # IsNegative(Lane(RB, 8, i), 8)
  IN
  /\ Yields("avgb", Averages(RA, RB), Never)
  /\ Yields("absdb", Distances(RA, RB),
            \E i \in 0 .. 15 : SignsDiffer(i) /\ Lane(Distances(RA, RB), 8, i) # {7})
  /\ Yields("sumb", SumsOfBytes(RA, RB), Never)
  /\ Yields("xsbh", Widened(RA, 16), Never)
  /\ Yields("xshw", Widened(RA, 32), Never)
  /\ Yields("xswd", Widened(RA, 64), RA # {})
  /\ Yields("eqv", Ones \ SymDiff(RA, RB), SymDiff(RA, RB) # Ones)
  /\ Yields("orx", InSlot(AllWords(RA)), AllWords(RA) # {})
  /\ Yields("fsmb", MaskOf(PrefWord(RA), 8), Never)
  /\ Yields("fsmh", MaskOf(PrefWord(RA), 16), Never)
  /\ Yields("fsm", MaskOf(PrefWord(RA), 32), Never)
  /\ Yields("gbb", InSlot(BitsOf(RA, 8)), Never)
  /\ Yields("gbh", InSlot(BitsOf(RA, 16)), Never)
  /\ Yields("gb", InSlot(BitsOf(RA, 32)), Never)

(* nor is pictured as nand is; the other logic is bit by bit what it says. *)
LogicAsPictured ==
  /\ Yields("and", RA \cap RB, Never)
  /\ Yields("nand", Ones \ (RA \cap RB), Never)
  /\ Yields("or", RA \cup RB, Never)
  /\ Yields("nor", Ones \ (RA \cap RB), RA # RB)
  /\ Yields("xor", SymDiff(RA, RB), Never)
  /\ Yields("andc", RA \ RB, Never)
  /\ Yields("orc", RA \cup (Ones \ RB), Never)

(* iohl is pictured as a sum; fsmbi leaves single bits where the masks are *)
(* to be whole bytes; selb is pictured the other way round; clz swaps the  *)
(* counts of words 1 and 2; scalars are taken from word 2.                 *)
InternalsAsPictured ==
  /\ Yields("iohl", add(RA, set1(32, IMM), 32), RA \cap set1(32, IMM) # {})
  /\ Yields("fsmbi", MaskOf(Bits(IMM, 16), 8), Bits(IMM, 16) # {})
  /\ Yields("selb", (RA \cap RC) \cup (RB \ RC), RA # RB)
  /\ Yields("cntb", OnesInBytes(RA), Never)
  /\ Yields("clz", LeadingZeros(RA),
            Lane(LeadingZeros(RA), 32, 1) # Lane(LeadingZeros(RA), 32, 2))
  /\ Yields("clgtb", AboveUnsigned(RA, RB, 8), Never)
  /\ Yields("clgth", AboveUnsigned(RA, RB, 16), Never)
  /\ Yields("clgt", AboveUnsigned(RA, RB, 32), Never)
  /\ Insn.op = "to_uint" =>
       (scalar' = PrefWord(RA) <=> Lane(RA, 32, 2) = PrefWord(RA))

(* Every instruction leaves in RT what the table of instructions pictures, *)
(* for all operands but the ones named here, and for those it does not     *)
(* (spu_emu_rot.cpp, spu_emu_rotmask.cpp, spu_emu_shift.cpp,               *)
(* spu_emu_int_misc.cpp, spu_emu_int_and.cpp, spu_emu_int_or.cpp,          *)
(* spu_emu_int_xor.cpp, spu_internals_x86.h).                              *)
AsPictured ==
  [][/\ RotatesAsPictured /\ RotateAndMaskAsPictured /\ ShiftsAsPictured
     /\ MiscAsPictured /\ LogicAsPictured /\ InternalsAsPictured]_vars

(* A program that computes one thing twice, by the register form and by    *)
(* the immediate form, or by an instruction and by others that should come *)
(* to the same, leaves the same in registers 6 and 7.  What nor should     *)
(* come to is the complement of or (spu_emu_int_or.cpp:40), not what       *)
(* spu-insns.h:294 pictures, which AsPictured speaks of.                   *)
FormsAgree == ~Running /\ code[Len(code)].t = 7 => gpr[6] = gpr[7]

(* The element of a register's preferred slot put into a quadword, which   *)
(* has its first byte in byte 15, at an offset of size-aligned bytes.      *)
WithElement(element, quadword, offset, size) ==
  LET first == 16 - size - offset
      slot == IF size = 8 THEN 8 ELSE 12
  IN Lanes(8, LAMBDA j :
       IF j \in first .. first + size - 1 THEN Lane(element, 8, slot + j - first)
       ELSE Lane(quadword, 8, j))

ByteReversed(q) == Lanes(8, LAMBDA j : Lane(q, 8, 15 - j))

Sizes == [op \in {"cbd", "cbx", "chd", "chx", "cwd", "cwx", "cdd", "cdx"} |->
            CASE op \in {"cbd", "cbx"} -> 1 [] op \in {"chd", "chx"} -> 2
              [] op \in {"cwd", "cwx"} -> 4 [] OTHER -> 8]

(* cbd .. cdx number bytes from the first of a quadword, which is byte 15  *)
(* of a register, and shufb from byte 0: the two together put the element  *)
(* where it belongs, but of reversed registers; and where one of the last  *)
(* four bytes is to be kept, its control 0x1C .. 0x1F is taken for the     *)
(* code of a constant (spu_emu_mem.cpp:100-205, spu_emu_int_misc.cpp:166). *)
InsertThenShuffle ==
  ~Running /\ Len(code) = 2 /\ code[1].op \in DOMAIN Sizes =>
    LET size == Sizes[code[1].op]
        address == Offset(gpr[code[1].a])
          + (IF code[1].op \in {"cbd", "chd", "cwd", "cdd"}
             THEN code[1].n ELSE Offset(gpr[code[1].b]))
        offset == (address % 16) - (address % size)
        meant == WithElement(ByteReversed(gpr[1]), ByteReversed(gpr[2]), offset, size)
        Kept(j) == j < 16 - size - offset \/ j >= 16 - offset
    IN gpr[6] = Lanes(8, LAMBDA j :
                  CASE j \in {0, 1} /\ Kept(j) -> {7}
                    [] j \in {2, 3} /\ Kept(j) -> 0 .. 7
                    [] OTHER -> Lane(meant, 8, j))
=============================================================================
