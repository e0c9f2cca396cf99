----------------------------- MODULE StaticFlow ----------------------------
(***************************************************************************)
(* What spu_emu_parser.cpp reads off single instructions of a program:     *)
(* which end a basic block, which return, jump or stop, where calls and    *)
(* branches lead, and which addresses loads and stores of fixed addresses  *)
(* access.  Positions count words from the start of the program and are    *)
(* uint32_t: a branch in front of the start wraps around.                  *)
(***************************************************************************)
EXTENDS Decoder

CONSTANT UInt   \* how many values a uint32_t has, 2^32 in the code

ASSUME UIntAssumption == UInt \in Nat \ {0}

(* The empty string is no mnemonic. *)
ASSUME NoMnemonicAssumption == NoMnemonic \notin Format \X Opcode

(* The instructions the classifiers know by their opcodes are the ones the *)
(* table has there.                                                        *)
ASSUME TableAssumption ==
  /\ \A o \in {\h100, \h108, \h110, \h118, \h190} : Mnemonics[o] = <<"RI16", o>>
  /\ \A o \in {\h1a8, \h128, \h129, \h12a, \h12b} : Mnemonics[o] = <<"RR", o>>
  /\ Decoded[0] = 0 /\ Mnemonics[0] = <<"RR", 0>>

Relative(opcodes) == {<<"RI16", o>> : o \in opcodes}
Indirect(opcodes) == {<<"RR", o>> : o \in opcodes}

br == <<"RI16", \h190>>
brsl == <<"RI16", \h198>>
lqa == <<"RI16", \h184>>
lqr == <<"RI16", \h19c>>
stqa == <<"RI16", \h104>>
stqr == <<"RI16", \h11c>>
brz == <<"RI16", \h100>>
brnz == <<"RI16", \h108>>
brhz == <<"RI16", \h110>>
brhnz == <<"RI16", \h118>>
lqd == <<"RI10", \h1a0>>
stqd == <<"RI10", \h120>>
lqx == <<"RR", \h1c4>>
stqx == <<"RR", \h144>>

BR_I16 == Relative({\h190, \h180, \h100, \h108, \h110, \h118})
BR_RR == Indirect({\h1a8, \h1aa, \h128, \h129, \h12a, \h12b})
STOP == Indirect({\h000})

(* Mutant: the conditional indirect branches are missing. *)
EndsBlockUnconditional(w) ==
  MnemonicOf(w) \in BR_I16 \cup STOP \cup Indirect({\h1a8, \h1aa})

(* IsBrach: does the instruction end a basic block?  Calls do not. *)
EndsBlock(w) == MnemonicOf(w) \in BR_I16 \cup BR_RR \cup STOP

IsSTOP(w) == w.op \in {0, 320}

ReturnsThroughLR(w, opcodes) ==
  OpcodeOf(w) \in opcodes /\ ComponentsOf(w).RA = 0

IsUnconditionalReturn(w) == ReturnsThroughLR(w, {\h1a8})

IsConditionalReturn(w) == ReturnsThroughLR(w, {\h128, \h129, \h12a, \h12b})

GetJumpAmount(w) ==
  IF OpcodeOf(w) \in {\h100, \h108, \h110, \h118, \h190}
  THEN ComponentsOf(w).IMM ELSE 0

-----------------------------------------------------------------------------

(* A position a relative branch leads to. *)
Target(from, imm) == (from + imm) % UInt

(* The block a conditional branch jumps over, or the loop it closes. *)
Branch(from, w) ==
  LET imm == ComponentsOf(w).IMM
  IN [AdvanceAmount |-> imm,
      BranchBlockBegin |-> IF imm > 0 THEN from ELSE Target(from, imm),
      BranchBlockEnd |-> IF imm > 0 THEN Target(from, imm)
                                    ELSE Target(from, 1)]

Overlaps(lhs, rhs) ==
  /\ lhs.BranchBlockBegin <= rhs.BranchBlockBegin
  /\ rhs.BranchBlockBegin < lhs.BranchBlockEnd

(* The members of a set of positions, the smallest first. *)
Ascending(S) ==
  [k \in 1 .. Cardinality(S) |->
    CHOOSE x \in S : Cardinality({y \in S : y < x}) = k - 1]

(* Mutant: the end of a function is not moved to the next one's begin. *)
RangesUnended(begins, size) ==
  [k \in DOMAIN begins |-> [begin |-> begins[k], end |-> size]]

(* A function ends where the next one begins, the last where the program   *)
(* ends.                                                                   *)
Ranges(begins, size) ==
  [k \in DOMAIN begins |->
    [begin |-> begins[k],
     end |-> IF k < Len(begins) THEN begins[k + 1] ELSE size]]

(* & LSLR, 0x3ffff & -16 *)
Line(address) == 16 * ((address \div 16) % 16384)

AbsAddress(w) == Line(4 * ComponentsOf(w).IMM)

RelAddress(base, from, w) == Line(base + 4 * from + 4 * ComponentsOf(w).IMM)
=============================================================================
