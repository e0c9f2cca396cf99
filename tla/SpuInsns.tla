------------------------------ MODULE SpuInsns ------------------------------
(***************************************************************************)
(* The instruction table spu-insns.h, as the APUOP macro of spu_idb.cpp    *)
(* reads it.  A row gives an opcode its format, its mnemonic and one       *)
(* argument list; a row that repeats an opcode gives it another list.      *)
(*                                                                         *)
(* A mnemonic is abstracted to the pair <<format, opcode>> of its rows: in *)
(* the table two rows have the same mnemonic exactly when they have the    *)
(* same pair.  Rows of one format and one argument list are grouped; the   *)
(* groups keep the order of the rows of each opcode.                       *)
(***************************************************************************)
EXTENDS Naturals, Sequences, SequencesExt

(* The argument kinds of spu_idb.h.  Several names are one number, and the *)
(* assembler and the disassembler cannot tell those apart.                 *)
A_T == 0
A_A == 1
A_H == A_A
A_S == A_A
A_B == 2
A_C == 3
A_P == 5
A_U3 == 7
A_U5 == 7
A_U6 == 7
A_U7 == 7
A_U7A == 7
A_U7B == 7
A_S3 == 7
A_S6 == 7
A_S7 == 7
A_S7N == 7
A_S10 == 10
A_S10B == 10
A_S14 == 14
A_S16 == 16
A_X16 == 16
A_U18 == 18
A_S11 == 19
A_S11I == 19
A_U14 == 20
A_R18 == 21
A_S18 == 21

(* SPU_MAX_INSTRUCTION_COUNT opcodes of 11 bits. *)
Opcode == 0 .. 2047

Format == {"RRR", "RR", "RI7", "RI8", "RI10", "RI16", "RI18", "LBT", "LBTI"}

Group(format, args, ops) == [format |-> format, args |-> args, ops |-> ops]

(* From br to ceqbi. *)
RowsBranchToImmediate == <<
  Group("RI16", <<A_R18>>, {\h190}),
  Group("RI16", <<A_T, A_R18>>, {\h100, \h108, \h110, \h118, \h11c, \h198,
     \h19c}),
  Group("RI16", <<A_S18>>, {\h180}),
  Group("RI16", <<A_T, A_S18>>, {\h104, \h184, \h188}),
  Group("RI16", <<A_T, A_X16>>, {\h194, \h208, \h20c, \h304}),
  Group("RR", <<>>, {\h000, \h001, \h002, \h003}),
  Group("RR", <<A_U14>>, {\h000}),
  Group("RR", <<A_T, A_A, A_B>>, {\h140, \h144, \h1c4, \h1cc, \h1cd, \h1cf,
     \h1d4, \h1d5, \h1d6, \h1d7, \h1d8, \h1d9, \h1db, \h1dc, \h1dd, \h1df}),
  Group("RR", <<A_T, A_S>>, {\h00c}),
  Group("RR", <<A_T, A_H>>, {\h00d, \h00f}),
  Group("LBT", <<A_S11, A_S18>>, {\h080}),
  Group("LBT", <<A_S11, A_R18>>, {\h090}),
  Group("RR", <<A_S, A_T>>, {\h10c}),
  Group("RR", <<A_H, A_T>>, {\h10d}),
  Group("RI10", <<A_T, A_S14, A_P, A_A>>, {\h120, \h1a0}),
  Group("RR", <<A_A>>, {\h1a8, \h1aa}),
  Group("RR", <<A_T, A_A>>, {\h128, \h129, \h12a, \h12b, \h1a9, \h1ab, \h1b0,
     \h1b1, \h1b2, \h1b4, \h1b5, \h1b6, \h1b8, \h1b9, \h1f0}),
  Group("RR", <<>>, {\h1aa}),
  Group("LBTI", <<A_S11I, A_A>>, {\h1ac}),
  Group("RI7", <<A_T, A_U7, A_P, A_A>>, {\h1f4, \h1f5, \h1f6, \h1f7}),
  Group("RI7", <<A_T, A_A, A_U3>>, {\h1f8, \h1fb}),
  Group("RI7", <<A_T, A_A, A_S7N>>, {\h1fc}),
  Group("RI7", <<A_T, A_A, A_S3>>, {\h1f9}),
  Group("RI7", <<A_T, A_A, A_S6>>, {\h1fd}),
  Group("RI7", <<A_T, A_A, A_U5>>, {\h1ff}),
  Group("RRR", <<A_C, A_A, A_B, A_T>>, {\h580}),
  Group("RI16", <<A_T, A_S16>>, {\h204}),
  Group("RI18", <<A_T, A_U18>>, {\h210}),
  Group("RR", <<A_T>>, {\h201}),
  Group("RR", <<>>, {\h201}),
  Group("RI10", <<A_T, A_A, A_S10B>>, {\h030, \h0b0, \h230, \h270, \h2f0,
     \h3f0}),
  Group("RI10", <<A_T, A_A, A_S10>>, {\h020, \h028, \h060, \h068, \h0a0,
     \h0a8, \h0e0, \h0e8, \h220, \h228, \h260, \h268, \h2e0, \h2e8}) >>

(* From ceqhi to selb, and the syscall row. *)
RowsImmediateToMultiply == <<
  Group("RI10", <<A_T, A_A, A_S10>>, {\h278, \h2f8, \h3a0, \h3a8, \h3e0,
     \h3e8, \h3f8}),
  Group("RI10", <<A_A, A_S10>>, {\h278, \h2f8, \h3f8}),
  Group("RI8", <<A_T, A_A, A_U7A>>, {\h3b0, \h3b2}),
  Group("RI8", <<A_T, A_A, A_U7B>>, {\h3b4, \h3b6}),
  Group("RR", <<A_T, A_A>>, {\h2a5, \h2a6, \h2ae, \h2b4, \h2b6, \h3b8, \h3b9,
     \h3ba}),
  Group("RR", <<A_T>>, {\h398}),
  Group("RR", <<A_A>>, {\h3ba}),
  Group("RI7", <<A_T, A_A, A_S7N>>, {\h078, \h07c, \h10c}),
  Group("RI7", <<A_T, A_A, A_S7>>, {\h079, \h07a}),
  Group("RI7", <<A_T, A_A, A_U6>>, {\h07b}),
  Group("RI7", <<A_T, A_A, A_S6>>, {\h07d, \h07e}),
  Group("RI7", <<A_T, A_A, A_U5>>, {\h07f}),
  Group("RR", <<A_T, A_A, A_B>>, {\h040, \h041, \h048, \h049, \h053, \h058,
     \h059, \h05a, \h05b, \h05c, \h05d, \h05e, \h05f, \h0c0, \h0c1, \h0c8,
     \h0c9, \h0d3, \h240, \h241, \h248, \h249, \h250, \h253, \h258, \h2c0,
     \h2c1, \h2c2, \h2c4, \h2c5, \h2c6, \h2c8, \h2c9, \h2ca, \h2cc, \h2cd,
     \h2ce, \h2d0, \h2d8, \h346, \h34e, \h35c, \h35d, \h35e, \h35f, \h3c0,
     \h3c2, \h3c4, \h3c5, \h3c6, \h3c7, \h3c8, \h3ca, \h3cc, \h3ce, \h3d0,
     \h3d4, \h3d8}),
  Group("RR", <<A_A, A_B>>, {\h258, \h2d8, \h3d8}),
  Group("RRR", <<A_C, A_A, A_B, A_T>>, {\h400, \h600, \h680, \h700, \h780}) >>

(* The multiprecision and the double precision comparison rows. *)
RowsExtended == <<
  Group("RR", <<A_T, A_A, A_B>>, {\h042, \h0c2, \h2c3, \h2cb, \h340, \h341,
     \h342, \h343, \h3c3, \h3cb}),
  Group("RI7", <<A_T, A_A, A_U7>>, {\h3bf}) >>

(* #include "spu-insns.h" *)
Insns == RowsBranchToImmediate \o RowsImmediateToMultiply \o RowsExtended

(* The rows of one opcode, in the order of the table. *)
RowsOf == [o \in Opcode |-> SelectSeq(Insns, LAMBDA g : o \in g.ops)]

(* The opcodes whose mnemonic is linked to a handler by _solvers.  Opcode  *)
(* 10c has two mnemonics, mtspr and syscall; _solvers lists mtspr.         *)
SolverOps ==
  {\h000, \h001, \h002, \h003, \h00c, \h00d, \h00f, \h053, \h058, \h059,
   \h05a, \h05b, \h05c, \h05d, \h05e, \h05f, \h078, \h079, \h07a, \h07b,
   \h07c, \h07d, \h07e, \h07f, \h0d3, \h104, \h10c, \h10d, \h11c, \h120,
   \h140, \h144, \h184, \h19c, \h1a0, \h1b0, \h1b1, \h1b2, \h1b4, \h1b5,
   \h1b6, \h1c4, \h1cc, \h1cd, \h1cf, \h1d4, \h1d5, \h1d6, \h1d7, \h1d8,
   \h1d9, \h1db, \h1dc, \h1dd, \h1df, \h1f4, \h1f5, \h1f6, \h1f7, \h1f8,
   \h1f9, \h1fb, \h1fc, \h1fd, \h1ff, \h201, \h249, \h253, \h2a6, \h2ae,
   \h2b6, \h2c2, \h2c3, \h2c4, \h2c5, \h2c6, \h2ca, \h2cb, \h2cc, \h2cd,
   \h2ce, \h35c, \h35d, \h35e, \h35f, \h3b0, \h3b2, \h3b4, \h3b6, \h3c2,
   \h3c3, \h3ca, \h3cb, \h580, \h680, \h700, \h780}

Mtspr == <<"RR", \h10c>>
Syscall == <<"RI7", \h10c>>

Mnemonic == UNION {{<<g.format, o>> : o \in g.ops} : g \in ToSet(Insns)}

(* _solvers: the mnemonics that have a handler of their own. *)
Solvers == {m \in Mnemonic : m[2] \in SolverOps} \ {Syscall}
=============================================================================
