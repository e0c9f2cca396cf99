----------------------------- MODULE DecoderLink -----------------------------
(***************************************************************************)
(* The link between the database, which is built by the first call and    *)
(* read by the later ones, and Decoder, the constant functions the other   *)
(* modules take its answers from.                                          *)
(***************************************************************************)
EXTENDS OpDb

Built == INSTANCE Decoder

(* What the assembler, the disassembler and the analyses take for granted: *)
(* whatever was decoded before, a call is answered as the constant decoder *)
(* answers it, and finds its tables.  The assembler walks all argument     *)
(* lists of an opcode with one line of text: a row that is missing, listed *)
(* twice or out of order, be it that the tables are built again by a later *)
(* call or not at all by the first, shifts what it reads.                  *)
AnswersOfDecoder ==
  asked # -1 =>
    /\ opcode = Built!Decoded[asked]
    /\ db_op_type = Built!Types
    /\ db_op_mnemonic = Built!Mnemonics
    /\ db_op_arglist = Built!ArgLists
=============================================================================
