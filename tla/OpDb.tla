-------------------------------- MODULE OpDb --------------------------------
(***************************************************************************)
(* The decoder of spu_idb.cpp: tables over the 2048 values of the 11 most  *)
(* significant bits of an instruction, built on the first call and read by *)
(* every later one.  spu_decode_op_opcode maps those bits to the opcode    *)
(* that indexes the tables; the type, mnemonic and handler of a word are   *)
(* the entries at that index.                                              *)
(***************************************************************************)
EXTENDS Integers, SpuInsns

CONSTANTS
  NoType,       \* size_t(-1), the type of an opcode without a row
  NoMnemonic,   \* the empty string
  Dummy         \* spu_dummy_solver

Unknown == 2047   \* 0x7FF, what a word of no format decodes to

VARIABLES
  db_op_type, db_op_mnemonic, db_op_solver, db_op_arglist,
  opcodes_parsed,
  asked,        \* the 11 bits of the last word decoded, -1 before any
  opcode        \* what spu_decode_op_opcode returned for it

tables == <<db_op_type, db_op_mnemonic, db_op_solver, db_op_arglist>>
vars == <<tables, opcodes_parsed, asked, opcode>>

(* A type, mnemonic and handler for every opcode, and a decoded opcode that *)
(* indexes the tables.                                                     *)
TypeOK ==
  /\ db_op_type \in [Opcode -> Format \cup {NoType}]
  /\ db_op_mnemonic \in [Opcode -> Mnemonic \cup {NoMnemonic}]
  /\ db_op_solver \in [Opcode -> Solvers \cup {Dummy}]
  /\ DOMAIN db_op_arglist = Opcode
  /\ opcodes_parsed \in BOOLEAN
  /\ asked \in Opcode \cup {-1}
  /\ opcode \in Opcode

Init ==
  /\ db_op_type = [o \in Opcode |-> NoType]
  /\ db_op_mnemonic = [o \in Opcode |-> NoMnemonic]
  /\ db_op_solver = [o \in Opcode |-> Dummy]
  /\ db_op_arglist = [o \in Opcode |-> <<>>]
  /\ opcodes_parsed = FALSE
  /\ asked = -1
  /\ opcode = Unknown

-----------------------------------------------------------------------------

(* The last row of an opcode decides its type and mnemonic, every row adds *)
(* an argument list.                                                       *)
spu_build_op_db ==
  /\ db_op_type' = [o \in Opcode |->
       IF RowsOf[o] = <<>> THEN db_op_type[o] ELSE Last(RowsOf[o]).format]
  /\ db_op_mnemonic' = [o \in Opcode |->
       IF RowsOf[o] = <<>> THEN db_op_mnemonic[o]
                           ELSE <<Last(RowsOf[o]).format, o>>]
  /\ db_op_arglist' = [o \in Opcode |->
       db_op_arglist[o] \o [i \in DOMAIN RowsOf[o] |-> RowsOf[o][i].args]]

(* A mnemonic found in _solvers gives its opcode that handler. *)
link_mnem_to_solver(mnemonic) ==
  db_op_solver' = [o \in Opcode |->
    IF mnemonic[o] \in Solvers THEN mnemonic[o] ELSE db_op_solver[o]]

(* Mutant: the tables are rebuilt by every call. *)
BuildAlways ==
  /\ spu_build_op_db
  /\ link_mnem_to_solver(db_op_mnemonic')
  /\ opcodes_parsed' = TRUE

(* Mutant: handlers are linked before the mnemonics are there. *)
LinkThenBuild ==
  IF opcodes_parsed
  THEN UNCHANGED <<tables, opcodes_parsed>>
  ELSE /\ spu_build_op_db
       /\ link_mnem_to_solver(db_op_mnemonic)
       /\ opcodes_parsed' = TRUE

(* The first call builds the tables. *)
BuildOnce ==
  IF opcodes_parsed
  THEN UNCHANGED <<tables, opcodes_parsed>>
  ELSE /\ spu_build_op_db
       /\ link_mnem_to_solver(db_op_mnemonic')
       /\ opcodes_parsed' = TRUE

(* op & 0x780, 0x7F0, ...: the low bits cleared. *)
Masked(op, bits) == op - (op % 2^bits)

(* Mutant: the mask of RI10 is one bit short. *)
LookupRI10Short(type, op) ==
  IF type[op] \in {"RR", "RI7", "LBTI"} THEN op
  ELSE IF type[Masked(op, 7)] = "RRR" THEN Masked(op, 7)
  ELSE IF type[Masked(op, 4)] \in {"RI18", "LBT"} THEN Masked(op, 4)
  ELSE IF type[Masked(op, 2)] \in {"RI10", "RI16"} THEN Masked(op, 2)
  ELSE IF type[op] = NoType THEN Unknown
  ELSE op

(* The formats are tried from the exact match to ever shorter masks; the   *)
(* mask of one bit asks for RI18.                                          *)
Lookup(type, op) ==
  IF type[op] \in {"RR", "RI7", "LBTI"} THEN op
  ELSE IF type[Masked(op, 7)] = "RRR" THEN Masked(op, 7)
  ELSE IF type[Masked(op, 4)] \in {"RI18", "LBT"} THEN Masked(op, 4)
  ELSE IF type[Masked(op, 3)] = "RI10" THEN Masked(op, 3)
  ELSE IF type[Masked(op, 2)] = "RI16" THEN Masked(op, 2)
  ELSE IF type[Masked(op, 1)] = "RI18" THEN Masked(op, 1)
  ELSE IF type[op] = NoType THEN Unknown
  ELSE op

spu_decode_op_opcode(op) ==
  /\ BuildOnce
  /\ asked' = op
  /\ opcode' = Lookup(db_op_type', op)

Next == \E op \in Opcode : spu_decode_op_opcode(op)

Spec == Init /\ [][Next]_vars

-----------------------------------------------------------------------------

(* How many of the 11 bits are not part of the opcode, by the pictures of  *)
(* the formats in spu-insns.h.                                             *)
OperandBits(format) ==
  CASE format = "RRR" -> 7
    [] format \in {"RI18", "LBT"} -> 4
    [] format = "RI10" -> 3
    [] format = "RI16" -> 2
    [] format = "RI8" -> 1
    [] OTHER -> 0

(* The marks of an opcode without a row are not taken for entries of rows. *)
ASSUME MarksAssumption ==
  NoType \notin Format /\ {NoMnemonic, Dummy} \cap Mnemonic = {}

(* Of the table of spu-insns.h: but for mtspr, whose opcode is syscall's,  *)
(* every mnemonic is its opcode's last one; no opcode lies among the words *)
(* of another instruction, nor has it bits set that are operands; and the  *)
(* arguments of a row are kinds of arguments.                              *)
ASSUME TableAssumption ==
  /\ Mnemonic \subseteq Format \X Opcode
  /\ {Mtspr, Syscall} \subseteq Mnemonic
  /\ {<<Last(RowsOf[o]).format, o>> : o \in {p \in Opcode : RowsOf[p] # <<>>}}
       = Mnemonic \ {Mtspr}
  /\ RowsOf[Unknown] = <<>>
  /\ \A m, n \in Mnemonic :
       Masked(n[2], OperandBits(m[1])) = m[2] <=> n[2] = m[2]
  /\ \A o \in Opcode :
       [i \in DOMAIN RowsOf[o] |-> RowsOf[o][i].args] \in Seq(Seq(0 .. 21))

(* The instructions a word is an encoding of. *)
Encoded(op) ==
  {m \in Mnemonic : Masked(op, OperandBits(m[1])) = m[2]}

(* "Some formats don't have 11bits for opcode field": a word of an          *)
(* instruction decodes to the opcode the table documents, whatever its     *)
(* operand bits are, so no order of the tests and no mask lets one format  *)
(* shadow another's words - but the mask of RI8 asks for RI18, and a word  *)
(* of RI8 whose low bit is set is not recognised.  A word that is no       *)
(* instruction's decodes to the unknown opcode, which has no mnemonic and  *)
(* no handler.                                                             *)
DecodesExactly ==
  asked # -1 =>
    /\ \A m \in Encoded(asked) :
         opcode = m[2] <=> (m[1] # "RI8" \/ asked = m[2])
    /\ Encoded(asked) = {} =>
         /\ opcode = Unknown
         /\ db_op_mnemonic[opcode] = NoMnemonic
         /\ db_op_solver[opcode] = Dummy

(* The handler of an opcode is the one of its own mnemonic, and of all     *)
(* handlers _solvers lists, mtspr's alone belongs to no opcode: the row of *)
(* syscall has taken the mnemonic of its opcode over.                      *)
HandlersInPlace ==
  opcodes_parsed =>
    /\ \A o \in Opcode : db_op_solver[o] \in {db_op_mnemonic[o], Dummy}
    /\ {db_op_solver[o] : o \in Opcode} = (Solvers \ {Mtspr}) \cup {Dummy}
=============================================================================
