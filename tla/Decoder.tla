------------------------------- MODULE Decoder ------------------------------
(***************************************************************************)
(* The decoder of OpDb once its tables are built, for the components that  *)
(* look instructions up and do not care when that was.                     *)
(***************************************************************************)
EXTENDS Integers, SpuInsns, InsnWord

CONSTANTS NoType, NoMnemonic, Dummy   \* as in OpDb

Types == [o \in Opcode |->
  IF RowsOf[o] = <<>> THEN NoType ELSE Last(RowsOf[o]).format]
Mnemonics == [o \in Opcode |->
  IF RowsOf[o] = <<>> THEN NoMnemonic ELSE <<Last(RowsOf[o]).format, o>>]
ArgLists == [o \in Opcode |-> [i \in DOMAIN RowsOf[o] |-> RowsOf[o][i].args]]

Db == INSTANCE OpDb WITH
  db_op_type <- Types, db_op_mnemonic <- Mnemonics, db_op_arglist <- ArgLists,
  db_op_solver <- Types, opcodes_parsed <- TRUE, asked <- -1, opcode <- 0

Decoded == [o \in Opcode |-> Db!Lookup(Types, o)]

(* spu_decode_op_opcode, _type, _mnemonic and _components of a word. *)
OpcodeOf(w) == Decoded[w.op]
TypeOf(w) == Types[OpcodeOf(w)]
MnemonicOf(w) == Mnemonics[OpcodeOf(w)]
ComponentsOf(w) == Components(TypeOf(w), w)
=============================================================================
