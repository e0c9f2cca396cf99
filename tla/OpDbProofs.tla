----------------------------- MODULE OpDbProofs -----------------------------
(***************************************************************************)
(* Proofs about OpDb: the decoder finds the instruction of every word,     *)
(* whatever was decoded before it.  Of the table of instructions they use  *)
(* TableAssumption alone: that no opcode lies among the words of another   *)
(* instruction.  Hence the order of the tests in Lookup does not matter,   *)
(* but the masks do.                                                       *)
(***************************************************************************)
EXTENDS DecoderLink, SequenceTheorems, TLAPS

(* The tables once they are built. *)
Types == [o \in Opcode |->
  IF RowsOf[o] = <<>> THEN NoType ELSE Last(RowsOf[o]).format]
Mnemonics == [o \in Opcode |->
  IF RowsOf[o] = <<>> THEN NoMnemonic ELSE <<Last(RowsOf[o]).format, o>>]
ArgLists == [o \in Opcode |-> [i \in DOMAIN RowsOf[o] |-> RowsOf[o][i].args]]
Handlers == [o \in Opcode |->
  IF Mnemonics[o] \in Solvers THEN Mnemonics[o] ELSE Dummy]

(* Before the first call the tables are empty, after it they are the ones  *)
(* of the rows, and the answer to a word is the one they give.             *)
IInv ==
  /\ ~opcodes_parsed =>
       /\ db_op_type = [o \in Opcode |-> NoType]
       /\ db_op_mnemonic = [o \in Opcode |-> NoMnemonic]
       /\ db_op_solver = [o \in Opcode |-> Dummy]
       /\ db_op_arglist = [o \in Opcode |-> <<>>]
       /\ asked = -1 /\ opcode = Unknown
  /\ opcodes_parsed =>
       /\ db_op_type = Types
       /\ db_op_mnemonic = Mnemonics
       /\ db_op_solver = Handlers
       /\ db_op_arglist = ArgLists
       /\ asked \in Opcode
       /\ opcode = Lookup(Types, asked)
  /\ opcodes_parsed \in BOOLEAN

-----------------------------------------------------------------------------

LEMMA UnknownFacts == Unknown \in Opcode /\ Types[Unknown] = NoType
<1>1. Unknown \in Opcode
  BY DEF Unknown, Opcode
<1> QED
  BY <1>1, TableAssumption DEF Types

(* A mask clears the low bits, and a shorter one before it is not felt. *)
LEMMA MaskIs ==
  ASSUME NEW op \in Opcode
  PROVE  /\ Masked(op, 0) = op
         /\ Masked(op, 1) = op - (op % 2)
         /\ Masked(op, 2) = op - (op % 4)
         /\ Masked(op, 3) = op - (op % 8)
         /\ Masked(op, 4) = op - (op % 16)
         /\ Masked(op, 7) = op - (op % 128)
<1>1. 2^0 = 1 /\ 2^1 = 2 /\ 2^2 = 4
  OBVIOUS
<1>2. 2^3 = 8
  OBVIOUS
<1>3. 2^4 = 16
  OBVIOUS
<1>4. 2^7 = 128
  OBVIOUS
<1>5. op - (op % 1) = op
  BY SMT DEF Opcode
<1> QED
  BY <1>1, <1>2, <1>3, <1>4, <1>5, Zenon DEF Masked

LEMMA MaskedOpcode ==
  ASSUME NEW op \in Opcode, NEW k \in {0, 1, 2, 3, 4, 7}
  PROVE  Masked(op, k) \in Opcode
<1>1. /\ op - (op % 2) \in Opcode /\ op - (op % 4) \in Opcode
      /\ op - (op % 8) \in Opcode /\ op - (op % 16) \in Opcode
  BY SMT DEF Opcode
<1>2. op - (op % 128) \in Opcode
  BY SMT DEF Opcode
<1>3. k = 0 \/ k = 1 \/ k = 2 \/ k = 3 \/ k = 4 \/ k = 7
  OBVIOUS
<1> QED
  BY <1>1, <1>2, <1>3, MaskIs

LEMMA MaskedTwice ==
  ASSUME NEW op \in Opcode, NEW j \in {0, 1, 2, 3, 4, 7},
         NEW k \in {0, 1, 2, 3, 4, 7}, j <= k
  PROVE  Masked(Masked(op, j), k) = Masked(op, k)
<1> DEFINE Down(x, n) == x - (x % n)
<1>1. op \in Nat
  BY DEF Opcode
<1>2. /\ Down(Down(op, 2), 2) = Down(op, 2)
      /\ Down(Down(op, 2), 4) = Down(op, 4)
      /\ Down(Down(op, 2), 8) = Down(op, 8)
      /\ Down(Down(op, 2), 16) = Down(op, 16)
      /\ Down(Down(op, 2), 128) = Down(op, 128)
  BY <1>1, SMT
<1>3. /\ Down(Down(op, 4), 4) = Down(op, 4)
      /\ Down(Down(op, 4), 8) = Down(op, 8)
      /\ Down(Down(op, 4), 16) = Down(op, 16)
      /\ Down(Down(op, 4), 128) = Down(op, 128)
  BY <1>1, SMT
<1>4. /\ Down(Down(op, 8), 8) = Down(op, 8)
      /\ Down(Down(op, 8), 16) = Down(op, 16)
      /\ Down(Down(op, 8), 128) = Down(op, 128)
  BY <1>1, SMT
<1>5. /\ Down(Down(op, 16), 16) = Down(op, 16)
      /\ Down(Down(op, 16), 128) = Down(op, 128)
      /\ Down(Down(op, 128), 128) = Down(op, 128)
  BY <1>1, SMT
<1> DEFINE x == Masked(op, j)
<1>6. x \in Opcode
  BY MaskedOpcode
<1>7. /\ Masked(x, 0) = x
      /\ Masked(x, 1) = Down(x, 2) /\ Masked(x, 2) = Down(x, 4)
      /\ Masked(x, 3) = Down(x, 8) /\ Masked(x, 4) = Down(x, 16)
      /\ Masked(x, 7) = Down(x, 128)
  BY <1>6, MaskIs
<1>8. /\ Masked(op, 0) = op
      /\ Masked(op, 1) = Down(op, 2) /\ Masked(op, 2) = Down(op, 4)
      /\ Masked(op, 3) = Down(op, 8) /\ Masked(op, 4) = Down(op, 16)
      /\ Masked(op, 7) = Down(op, 128)
  BY MaskIs
<1> HIDE DEF Down
<1>9. CASE j = 0
  BY <1>7, <1>8, <1>9
<1>10. CASE j = 1
  BY <1>2, <1>7, <1>8, <1>10
<1>11. CASE j = 2
  BY <1>3, <1>7, <1>8, <1>11
<1>12. CASE j = 3
  BY <1>4, <1>7, <1>8, <1>12
<1>13. CASE j = 4 \/ j = 7
  BY <1>5, <1>7, <1>8, <1>13
<1> QED
  BY <1>9, <1>10, <1>11, <1>12, <1>13

(* A mnemonic as the pair it is, and the operand bits of a format. *)
LEMMA MnemonicFacts ==
  ASSUME NEW m \in Mnemonic
  PROVE  /\ m[1] \in Format /\ m[2] \in Opcode /\ m = <<m[1], m[2]>>
         /\ OperandBits(m[1]) \in {0, 1, 2, 3, 4, 7}
<1>1. m \in Format \X Opcode
  BY TableAssumption
<1>2. m[1] \in Format /\ m[2] \in Opcode /\ m = <<m[1], m[2]>>
  BY <1>1
<1> QED
  BY <1>2 DEF OperandBits, Format

(* Two instructions a word is an encoding of have one opcode: of the two   *)
(* masks the longer one applies to the other's opcode as well.             *)
LEMMA EncodedOnce ==
  ASSUME NEW op \in Opcode, NEW m \in Encoded(op), NEW n \in Encoded(op)
  PROVE  m[2] = n[2]
<1> DEFINE j == OperandBits(m[1])
           k == OperandBits(n[1])
<1>1. /\ m \in Mnemonic /\ Masked(op, j) = m[2]
      /\ n \in Mnemonic /\ Masked(op, k) = n[2]
  BY DEF Encoded
<1>2. j \in {0, 1, 2, 3, 4, 7} /\ k \in {0, 1, 2, 3, 4, 7}
  BY <1>1, MnemonicFacts
<1> HIDE DEF j, k
<1>3. CASE j <= k
  <2>1. Masked(m[2], k) = n[2]
    BY <1>1, <1>2, <1>3, MaskedTwice
  <2> QED
    BY <2>1, <1>1, TableAssumption DEF k
<1>4. CASE k <= j
  <2>1. Masked(n[2], j) = m[2]
    BY <1>1, <1>2, <1>4, MaskedTwice
  <2> QED
    BY <2>1, <1>1, TableAssumption DEF j
<1>5. j <= k \/ k <= j
  BY <1>2
<1> QED
  BY <1>3, <1>4, <1>5

-----------------------------------------------------------------------------

(* An opcode with a type is an instruction of that type.                   *)
LEMMA TypedOpcode ==
  ASSUME NEW o \in Opcode, Types[o] # NoType
  PROVE  /\ <<Types[o], o>> \in Mnemonic \ {Mtspr}
         /\ Types[o] \in Format
         /\ Mnemonics[o] = <<Types[o], o>>
<1>1. RowsOf[o] # <<>>
  BY DEF Types
<1>2. Types[o] = Last(RowsOf[o]).format /\ Mnemonics[o] = <<Types[o], o>>
  BY <1>1 DEF Types, Mnemonics
<1>3. <<Last(RowsOf[o]).format, o>> \in Mnemonic \ {Mtspr}
  BY <1>1, TableAssumption
<1>4. <<Types[o], o>> \in Format \X Opcode
  BY <1>2, <1>3, TableAssumption
<1> QED
  BY <1>2, <1>3, <1>4

LEMMA UntypedOpcode ==
  ASSUME NEW o \in Opcode, Types[o] = NoType
  PROVE  Mnemonics[o] = NoMnemonic /\ Handlers[o] = Dummy
<1>1. RowsOf[o] = <<>>
  <2> SUFFICES ASSUME RowsOf[o] # <<>> PROVE FALSE
    OBVIOUS
  <2>1. <<Last(RowsOf[o]).format, o>> \in Format \X Opcode
    BY TableAssumption
  <2>2. Types[o] \in Format
    BY <2>1 DEF Types
  <2> QED
    BY <2>2, MarksAssumption
<1>2. Mnemonics[o] = NoMnemonic
  BY <1>1 DEF Mnemonics
<1>3. NoMnemonic \notin Solvers
  BY MarksAssumption DEF Solvers
<1> QED
  BY <1>2, <1>3 DEF Handlers

(* Every mnemonic but mtspr is the last one of its opcode.                 *)
LEMMA LastOfOpcode ==
  ASSUME NEW m \in Mnemonic, m # Mtspr
  PROVE  Types[m[2]] = m[1] /\ Mnemonics[m[2]] = m
<1>1. PICK o \in Opcode :
        RowsOf[o] # <<>> /\ m = <<Last(RowsOf[o]).format, o>>
  BY TableAssumption
<1>2. m[2] = o /\ m[1] = Last(RowsOf[o]).format
  BY <1>1
<1> QED
  BY <1>1, <1>2 DEF Types, Mnemonics

(* mtspr gave its opcode to syscall, which keeps no operand bits either.   *)
LEMMA TypeOfMnemonic ==
  ASSUME NEW m \in Mnemonic
  PROVE  /\ Types[m[2]] \in Format
         /\ OperandBits(Types[m[2]]) = OperandBits(m[1])
         /\ Types[m[2]] = "RI8" <=> m[1] = "RI8"
<1>1. CASE m = Mtspr
  <2>1. m[1] = "RR" /\ m[2] = Syscall[2]
    BY <1>1 DEF Mtspr, Syscall
  <2>2. Syscall \in Mnemonic /\ Syscall # Mtspr
    BY TableAssumption DEF Mtspr, Syscall
  <2>3. Types[m[2]] = "RI7"
    BY <2>1, <2>2, LastOfOpcode DEF Syscall
  <2> QED
    BY <2>1, <2>3 DEF OperandBits, Format
<1>2. CASE m # Mtspr
  BY <1>2, LastOfOpcode, MnemonicFacts
<1> QED
  BY <1>1, <1>2

(* A masked opcode that has a type of that mask encodes the word.          *)
LEMMA TypedIsEncoded ==
  ASSUME NEW op \in Opcode, NEW k \in {0, 1, 2, 3, 4, 7},
         Types[Masked(op, k)] # NoType,
         OperandBits(Types[Masked(op, k)]) = k
  PROVE  <<Types[Masked(op, k)], Masked(op, k)>> \in Encoded(op)
<1> DEFINE o == Masked(op, k)
           m == <<Types[o], o>>
<1>1. o \in Opcode
  BY MaskedOpcode
<1>2. m \in Mnemonic
  BY <1>1, TypedOpcode
<1>3. m[1] = Types[o] /\ m[2] = o
  OBVIOUS
<1> HIDE DEF m
<1>4. Masked(op, OperandBits(m[1])) = m[2]
  BY <1>3
<1>5. m \in Encoded(op)
  BY <1>2, <1>4 DEF Encoded
<1> QED
  BY <1>5 DEF m

(* What a test of Lookup asks of a masked opcode, for the operand bits of  *)
(* the formats.                                                            *)
LEMMA FormatBits ==
  ASSUME NEW format \in Format
  PROVE  /\ OperandBits(format) = 7 <=> format = "RRR"
         /\ OperandBits(format) = 4 <=> format \in {"RI18", "LBT"}
         /\ OperandBits(format) = 3 <=> format = "RI10"
         /\ OperandBits(format) = 2 <=> format = "RI16"
         /\ OperandBits(format) = 1 <=> format = "RI8"
         /\ OperandBits(format) = 0 <=> format \in {"RR", "RI7", "LBTI"}
  BY DEF OperandBits, Format

(* The tests of Lookup. *)
Found(op) ==
  \/ Types[op] \in {"RR", "RI7", "LBTI"}
  \/ Types[Masked(op, 7)] = "RRR"
  \/ Types[Masked(op, 4)] \in {"RI18", "LBT"}
  \/ Types[Masked(op, 3)] = "RI10"
  \/ Types[Masked(op, 2)] = "RI16"
  \/ Types[Masked(op, 1)] = "RI18"

LEMMA NotFound ==
  ASSUME NEW op \in Opcode, ~Found(op)
  PROVE  Lookup(Types, op) = IF Types[op] = NoType THEN Unknown ELSE op
  BY DEF Found, Lookup

(* Whatever test of Lookup succeeds, the word is one of the instruction it *)
(* found, of the format asked for: the mask of one bit alone asks for a    *)
(* format that has more operand bits, but the opcode it finds has no bit   *)
(* set among them.                                                         *)
LEMMA FoundIsEncoded ==
  ASSUME NEW op \in Opcode, Found(op)
  PROVE  \E n \in Encoded(op) : n[2] = Lookup(Types, op) /\ n[1] # "RI8"
<1> DEFINE o == Lookup(Types, op)
           OfMask(k) == o = Masked(op, k) /\ Types[o] \in Format
                        /\ OperandBits(Types[o]) = k /\ Types[o] # "RI8"
<1>1. \/ o = op /\ Types[o] \in {"RR", "RI7", "LBTI"}
      \/ o = Masked(op, 7) /\ Types[o] = "RRR"
      \/ o = Masked(op, 4) /\ Types[o] \in {"RI18", "LBT"}
      \/ o = Masked(op, 3) /\ Types[o] = "RI10"
      \/ o = Masked(op, 2) /\ Types[o] = "RI16"
      \/ o = Masked(op, 1) /\ Types[o] = "RI18"
  BY DEF Found, Lookup
<1> HIDE DEF o
<1>2. ASSUME NEW k \in {0, 1, 2, 3, 4, 7}, OfMask(k)
      PROVE  \E n \in Encoded(op) : n[2] = o /\ n[1] # "RI8"
  <2>1. Types[o] # NoType
    BY <1>2, MarksAssumption
  <2>2. <<Types[o], o>> \in Encoded(op)
    BY <1>2, <2>1, TypedIsEncoded
  <2> QED
    BY <1>2, <2>2
<1>3. ASSUME o = Masked(op, 1), Types[o] = "RI18"
      PROVE  \E n \in Encoded(op) : n[2] = o /\ n[1] # "RI8"
  <2>1. o \in Opcode
    BY <1>3, MaskedOpcode
  <2>2. Types[o] # NoType
    BY <1>3, MarksAssumption DEF Format
  <2>3. <<Types[o], o>> \in Mnemonic
    BY <2>1, <2>2, TypedOpcode
  <2>4. OperandBits(Types[o]) = 4
    BY <1>3 DEF OperandBits
  <2>5. Masked(o, 4) = o
    BY <2>3, <2>4, TableAssumption
  <2>6. Masked(op, 4) = o
    BY <1>3, <2>5, MaskedTwice
  <2>7. OfMask(4)
    BY <1>3, <2>4, <2>6 DEF Format
  <2>8. 4 \in {0, 1, 2, 3, 4, 7}
    OBVIOUS
  <2> HIDE DEF OfMask
  <2> QED
    BY <1>2, <2>7, <2>8
<1>4. Masked(op, 0) = op
  BY MaskIs
<1>5. ASSUME ~(o = Masked(op, 1) /\ Types[o] = "RI18")
      PROVE  \E n \in Encoded(op) : n[2] = o /\ n[1] # "RI8"
  <2>1. \E k \in {0, 1, 2, 3, 4, 7} : OfMask(k)
    BY <1>1, <1>4, <1>5, SMT DEF OperandBits, Format
  <2> HIDE DEF OfMask
  <2> QED
    BY <1>2, <2>1
<1> QED
  BY <1>3, <1>5 DEF o

(* A word of an instruction passes the test that asks for its format.      *)
LEMMA EncodedIsFound ==
  ASSUME NEW op \in Opcode, NEW m \in Encoded(op), m[1] # "RI8"
  PROVE  Found(op)
<1> DEFINE type == Types[m[2]]
           k == OperandBits(m[1])
<1>1. m \in Mnemonic /\ m[2] = Masked(op, k)
  BY DEF Encoded
<1>2. type \in Format /\ OperandBits(type) = k /\ type # "RI8"
  BY <1>1, TypeOfMnemonic
<1>3. Types[Masked(op, k)] = type
  BY <1>1
<1>4. Masked(op, 0) = op
  BY MaskIs
<1> HIDE DEF type, k
<1>5. \/ k = 7 /\ type = "RRR"
      \/ k = 4 /\ type \in {"RI18", "LBT"}
      \/ k = 3 /\ type = "RI10"
      \/ k = 2 /\ type = "RI16"
      \/ k = 0 /\ type \in {"RR", "RI7", "LBTI"}
  BY <1>2 DEF OperandBits, Format
<1> QED
  BY <1>3, <1>4, <1>5 DEF Found

(* What Lookup makes of the words of an instruction, and of the others.    *)
LEMMA LookupFinds ==
  ASSUME NEW op \in Opcode, NEW m \in Encoded(op)
  PROVE  Lookup(Types, op) = m[2] <=> (m[1] # "RI8" \/ op = m[2])
<1> DEFINE o == Lookup(Types, op)
<1>1. m \in Mnemonic
  BY DEF Encoded
<1>2. Found(op) => \E n \in Mnemonic : n[2] = o /\ n[1] # "RI8" /\ o = m[2]
  BY FoundIsEncoded, EncodedOnce DEF Encoded
<1>3. ~Found(op) => o = IF Types[op] = NoType THEN Unknown ELSE op
  BY NotFound
<1>4. m[1] # "RI8" => Found(op)
  BY EncodedIsFound
<1>5. /\ Types[m[2]] \in Format
      /\ Types[m[2]] = "RI8" <=> m[1] = "RI8"
      /\ \A n \in Mnemonic : Types[n[2]] = "RI8" <=> n[1] = "RI8"
  BY <1>1, TypeOfMnemonic
<1>6. Types[m[2]] # NoType /\ m[2] # Unknown
  <2>1. Types[m[2]] # NoType
    BY <1>5, MarksAssumption
  <2> QED
    BY <2>1, UnknownFacts
<1> HIDE DEF o
<1>7. o = m[2] <=> (m[1] # "RI8" \/ op = m[2])
  BY <1>2, <1>3, <1>4, <1>5, <1>6
<1> QED
  BY <1>7 DEF o

LEMMA LookupFindsNothing ==
  ASSUME NEW op \in Opcode, Encoded(op) = {}
  PROVE  Lookup(Types, op) = Unknown
<1>1. ~Found(op)
  BY FoundIsEncoded
<1>2. Types[op] = NoType
  <2> SUFFICES ASSUME Types[op] # NoType PROVE FALSE
    OBVIOUS
  <2> DEFINE n == <<Types[op], op>>
  <2>1. n \in Mnemonic /\ n[1] = Types[op] /\ n[2] = op
    BY TypedOpcode
  <2> HIDE DEF n
  <2>2. Masked(op, OperandBits(n[1])) = n[2]
    BY <2>1, TableAssumption
  <2> QED
    BY <2>1, <2>2 DEF Encoded
<1> QED
  BY <1>1, <1>2, NotFound

LEMMA LookupOpcode ==
  ASSUME NEW op \in Opcode
  PROVE  Lookup(Types, op) \in Opcode
<1>1. CASE Found(op)
  BY <1>1, FoundIsEncoded, MnemonicFacts DEF Encoded
<1>2. CASE ~Found(op)
  BY <1>2, NotFound, UnknownFacts
<1> QED
  BY <1>1, <1>2

-----------------------------------------------------------------------------

(* The first call fills the tables, every later one finds them filled.     *)
LEMMA StepIInv == IInv /\ [Next]_vars => IInv'
<1> SUFFICES ASSUME IInv, [Next]_vars PROVE IInv'
  OBVIOUS
<1>1. ASSUME NEW op \in Opcode, spu_decode_op_opcode(op) PROVE IInv'
  <2>1. asked' = op /\ opcode' = Lookup(db_op_type', op)
    BY <1>1 DEF spu_decode_op_opcode
  <2>2. CASE opcodes_parsed
    BY <1>1, <2>1, <2>2 DEF IInv, spu_decode_op_opcode, BuildOnce, tables
  <2>3. CASE ~opcodes_parsed
    <3>1. /\ db_op_type = [o \in Opcode |-> NoType]
          /\ db_op_mnemonic = [o \in Opcode |-> NoMnemonic]
          /\ db_op_solver = [o \in Opcode |-> Dummy]
          /\ db_op_arglist = [o \in Opcode |-> <<>>]
      BY <2>3 DEF IInv
    <3>2. /\ spu_build_op_db /\ link_mnem_to_solver(db_op_mnemonic')
          /\ opcodes_parsed' = TRUE
      BY <1>1, <2>3 DEF spu_decode_op_opcode, BuildOnce
    <3>3. db_op_type' = Types
      BY <3>1, <3>2, Zenon DEF spu_build_op_db, Types
    <3>4. db_op_mnemonic' = Mnemonics
      BY <3>1, <3>2, Zenon DEF spu_build_op_db, Mnemonics
    <3>5. db_op_solver' = Handlers
      BY <3>1, <3>2, <3>4, Zenon DEF link_mnem_to_solver, Handlers
    <3>6. db_op_arglist' = ArgLists
      <4>1. db_op_arglist' = [o \in Opcode |-> <<>> \o ArgLists[o]]
        BY <3>1, <3>2, Zenon DEF spu_build_op_db, ArgLists
      <4>2. \A o \in Opcode : <<>> \o ArgLists[o] = ArgLists[o]
        BY TableAssumption, ConcatEmptySeq DEF ArgLists
      <4> QED
        BY <4>1, <4>2 DEF ArgLists
    <3> QED
      BY <2>1, <3>2, <3>3, <3>4, <3>5, <3>6 DEF IInv
  <2> QED
    BY <2>2, <2>3
<1>2. ASSUME UNCHANGED vars PROVE IInv'
  BY <1>2 DEF IInv, vars, tables
<1> QED
  BY <1>1, <1>2 DEF Next

(* The tables are empty until the first call and never change after it,    *)
(* and every answer is the one they give.                                  *)
THEOREM Invariance == Spec => []IInv
<1>1. Init => IInv
  BY DEF Init, IInv
<1> QED
  BY <1>1, StepIInv, PTL DEF Spec

(* Types, mnemonics and handlers stay what the tables are declared to      *)
(* hold, and a decoded opcode indexes them.                                *)
THEOREM TypeCorrect == Spec => []TypeOK
<1>1. IInv => TypeOK
  <2> SUFFICES ASSUME IInv PROVE TypeOK
    OBVIOUS
  <2>1. /\ Types \in [Opcode -> Format \cup {NoType}]
        /\ Mnemonics \in [Opcode -> Mnemonic \cup {NoMnemonic}]
    <3>1. ASSUME NEW o \in Opcode
          PROVE  /\ Types[o] \in Format \cup {NoType}
                 /\ Mnemonics[o] \in Mnemonic \cup {NoMnemonic}
      BY TypedOpcode, UntypedOpcode
    <3> QED
      BY <3>1 DEF Types, Mnemonics
  <2>2. Handlers \in [Opcode -> Solvers \cup {Dummy}]
    BY DEF Handlers
  <2>3. CASE opcodes_parsed
    BY <2>1, <2>2, <2>3, LookupOpcode DEF IInv, TypeOK, ArgLists
  <2>4. CASE ~opcodes_parsed
    BY <2>4, UnknownFacts DEF IInv, TypeOK
  <2> QED
    BY <2>3, <2>4 DEF IInv
<1> QED
  BY <1>1, Invariance, PTL

(* Every word of an instruction decodes to the instruction's opcode, with  *)
(* the exception of the words of RI8 whose low bit is set, and every other *)
(* word to the unknown opcode, which has no mnemonic and no handler.       *)
THEOREM Decodes == Spec => []DecodesExactly
<1>1. IInv => DecodesExactly
  <2> SUFFICES ASSUME IInv, asked # -1 PROVE DecodesExactly
    BY DEF DecodesExactly
  <2>1. /\ db_op_mnemonic = Mnemonics /\ db_op_solver = Handlers
        /\ asked \in Opcode /\ opcode = Lookup(Types, asked)
    BY DEF IInv
  <2>2. ASSUME NEW m \in Encoded(asked)
        PROVE  opcode = m[2] <=> (m[1] # "RI8" \/ asked = m[2])
    BY <2>1, LookupFinds
  <2>3. Encoded(asked) = {} =>
          /\ opcode = Unknown
          /\ db_op_mnemonic[opcode] = NoMnemonic
          /\ db_op_solver[opcode] = Dummy
    BY <2>1, LookupFindsNothing, UnknownFacts, UntypedOpcode
  <2> QED
    BY <2>2, <2>3 DEF DecodesExactly
<1> QED
  BY <1>1, Invariance, PTL

(* The table of Decoder is that of OpDb. *)
LEMMA TableOfDecoder == Built!RowsOf = RowsOf /\ Built!Opcode = Opcode
<1>1. Built!Insns = Insns
  BY DEF A_T, Built!A_T, A_A, Built!A_A, A_B, Built!A_B, A_H, Built!A_H,
         A_S, Built!A_S, A_C, Built!A_C, A_P, Built!A_P, A_U3, Built!A_U3,
         A_U5, Built!A_U5, A_U6, Built!A_U6, A_U7, Built!A_U7, A_U7A,
         Built!A_U7A, A_U7B, Built!A_U7B, A_S3, Built!A_S3, A_S6,
         Built!A_S6, A_S7, Built!A_S7, A_S7N, Built!A_S7N, A_S10,
         Built!A_S10, A_S10B, Built!A_S10B, A_S14, Built!A_S14, A_S16,
         Built!A_S16, A_X16, Built!A_X16, A_U18, Built!A_U18, A_S11,
         Built!A_S11, A_S11I, Built!A_S11I, A_U14, Built!A_U14, A_R18,
         Built!A_R18, A_S18, Built!A_S18, Group, Built!Group,
         RowsBranchToImmediate, Built!RowsBranchToImmediate,
         RowsImmediateToMultiply, Built!RowsImmediateToMultiply,
         RowsExtended, Built!RowsExtended, Insns, Built!Insns
<1>2. Built!Opcode = Opcode
  BY DEF Opcode, Built!Opcode
<1> QED
  BY <1>1, <1>2, Zenon DEF RowsOf, Built!RowsOf

(* The type, mnemonic and argument lists behind every answer, and the      *)
(* answer itself, are the ones of Decoder, whatever was decoded before.    *)
THEOREM AnswersAreDecoders == Spec => []AnswersOfDecoder
<1>1. IInv => AnswersOfDecoder
  <2> SUFFICES ASSUME IInv, asked # -1 PROVE AnswersOfDecoder
    BY DEF AnswersOfDecoder
  <2>1. /\ db_op_type = Types /\ db_op_mnemonic = Mnemonics
        /\ db_op_arglist = ArgLists
        /\ asked \in Opcode /\ opcode = Lookup(Types, asked)
    BY DEF IInv
  <2>2. /\ Types = Built!Types /\ Mnemonics = Built!Mnemonics
        /\ ArgLists = Built!ArgLists
    <3>1. Types = Built!Types
      BY TableOfDecoder DEF Types, Built!Types, Last, Built!Last
    <3>2. Mnemonics = Built!Mnemonics
      BY TableOfDecoder DEF Mnemonics, Built!Mnemonics, Last, Built!Last
    <3>3. ArgLists = Built!ArgLists
      BY TableOfDecoder DEF ArgLists, Built!ArgLists
    <3> QED
      BY <3>1, <3>2, <3>3
  <2>3. Built!Decoded[asked] = Lookup(Built!Types, asked)
    BY <2>1, TableOfDecoder, Zenon
       DEF Built!Decoded, Built!Db!Lookup, Lookup, Built!Db!Masked, Masked,
           Built!Db!Unknown, Unknown
  <2> QED
    BY <2>1, <2>2, <2>3, Zenon DEF AnswersOfDecoder
<1> QED
  BY <1>1, Invariance, PTL

(* Every handler stands at its own mnemonic's opcode, and all that are     *)
(* listed do stand there but mtspr's.                                      *)
THEOREM HandlersLinked == Spec => []HandlersInPlace
<1>1. IInv => HandlersInPlace
  <2> SUFFICES ASSUME IInv, opcodes_parsed PROVE HandlersInPlace
    BY DEF HandlersInPlace
  <2>1. db_op_mnemonic = Mnemonics /\ db_op_solver = Handlers
    BY DEF IInv
  <2>2. ASSUME NEW o \in Opcode
        PROVE  /\ Handlers[o] \in {Mnemonics[o], Dummy}
               /\ Handlers[o] \in (Solvers \ {Mtspr}) \cup {Dummy}
    <3>1. Mnemonics[o] # Mtspr
      <4>1. CASE Types[o] = NoType
        BY <4>1, UntypedOpcode, MarksAssumption, TableAssumption
      <4>2. CASE Types[o] # NoType
        BY <4>2, TypedOpcode
      <4> QED
        BY <4>1, <4>2
    <3> QED
      BY <3>1 DEF Handlers
  <2>3. ASSUME NEW m \in Solvers \ {Mtspr}
        PROVE  \E o \in Opcode : Handlers[o] = m
    <3>1. m \in Mnemonic
      BY DEF Solvers
    <3>2. m[2] \in Opcode /\ Mnemonics[m[2]] = m
      BY <3>1, MnemonicFacts, LastOfOpcode
    <3> QED
      BY <3>2 DEF Handlers
  <2>4. \E o \in Opcode : Handlers[o] = Dummy
    BY UnknownFacts, UntypedOpcode
  <2> QED
    BY <2>1, <2>2, <2>3, <2>4 DEF HandlersInPlace
<1> QED
  BY <1>1, Invariance, PTL
=============================================================================
