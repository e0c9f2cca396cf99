--------------------------- MODULE AsmCodecProofs ---------------------------
(***************************************************************************)
(* Proofs about AsmCodec, for every word and every line and not only for   *)
(* those a run takes: the operands spu_decode_op_components returns        *)
(* determine the word (ComponentsCorrect); the text of a word is assembled *)
(* to the word again, but in three cases (ReadsBackCorrect); a line        *)
(* becomes the word its picture gives it, but in exactly the cases of      *)
(* Garbled (AssemblesPicturedCorrect); and the pseudo code shows the       *)
(* registers an instruction names, but for the ones PseudoShowsOperands    *)
(* lists (PseudoCorrect).                                                  *)
(***************************************************************************)
EXTENDS AsmCodec, SequenceTheorems, TLAPS

(* A number of 7, 8, ... bits read as a signed one keeps its low bits.     *)
LEMMA Signed7 ==
  ASSUME NEW x \in Nat, x < 128
  PROVE  Cut(SignExtend(x, 128), 128) = x
  BY SMT DEF SignExtend, Cut

(* A number of 8 bits read as a signed one keeps its 8 and its low 7 bits. *)
LEMMA Signed8 ==
  ASSUME NEW x \in Nat, x < 256
  PROVE  /\ Cut(SignExtend(x, 256), 256) = x
         /\ Cut(SignExtend(x, 256), 128) = x % 128
<1>1. Cut(SignExtend(x, 256), 256) = x
  BY SMT DEF SignExtend, Cut
<1>2. Cut(SignExtend(x, 256), 128) = x % 128
  BY SMT DEF SignExtend, Cut
<1> QED
  BY <1>1, <1>2

(* The same of the 10 bits of RI10.                                        *)
LEMMA Signed10 ==
  ASSUME NEW x \in Nat, x < 1024
  PROVE  /\ Cut(SignExtend(x, 1024), 1024) = x
         /\ Cut(SignExtend(x, 1024), 128) = x % 128
<1>1. Cut(SignExtend(x, 1024), 1024) = x
  BY SMT DEF SignExtend, Cut
<1>2. Cut(SignExtend(x, 1024), 128) = x % 128
  BY SMT DEF SignExtend, Cut
<1> QED
  BY <1>1, <1>2

(* The same of the 16 bits of RI16, cut to two digits and to one.          *)
LEMMA Signed16 ==
  ASSUME NEW x \in Nat, x < 65536
  PROVE  /\ Cut(SignExtend(x, 65536), 65536) = x
         /\ Cut(SignExtend(x, 65536), 16384) = x % 16384
         /\ Cut(SignExtend(x, 65536), 128) = x % 128
<1>1. Cut(SignExtend(x, 65536), 65536) = x
  BY SMT DEF SignExtend, Cut
<1>2. Cut(SignExtend(x, 65536), 16384) = x % 16384
  BY SMT DEF SignExtend, Cut
<1>3. Cut(SignExtend(x, 65536), 128) = x % 128
  BY SMT DEF SignExtend, Cut
<1> QED
  BY <1>1, <1>2, <1>3

(* The same of the 18 bits of RI18.                                        *)
LEMMA Signed18 ==
  ASSUME NEW x \in Nat, x < 262144
  PROVE  /\ Cut(SignExtend(x, 262144), 262144) = x
         /\ Cut(SignExtend(x, 262144), 16384) = x % 16384
         /\ Cut(SignExtend(x, 262144), 128) = x % 128
<1>1. Cut(SignExtend(x, 262144), 262144) = x
  BY SMT DEF SignExtend, Cut
<1>2. Cut(SignExtend(x, 262144), 16384) = x % 16384
  BY SMT DEF SignExtend, Cut
<1>3. Cut(SignExtend(x, 262144), 128) = x % 128
  BY SMT DEF SignExtend, Cut
<1> QED
  BY <1>1, <1>2, <1>3

(* The nine bits of a hint are not read as signed, and hold both fields.   *)
LEMMA Hint ==
  ASSUME NEW roh \in Nat, roh < 4, NEW rol \in Nat, rol < 128
  PROVE  /\ HintOffset(roh, rol) \in Nat /\ HintOffset(roh, rol) < 512
         /\ Cut(HintOffset(roh, rol), 512) \div 128 = roh
         /\ Cut(HintOffset(roh, rol), 128) = rol
<1>1. HintOffset(roh, rol) = roh * 128 + rol
  BY SMT DEF HintOffset, SignExtend
<1>2. roh * 128 + rol \in Nat /\ roh * 128 + rol < 512
  BY SMT
<1>3. (roh * 128 + rol) % 512 = roh * 128 + rol
  BY <1>2, SMT
<1>4. (roh * 128 + rol) \div 128 = roh /\ (roh * 128 + rol) % 128 = rol
  BY SMT
<1> QED
  BY <1>1, <1>2, <1>3, <1>4, Zenon DEF Cut

(* A nine-bit number is its own signed reading when its top bit is clear.  *)
LEMMA SignedHint ==
  ASSUME NEW x \in Nat, x < 512
  PROVE  x = SignExtend(Cut(x, 512), 512) <=> Cut(x, 512) < 256
<1>1. Cut(x, 512) = x
  BY SMT DEF Cut
<1>2. x = SignExtend(x, 512) <=> x < 256
  BY SMT DEF SignExtend
<1> QED
  BY <1>1, <1>2, SMT

(* The digits of a number of two or three digits.                          *)
LEMMA TwoDigits ==
  ASSUME NEW h \in Nat, NEW b \in Nat, b < 128
  PROVE  (h * 128 + b) % 128 = b /\ (h * 128 + b) \div 128 = h
  BY SMT

(* The digits of a number written in base 128 above a leading part.        *)
LEMMA ThreeDigits ==
  ASSUME NEW h \in Nat, NEW b \in Nat, b < 128, NEW a \in Nat, a < 128
  PROVE  /\ (h * 16384 + b * 128 + a) \div 16384 = h
         /\ ((h * 16384 + b * 128 + a) % 16384) \div 128 = b
         /\ (h * 16384 + b * 128 + a) % 128 = a
<1>1. (h * 16384 + b * 128 + a) \div 16384 = h
  BY SMT
<1>2. (h * 16384 + b * 128 + a) % 16384 = b * 128 + a
  BY SMT
<1>3. (h * 16384 + b * 128 + a) % 128 = a
  BY SMT
<1>4. (b * 128 + a) \div 128 = b
  BY SMT
<1> QED
  BY <1>1, <1>2, <1>3, <1>4, SMT

(* The bits a format keeps of the opcode and those it does not.            *)
LEMMA OpcodeBits ==
  ASSUME NEW op \in Nat
  PROVE  /\ OpField(op, 2) + (op % 2) = op
         /\ OpField(op, 4) + (op % 4) = op
         /\ OpField(op, 8) + (op % 8) = op
         /\ OpField(op, 16) + (op % 16) = op
         /\ OpField(op, 128) + (op % 128) = op
         /\ OpField(op, 16) + 4 * ((op \div 4) % 4) + (op % 4) = op
<1>1. OpField(op, 2) + (op % 2) = op
  BY SMT DEF OpField
<1>2. OpField(op, 4) + (op % 4) = op
  BY SMT DEF OpField
<1>3. OpField(op, 8) + (op % 8) = op
  BY SMT DEF OpField
<1>4. OpField(op, 16) + (op % 16) = op
  BY SMT DEF OpField
<1>5. OpField(op, 128) + (op % 128) = op
  BY SMT DEF OpField
<1>6. OpField(op, 16) + 4 * ((op \div 4) % 4) + (op % 4) = op
  BY SMT DEF OpField
<1> QED
  BY <1>1, <1>2, <1>3, <1>4, <1>5, <1>6

-----------------------------------------------------------------------------

(* An opcode without a row to which unknown words decode.                  *)
LEMMA UnknownHasNoType == Types[Db!Unknown] = NoType
<1>1. Db!Unknown \in Opcode
  BY DEF Db!Unknown, Opcode
<1>2. RowsOf[Db!Unknown] = <<>>
  BY TableAssumption, Zenon
<1> QED
  BY <1>1, <1>2, Zenon DEF Types

(* What a mask leaves has the same upper bits.                             *)
LEMMA MaskedField ==
  ASSUME NEW op \in Opcode
  PROVE  /\ OpField(Db!Masked(op, 7), 128) = OpField(op, 128)
         /\ OpField(Db!Masked(op, 4), 16) = OpField(op, 16)
         /\ OpField(Db!Masked(op, 3), 8) = OpField(op, 8)
         /\ OpField(Db!Masked(op, 2), 4) = OpField(op, 4)
         /\ OpField(Db!Masked(op, 1), 16) = OpField(op, 16)
<1>1. op \in Nat
  BY DEF Opcode
<1>2. /\ Db!Masked(op, 7) = op - (op % 128) /\ Db!Masked(op, 4) = op - (op % 16)
      /\ Db!Masked(op, 3) = op - (op % 8) /\ Db!Masked(op, 2) = op - (op % 4)
      /\ Db!Masked(op, 1) = op - (op % 2)
  <2>1. 2^7 = 128
    OBVIOUS
  <2>2. 2^4 = 16
    OBVIOUS
  <2>3. 2^3 = 8
    OBVIOUS
  <2>4. 2^2 = 4 /\ 2^1 = 2
    OBVIOUS
  <2> QED
    BY <2>1, <2>2, <2>3, <2>4, Zenon DEF Db!Masked
<1>3. (op - (op % 128)) \div 128 = op \div 128
  BY <1>1, SMT
<1>4. (op - (op % 16)) \div 16 = op \div 16
  BY <1>1, SMT
<1>5. (op - (op % 8)) \div 8 = op \div 8
  BY <1>1, SMT
<1>6. (op - (op % 4)) \div 4 = op \div 4
  BY <1>1, SMT
<1>7. (op - (op % 2)) \div 16 = op \div 16
  BY <1>1, SMT
<1> QED
  BY <1>2, <1>3, <1>4, <1>5, <1>6, <1>7, Zenon DEF OpField

(* The opcode found for a word has the bits of the word its format keeps.  *)
LEMMA DecodedField ==
  ASSUME NEW w \in Word, TypeOf(w) # NoType
  PROVE  /\ TypeOf(w) \in Format
         /\ TypeOf(w) \in {"RR", "RI7", "LBTI"} => OpcodeOf(w) = w.op
         /\ OpField(OpcodeOf(w), OpValues(TypeOf(w)))
              = OpField(w.op, OpValues(TypeOf(w)))
<1> DEFINE op == w.op
           a7 == Db!Masked(op, 7)
           a4 == Db!Masked(op, 4)
           a3 == Db!Masked(op, 3)
           a2 == Db!Masked(op, 2)
           a1 == Db!Masked(op, 1)
           o == OpcodeOf(w)
           v == OpValues(Types[o])
<1>1. op \in Opcode
  BY DEF Opcode, Word
<1>2. o = Db!Lookup(Types, op)
  BY <1>1 DEF OpcodeOf, Decoded
<1>3. Types[o] # NoType
  BY DEF TypeOf
<1>4. o # Db!Unknown
  BY <1>3, UnknownHasNoType
<1>5. /\ OpField(a7, 128) = OpField(op, 128) /\ OpField(a4, 16) = OpField(op, 16)
      /\ OpField(a3, 8) = OpField(op, 8) /\ OpField(a2, 4) = OpField(op, 4)
      /\ OpField(a1, 16) = OpField(op, 16)
  BY <1>1, MaskedField
<1>6. \/ o = op
      \/ o = a7 /\ Types[o] = "RRR"
      \/ o = a4 /\ Types[o] \in {"RI18", "LBT"}
      \/ o = a3 /\ Types[o] = "RI10"
      \/ o = a2 /\ Types[o] = "RI16"
      \/ o = a1 /\ Types[o] = "RI18"
  <2> HIDE DEF o
  <2> QED
    BY <1>2, <1>4 DEF Db!Lookup
<1> HIDE DEF op, a7, a4, a3, a2, a1, o
<1>7. OpField(o, v) = OpField(op, v)
  BY <1>5, <1>6 DEF OpValues
<1>8. Types[o] \in Format
  <2>1. o = op => Types[o] \in Format
    <3> SUFFICES ASSUME o = op PROVE Types[op] \in Format
      OBVIOUS
    <3>1. RowsOf[op] # <<>> /\ Types[op] = Last(RowsOf[op]).format
      BY <1>1, <1>3, Zenon DEF Types
    <3>2. Mnemonics[op] = <<Types[op], op>> /\ Mnemonics[op] \in Format \X Opcode
      BY <1>1, <3>1, TableAssumption DEF Mnemonics
    <3> QED
      BY <3>2
  <2>2. /\ "RRR" \in Format /\ "RI18" \in Format /\ "LBT" \in Format
        /\ "RI10" \in Format /\ "RI16" \in Format
    BY DEF Format
  <2> QED
    BY <1>6, <2>1, <2>2
<1>9. Types[o] \in {"RR", "RI7", "LBTI"} => o = op
  BY <1>6
<1> QED
  BY <1>7, <1>8, <1>9 DEF o, op, v, TypeOf

-----------------------------------------------------------------------------

(* A word and its digits. *)
LEMMA Digits ==
  ASSUME NEW w \in Word
  PROVE  /\ w.op \in Nat /\ w.op < 2048 /\ w.b \in Nat /\ w.b < 128
         /\ w.a \in Nat /\ w.a < 128 /\ w.t \in Nat /\ w.t < 128
<1> DEFINE op == w.op
           b == w.b
           a == w.a
           t == w.t
<1>1. op \in 0 .. 2047 /\ b \in 0 .. 127 /\ a \in 0 .. 127 /\ t \in 0 .. 127
  BY DEF Word
<1> HIDE DEF op, b, a, t
<1>2. /\ op \in Nat /\ op < 2048 /\ b \in Nat /\ b < 128
      /\ a \in Nat /\ a < 128 /\ t \in Nat /\ t < 128
  BY <1>1
<1> QED
  BY <1>2 DEF op, b, a, t

(* A word is put together from its four parts.                             *)
LEMMA WholeWord ==
  ASSUME NEW w \in Word
  PROVE  /\ w = WordOf(w.op, w.b, w.a, w.t)
         /\ [w EXCEPT !.b = @ % 4] = WordOf(w.op, w.b % 4, w.a, w.t)
<1>1. w = WordOf(w.op, w.b, w.a, w.t)
  BY DEF Word, WordOf
<1>2. [w EXCEPT !.b = @ % 4] = WordOf(w.op, w.b % 4, w.a, w.t)
  BY DEF Word, WordOf
<1> QED
  BY <1>1, <1>2

(* A digit cut to seven bits is the digit. *)
LEMMA CutDigit ==
  ASSUME NEW x \in Nat, x < 128
  PROVE  Cut(x, 128) = x
  BY SMT DEF Cut

(* The immediates of a word are numbers of their width. *)
LEMMA Fields ==
  ASSUME NEW w \in Word
  PROVE  /\ I8(w) \in Nat /\ I8(w) < 256
         /\ I10(w) \in Nat /\ I10(w) < 1024
         /\ I16(w) \in Nat /\ I16(w) < 65536
         /\ I18(w) \in Nat /\ I18(w) < 262144
<1> DEFINE op == w.op
           b == w.b
           a == w.a
<1>1. /\ op \in Nat /\ b \in Nat /\ b < 128 /\ a \in Nat /\ a < 128
  BY Digits
<1> HIDE DEF op, b, a
<1>2. (op % 2) * 128 + b \in Nat /\ (op % 2) * 128 + b < 256
  BY <1>1, SMT
<1>3. (op % 8) * 128 + b \in Nat /\ (op % 8) * 128 + b < 1024
  BY <1>1, SMT
<1>4. /\ (op % 4) * 16384 + b * 128 + a \in Nat
      /\ (op % 4) * 16384 + b * 128 + a < 65536
  BY <1>1, SMT
<1>5. /\ (op % 16) * 16384 + b * 128 + a \in Nat
      /\ (op % 16) * 16384 + b * 128 + a < 262144
  BY <1>1, SMT
<1> QED
  BY <1>2, <1>3, <1>4, <1>5, SMT DEF op, a, b, I8, I10, I16, I18

(* What the fields are, digit by digit. *)
LEMMA FieldDigits ==
  ASSUME NEW w \in Word
  PROVE  /\ I8(w) \div 128 = w.op % 2 /\ I8(w) % 128 = w.b
         /\ I10(w) \div 128 = w.op % 8 /\ I10(w) % 128 = w.b
         /\ I16(w) \div 16384 = w.op % 4 /\ (I16(w) % 16384) \div 128 = w.b
         /\ I16(w) % 128 = w.a
         /\ I18(w) \div 16384 = w.op % 16 /\ (I18(w) % 16384) \div 128 = w.b
         /\ I18(w) % 128 = w.a
<1> DEFINE h2 == w.op % 2
           h4 == w.op % 4
           h8 == w.op % 8
           h16 == w.op % 16
           b == w.b
           a == w.a
<1>1. w.op \in Nat /\ b \in Nat /\ b < 128 /\ a \in Nat /\ a < 128
  BY Digits
<1>2. h2 \in Nat /\ h4 \in Nat /\ h8 \in Nat /\ h16 \in Nat
  BY <1>1, SMT
<1>3. /\ I8(w) = h2 * 128 + b /\ I10(w) = h8 * 128 + b
      /\ I16(w) = h4 * 16384 + b * 128 + a /\ I18(w) = h16 * 16384 + b * 128 + a
  BY DEF I8, I10, I16, I18
<1> HIDE DEF h2, h4, h8, h16, b, a
<1>4. I8(w) \div 128 = h2 /\ I8(w) % 128 = b
  BY <1>1, <1>2, <1>3, TwoDigits
<1>5. I10(w) \div 128 = h8 /\ I10(w) % 128 = b
  BY <1>1, <1>2, <1>3, TwoDigits
<1>6. /\ I16(w) \div 16384 = h4 /\ (I16(w) % 16384) \div 128 = b
      /\ I16(w) % 128 = a
  BY <1>1, <1>2, <1>3, ThreeDigits
<1>7. /\ I18(w) \div 16384 = h16 /\ (I18(w) % 16384) \div 128 = b
      /\ I18(w) % 128 = a
  BY <1>1, <1>2, <1>3, ThreeDigits
<1> QED
  BY <1>4, <1>5, <1>6, <1>7 DEF h2, h4, h8, h16, b, a

(* The word is put together again from its operands, format by format.     *)
LEMMA RepacksRRR ==
  ASSUME NEW w \in Word, NEW o, OpField(o, 128) = OpField(w.op, 128)
  PROVE  Used("RRR", w) = Repacked(o, "RRR", Components("RRR", w))
<1> DEFINE c == Components("RRR", w)
<1>1. /\ w.op \in Nat /\ w.b \in Nat /\ w.b < 128 /\ w.a \in Nat /\ w.a < 128
      /\ w.t \in Nat /\ w.t < 128
  BY Digits
<1>2. Cut(w.b, 128) = w.b /\ Cut(w.a, 128) = w.a /\ Cut(w.t, 128) = w.t
  BY <1>1, CutDigit
<1>3. w = WordOf(w.op, w.b, w.a, w.t)
  BY WholeWord, Zenon
<1>4. c.RT = UpperRT(w) /\ c.RA = w.a /\ c.RB = w.b /\ c.RC = w.t
  BY DEF Components, Operands
<1>5. UpperRT(w) \in Nat /\ UpperRT(w) < 128
  BY <1>1, SMT DEF UpperRT
<1>6. Cut(UpperRT(w), 128) = UpperRT(w) /\ OpField(o, 128) + UpperRT(w) = w.op
  <2>1. OpField(w.op, 128) + (w.op % 128) = w.op
    BY <1>1, OpcodeBits, Zenon
  <2>2. Cut(UpperRT(w), 128) = UpperRT(w)
    BY <1>5, CutDigit
  <2> QED
    BY <2>1, <2>2, Zenon DEF UpperRT
<1>7. Repacked(o, "RRR", c) = PackRRR(o, c.RT, c.RA, c.RB, c.RC)
  BY DEF Repacked
<1> HIDE DEF c
<1>8. PackRRR(o, c.RT, c.RA, c.RB, c.RC) = WordOf(w.op, w.b, w.a, w.t)
  BY <1>2, <1>4, <1>6 DEF PackRRR
<1>9. Used("RRR", w) = w
  BY DEF Used
<1> QED
  BY <1>3, <1>7, <1>8, <1>9 DEF c

(* Packing the components of an RR word gives back the bits the format     *)
(* uses.                                                                   *)
LEMMA RepacksRR ==
  ASSUME NEW w \in Word, NEW o, o = w.op
  PROVE  Used("RR", w) = Repacked(o, "RR", Components("RR", w))
<1> DEFINE c == Components("RR", w)
<1>1. /\ w.op \in Nat /\ w.b \in Nat /\ w.b < 128 /\ w.a \in Nat /\ w.a < 128
      /\ w.t \in Nat /\ w.t < 128
  BY Digits
<1>2. Cut(w.b, 128) = w.b /\ Cut(w.a, 128) = w.a /\ Cut(w.t, 128) = w.t
  BY <1>1, CutDigit
<1>3. w = WordOf(w.op, w.b, w.a, w.t)
  BY WholeWord, Zenon
<1>4. c.RT = w.t /\ c.RA = w.a /\ c.RB = w.b
  BY DEF Components, Operands
<1>7. Repacked(o, "RR", c) = PackRR(o, c.RT, c.RA, c.RB)
  BY DEF Repacked
<1> HIDE DEF c
<1>8. PackRR(o, c.RT, c.RA, c.RB) = WordOf(w.op, w.b, w.a, w.t)
  BY <1>2, <1>4 DEF PackRR
<1>9. Used("RR", w) = w
  BY DEF Used
<1> QED
  BY <1>3, <1>7, <1>8, <1>9 DEF c

(* The same of RI7 words.                                                  *)
LEMMA RepacksRI7 ==
  ASSUME NEW w \in Word, NEW o, o = w.op
  PROVE  Used("RI7", w) = Repacked(o, "RI7", Components("RI7", w))
<1> DEFINE c == Components("RI7", w)
<1>1. /\ w.op \in Nat /\ w.b \in Nat /\ w.b < 128 /\ w.a \in Nat /\ w.a < 128
      /\ w.t \in Nat /\ w.t < 128
  BY Digits
<1>2. Cut(w.b, 128) = w.b /\ Cut(w.a, 128) = w.a /\ Cut(w.t, 128) = w.t
  BY <1>1, CutDigit
<1>3. w = WordOf(w.op, w.b, w.a, w.t)
  BY WholeWord, Zenon
<1>4. c.RT = w.t /\ c.RA = w.a /\ c.IMM = SignExtend(w.b, 128)
  BY DEF Components, Operands
<1>5. Cut(c.IMM, 128) = w.b
  BY <1>1, <1>4, Signed7
<1>7. Repacked(o, "RI7", c) = PackRI7(o, c.RT, c.RA, c.IMM)
  BY DEF Repacked
<1> HIDE DEF c
<1>8. PackRI7(o, c.RT, c.RA, c.IMM) = WordOf(w.op, w.b, w.a, w.t)
  BY <1>2, <1>4, <1>5 DEF PackRI7, PackRR
<1>9. Used("RI7", w) = w
  BY DEF Used
<1> QED
  BY <1>3, <1>7, <1>8, <1>9 DEF c

(* The same of RI8 words, whose opcode the table finds by its upper bits.  *)
LEMMA RepacksRI8 ==
  ASSUME NEW w \in Word, NEW o, OpField(o, 2) = OpField(w.op, 2)
  PROVE  Used("RI8", w) = Repacked(o, "RI8", Components("RI8", w))
<1> DEFINE c == Components("RI8", w)
<1>1. /\ w.op \in Nat /\ w.b \in Nat /\ w.b < 128 /\ w.a \in Nat /\ w.a < 128
      /\ w.t \in Nat /\ w.t < 128
  BY Digits
<1>2. Cut(w.b, 128) = w.b /\ Cut(w.a, 128) = w.a /\ Cut(w.t, 128) = w.t
  BY <1>1, CutDigit
<1>3. w = WordOf(w.op, w.b, w.a, w.t)
  BY WholeWord, Zenon
<1>4. c.RT = w.t /\ c.RA = w.a /\ c.IMM = SignExtend(I8(w), 256)
  BY DEF Components, Operands
<1>5. Cut(c.IMM, 256) \div 128 = w.op % 2 /\ Cut(c.IMM, 128) = w.b
  BY <1>4, Fields, FieldDigits, Signed8
<1>6. OpField(o, 2) + Cut(c.IMM, 256) \div 128 = w.op
  <2>1. OpField(w.op, 2) + (w.op % 2) = w.op
    BY <1>1, OpcodeBits, Zenon
  <2> QED
    BY <1>5, <2>1, Zenon
<1>7. Repacked(o, "RI8", c) = PackRI8(o, c.RT, c.RA, c.IMM)
  BY DEF Repacked
<1> HIDE DEF c
<1>8. PackRI8(o, c.RT, c.RA, c.IMM) = WordOf(w.op, w.b, w.a, w.t)
  BY <1>2, <1>4, <1>5, <1>6 DEF PackRI8
<1>9. Used("RI8", w) = w
  BY DEF Used
<1> QED
  BY <1>3, <1>7, <1>8, <1>9 DEF c

(* The same of RI10 words.                                                 *)
LEMMA RepacksRI10 ==
  ASSUME NEW w \in Word, NEW o, OpField(o, 8) = OpField(w.op, 8)
  PROVE  Used("RI10", w) = Repacked(o, "RI10", Components("RI10", w))
<1> DEFINE c == Components("RI10", w)
<1>1. /\ w.op \in Nat /\ w.b \in Nat /\ w.b < 128 /\ w.a \in Nat /\ w.a < 128
      /\ w.t \in Nat /\ w.t < 128
  BY Digits
<1>2. Cut(w.b, 128) = w.b /\ Cut(w.a, 128) = w.a /\ Cut(w.t, 128) = w.t
  BY <1>1, CutDigit
<1>3. w = WordOf(w.op, w.b, w.a, w.t)
  BY WholeWord, Zenon
<1>4. c.RT = w.t /\ c.RA = w.a /\ c.IMM = SignExtend(I10(w), 1024)
  BY DEF Components, Operands
<1>5. Cut(c.IMM, 1024) \div 128 = w.op % 8 /\ Cut(c.IMM, 128) = w.b
  BY <1>4, Fields, FieldDigits, Signed10
<1>6. OpField(o, 8) + Cut(c.IMM, 1024) \div 128 = w.op
  <2> DEFINE x == Cut(c.IMM, 1024) \div 128
             r == w.op % 8
             f == OpField(w.op, 8)
             g == OpField(o, 8)
  <2>1. f + r = w.op
    BY <1>1, OpcodeBits, Zenon
  <2>2. x = r /\ g = f
    BY <1>5
  <2> HIDE DEF x, r, f, g
  <2>3. g + x = w.op
    BY <2>1, <2>2
  <2> QED
    BY <2>3 DEF g, x
<1>7. Repacked(o, "RI10", c) = PackRI10(o, c.RT, c.RA, c.IMM)
  BY DEF Repacked
<1> HIDE DEF c
<1>8. PackRI10(o, c.RT, c.RA, c.IMM) = WordOf(w.op, w.b, w.a, w.t)
  BY <1>2, <1>4, <1>5, <1>6 DEF PackRI10
<1>9. Used("RI10", w) = w
  BY DEF Used
<1> QED
  BY <1>3, <1>7, <1>8, <1>9 DEF c

(* The same of RI16 words.                                                 *)
LEMMA RepacksRI16 ==
  ASSUME NEW w \in Word, NEW o, OpField(o, 4) = OpField(w.op, 4)
  PROVE  Used("RI16", w) = Repacked(o, "RI16", Components("RI16", w))
<1> DEFINE c == Components("RI16", w)
<1>1. /\ w.op \in Nat /\ w.b \in Nat /\ w.b < 128 /\ w.a \in Nat /\ w.a < 128
      /\ w.t \in Nat /\ w.t < 128
  BY Digits
<1>2. Cut(w.b, 128) = w.b /\ Cut(w.a, 128) = w.a /\ Cut(w.t, 128) = w.t
  BY <1>1, CutDigit
<1>3. w = WordOf(w.op, w.b, w.a, w.t)
  BY WholeWord, Zenon
<1>4. c.RT = w.t /\ c.IMM = SignExtend(I16(w), 65536)
  BY DEF Components, Operands
<1>5. /\ Cut(c.IMM, 65536) \div 16384 = w.op % 4
      /\ Cut(c.IMM, 16384) \div 128 = w.b /\ Cut(c.IMM, 128) = w.a
  <2>1. I16(w) \in Nat /\ I16(w) < 65536
    BY Fields
  <2>2. /\ Cut(c.IMM, 65536) = I16(w) /\ Cut(c.IMM, 16384) = I16(w) % 16384
        /\ Cut(c.IMM, 128) = I16(w) % 128
    BY <1>4, <2>1, Signed16
  <2> QED
    BY <2>2, FieldDigits
<1>6. OpField(o, 4) + Cut(c.IMM, 65536) \div 16384 = w.op
  <2> DEFINE x == Cut(c.IMM, 65536) \div 16384
             r == w.op % 4
             f == OpField(w.op, 4)
             g == OpField(o, 4)
  <2>1. f + r = w.op
    BY <1>1, OpcodeBits, Zenon
  <2>2. x = r /\ g = f
    BY <1>5
  <2> HIDE DEF x, r, f, g
  <2>3. g + x = w.op
    BY <2>1, <2>2
  <2> QED
    BY <2>3 DEF g, x
<1>7. Repacked(o, "RI16", c) = PackRI16(o, c.RT, c.IMM)
  BY DEF Repacked
<1> HIDE DEF c
<1>8. PackRI16(o, c.RT, c.IMM) = WordOf(w.op, w.b, w.a, w.t)
  BY <1>2, <1>4, <1>5, <1>6 DEF PackRI16
<1>9. Used("RI16", w) = w
  BY DEF Used
<1> QED
  BY <1>3, <1>7, <1>8, <1>9 DEF c

(* The same of RI18 words.                                                 *)
LEMMA RepacksRI18 ==
  ASSUME NEW w \in Word, NEW o, OpField(o, 16) = OpField(w.op, 16)
  PROVE  Used("RI18", w) = Repacked(o, "RI18", Components("RI18", w))
<1> DEFINE c == Components("RI18", w)
<1>1. /\ w.op \in Nat /\ w.b \in Nat /\ w.b < 128 /\ w.a \in Nat /\ w.a < 128
      /\ w.t \in Nat /\ w.t < 128
  BY Digits
<1>2. Cut(w.b, 128) = w.b /\ Cut(w.a, 128) = w.a /\ Cut(w.t, 128) = w.t
  BY <1>1, CutDigit
<1>3. w = WordOf(w.op, w.b, w.a, w.t)
  BY WholeWord, Zenon
<1>4. c.RT = w.t /\ c.IMM = SignExtend(I18(w), 262144)
  BY DEF Components, Operands
<1>5. /\ Cut(c.IMM, 262144) \div 16384 = w.op % 16
      /\ Cut(c.IMM, 16384) \div 128 = w.b /\ Cut(c.IMM, 128) = w.a
  <2>1. I18(w) \in Nat /\ I18(w) < 262144
    BY Fields
  <2>2. /\ Cut(c.IMM, 262144) = I18(w) /\ Cut(c.IMM, 16384) = I18(w) % 16384
        /\ Cut(c.IMM, 128) = I18(w) % 128
    BY <1>4, <2>1, Signed18
  <2> QED
    BY <2>2, FieldDigits
<1>6. OpField(o, 16) + Cut(c.IMM, 262144) \div 16384 = w.op
  <2> DEFINE x == Cut(c.IMM, 262144) \div 16384
             r == w.op % 16
             f == OpField(w.op, 16)
             g == OpField(o, 16)
  <2>1. f + r = w.op
    BY <1>1, OpcodeBits, Zenon
  <2>2. x = r /\ g = f
    BY <1>5
  <2> HIDE DEF x, r, f, g
  <2>3. g + x = w.op
    BY <2>1, <2>2
  <2> QED
    BY <2>3 DEF g, x
<1>7. Repacked(o, "RI18", c) = PackRI18(o, c.RT, c.IMM)
  BY DEF Repacked
<1> HIDE DEF c
<1>8. PackRI18(o, c.RT, c.IMM) = WordOf(w.op, w.b, w.a, w.t)
  BY <1>2, <1>4, <1>5, <1>6 DEF PackRI18
<1>9. Used("RI18", w) = w
  BY DEF Used
<1> QED
  BY <1>3, <1>7, <1>8, <1>9 DEF c

(* The same of hints with a register.                                      *)
LEMMA RepacksLBT ==
  ASSUME NEW w \in Word, NEW o, OpField(o, 16) = OpField(w.op, 16)
  PROVE  Used("LBT", w) = Repacked(o, "LBT", Components("LBT", w))
<1> DEFINE c == Components("LBT", w)
<1>1. /\ w.op \in Nat /\ w.b \in Nat /\ w.b < 128 /\ w.a \in Nat /\ w.a < 128
      /\ w.t \in Nat /\ w.t < 128
  BY Digits
<1>2. Cut(w.b, 128) = w.b /\ Cut(w.a, 128) = w.a /\ Cut(w.t, 128) = w.t
  BY <1>1, CutDigit
<1>3. w = WordOf(w.op, w.b, w.a, w.t)
  BY WholeWord, Zenon
<1>4. /\ c.IMM = HintOffset(UpperROH(w), w.t)
      /\ c.BRTARG = SignExtend(I16(w), 65536)
  BY DEF Components, Operands
<1>5. /\ Cut(c.IMM, 512) \div 128 = UpperROH(w) /\ Cut(c.IMM, 128) = w.t
      /\ Cut(c.BRTARG, 65536) \div 16384 = w.op % 4
      /\ Cut(c.BRTARG, 16384) \div 128 = w.b /\ Cut(c.BRTARG, 128) = w.a
  <2>1. UpperROH(w) \in Nat /\ UpperROH(w) < 4
    BY <1>1, SMT DEF UpperROH
  <2>2. Cut(c.IMM, 512) \div 128 = UpperROH(w) /\ Cut(c.IMM, 128) = w.t
    BY <1>1, <1>4, <2>1, Hint
  <2>3. I16(w) \in Nat /\ I16(w) < 65536
    BY Fields
  <2>4. /\ Cut(c.BRTARG, 65536) = I16(w)
        /\ Cut(c.BRTARG, 16384) = I16(w) % 16384
        /\ Cut(c.BRTARG, 128) = I16(w) % 128
    BY <1>4, <2>3, Signed16
  <2> QED
    BY <2>2, <2>4, FieldDigits
<1>6. OpField(o, 16) + 4 * (Cut(c.IMM, 512) \div 128)
        + Cut(c.BRTARG, 65536) \div 16384 = w.op
  <2> DEFINE x == Cut(c.IMM, 512) \div 128
             y == Cut(c.BRTARG, 65536) \div 16384
             h == (w.op \div 4) % 4
             r == w.op % 4
             f == OpField(w.op, 16)
             g == OpField(o, 16)
  <2>1. f + 4 * h + r = w.op
    BY <1>1, OpcodeBits, Zenon
  <2>2. x = h /\ y = r /\ g = f
    BY <1>5 DEF UpperROH
  <2> HIDE DEF x, y, h, r, f, g
  <2>3. g + 4 * x + y = w.op
    BY <2>1, <2>2
  <2> QED
    BY <2>3 DEF g, x, y
<1>7. Repacked(o, "LBT", c) = PackLBT(o, c.IMM, c.BRTARG)
  BY DEF Repacked
<1> HIDE DEF c
<1>8. PackLBT(o, c.IMM, c.BRTARG) = WordOf(w.op, w.b, w.a, w.t)
  BY <1>5, <1>6 DEF PackLBT
<1>9. Used("LBT", w) = w
  BY DEF Used
<1> QED
  BY <1>3, <1>7, <1>8, <1>9 DEF c

(* hbr has five bits that are none of the operands. *)
LEMMA RepacksLBTI ==
  ASSUME NEW w \in Word, NEW o, o = w.op
  PROVE  Used("LBTI", w) = Repacked(o, "LBTI", Components("LBTI", w))
<1> DEFINE c == Components("LBTI", w)
<1>1. /\ w.op \in Nat /\ w.b \in Nat /\ w.b < 128 /\ w.a \in Nat /\ w.a < 128
      /\ w.t \in Nat /\ w.t < 128
  BY Digits
<1>2. Cut(w.b, 128) = w.b /\ Cut(w.a, 128) = w.a /\ Cut(w.t, 128) = w.t
  BY <1>1, CutDigit
<1>3. [w EXCEPT !.b = @ % 4] = WordOf(w.op, w.b % 4, w.a, w.t)
  BY WholeWord, Zenon
<1>4. c.BRTARG = HintOffset(LowerROH(w), w.t) /\ c.RA = w.a
  BY DEF Components, Operands
<1>5. LowerROH(w) \in Nat /\ LowerROH(w) < 4
  BY <1>1, SMT DEF LowerROH
<1>6. Cut(c.BRTARG, 512) \div 128 = w.b % 4 /\ Cut(c.BRTARG, 128) = w.t
  BY <1>1, <1>4, <1>5, Hint DEF LowerROH
<1>7. Repacked(o, "LBTI", c) = PackLBTI(o, c.BRTARG, c.RA)
  BY DEF Repacked
<1> HIDE DEF c
<1>8. PackLBTI(o, c.BRTARG, c.RA) = WordOf(w.op, w.b % 4, w.a, w.t)
  BY <1>2, <1>4, <1>6 DEF PackLBTI
<1>9. Used("LBTI", w) = [w EXCEPT !.b = @ % 4]
  BY DEF Used
<1> QED
  BY <1>3, <1>7, <1>8, <1>9 DEF c

(* The components spu_decode_op_components returns for a word of any       *)
(* format, packed again, are the bits of the word the format uses.         *)
LEMMA Repacks ==
  ASSUME NEW w \in Word, TypeOf(w) # NoType
  PROVE  Used(TypeOf(w), w) = Repacked(OpcodeOf(w), TypeOf(w), ComponentsOf(w))
<1> DEFINE type == TypeOf(w)
           o == OpcodeOf(w)
<1>1. /\ OpField(o, OpValues(type)) = OpField(w.op, OpValues(type))
      /\ type \in Format
      /\ type \in {"RR", "RI7", "LBTI"} => o = w.op
  BY DecodedField
<1> HIDE DEF type, o
<1>2. Used(type, w) = Repacked(o, type, Components(type, w))
  <2>1. CASE type = "RRR"
    BY <1>1, <2>1, RepacksRRR DEF OpValues
  <2>2. CASE type = "RR"
    BY <1>1, <2>2, RepacksRR
  <2>3. CASE type = "RI7"
    BY <1>1, <2>3, RepacksRI7
  <2>4. CASE type = "RI8"
    BY <1>1, <2>4, RepacksRI8 DEF OpValues
  <2>5. CASE type = "RI10"
    BY <1>1, <2>5, RepacksRI10 DEF OpValues
  <2>6. CASE type = "RI16"
    BY <1>1, <2>6, RepacksRI16 DEF OpValues
  <2>7. CASE type = "RI18"
    BY <1>1, <2>7, RepacksRI18 DEF OpValues
  <2>8. CASE type = "LBT"
    BY <1>1, <2>8, RepacksLBT DEF OpValues
  <2>9. CASE type = "LBTI"
    BY <1>1, <2>9, RepacksLBTI
  <2> QED
    BY <1>1, <2>1, <2>2, <2>3, <2>4, <2>5, <2>6, <2>7, <2>8, <2>9 DEF Format
<1> QED
  BY <1>2 DEF type, o, ComponentsOf

(* Read as a signed number of nine bits the displacement of a hint is      *)
(* itself exactly when it is not negative.                                 *)
LEMMA HintSign ==
  ASSUME NEW w \in Word, NEW roh \in Nat, roh < 4
  PROVE  LET hint == HintOffset(roh, w.t)
         IN hint = SignExtend(Cut(hint, 512), 512) <=> Cut(hint, 512) < 256
<1>1. w.t \in Nat /\ w.t < 128
  BY Digits
<1>2. HintOffset(roh, w.t) \in Nat /\ HintOffset(roh, w.t) < 512
  BY <1>1, Hint
<1> QED
  BY <1>2, SignedHint

(* The offset of a hint is the signed one exactly when it is not negative: *)
(* the code never extends its sign.                                        *)
LEMMA HintsSigned ==
  ASSUME NEW w \in Word, NEW type \in {"LBT", "LBTI"}
  PROVE  LET c == Components(type, w)
             hint == IF type = "LBT" THEN c.IMM ELSE c.BRTARG
         IN hint = SignExtend(Cut(hint, 512), 512) <=> Cut(hint, 512) < 256
<1>1. w.op \in Nat /\ w.b \in Nat
  BY Digits
<1>2. CASE type = "LBT"
  <2>1. Components(type, w).IMM = HintOffset(UpperROH(w), w.t)
    BY <1>2 DEF Components, Operands
  <2>2. UpperROH(w) \in Nat /\ UpperROH(w) < 4
    BY <1>1, SMT DEF UpperROH
  <2> QED
    BY <1>2, <2>1, <2>2, HintSign
<1>3. CASE type = "LBTI"
  <2>1. Components(type, w).BRTARG = HintOffset(LowerROH(w), w.t)
    BY <1>3 DEF Components, Operands
  <2>2. LowerROH(w) \in Nat /\ LowerROH(w) < 4
    BY <1>1, SMT DEF LowerROH
  <2> QED
    BY <1>3, <2>1, <2>2, HintSign
<1> QED
  BY <1>2, <1>3

-----------------------------------------------------------------------------

(* What spu_decode_op_components returned are the components of the word   *)
(* it was given.                                                           *)
OfTheWord ==
  /\ word # None => word \in Words
  /\ components # None => word # None /\ components = ComponentsOf(word)

(* The components spu_decode_op_components returned belong to the word of  *)
(* the state, whatever else was called before and after.                   *)
THEOREM Invariance == Spec => []OfTheWord
<1>1. Init => OfTheWord
  BY DEF Init, OfTheWord
<1>2. OfTheWord /\ [Next]_vars => OfTheWord'
  <2> SUFFICES ASSUME OfTheWord, [Next]_vars PROVE OfTheWord'
    OBVIOUS
  <2>1. CASE spu_assemble
    BY <2>1 DEF spu_assemble, OfTheWord
  <2>2. CASE spu_disassemble
    BY <2>2 DEF spu_disassemble, OfTheWord
  <2>3. CASE spu_decode_op_components
    BY <2>3 DEF spu_decode_op_components, OfTheWord, ComponentsOf, TypeOf,
         OpcodeOf
  <2>4. CASE PrintPseudo
    BY <2>4 DEF PrintPseudo, OfTheWord
  <2>5. CASE UNCHANGED vars
    BY <2>5 DEF vars, OfTheWord
  <2> QED
    BY <2>1, <2>2, <2>3, <2>4, <2>5 DEF Next
<1> QED
  BY <1>1, <1>2, PTL DEF Spec

(* The operands spu_decode_op_components returns determine the word they   *)
(* were taken from, but for the bits hbr does not use, whatever word it    *)
(* is; the displacement of a hint is the signed one exactly when it is not *)
(* negative.                                                               *)
THEOREM ComponentsCorrect == Spec => []ComponentsAreTheWord
<1>1. OfTheWord => ComponentsAreTheWord
  <2> SUFFICES ASSUME OfTheWord, components # None
               PROVE  ComponentsAreTheWord
    BY DEF ComponentsAreTheWord
  <2> DEFINE type == TypeOf(word)
  <2>1. word \in Word /\ components = Components(type, word)
    BY WordsAssumption DEF OfTheWord, ComponentsOf
  <2>2. type # NoType =>
          Used(type, word) = Repacked(OpcodeOf(word), type, components)
    BY <2>1, Repacks DEF ComponentsOf
  <2> HIDE DEF type
  <2>3. type \in {"LBT", "LBTI"} =>
          LET hint == IF type = "LBT" THEN components.IMM ELSE components.BRTARG
          IN hint = SignExtend(Cut(hint, 512), 512) <=> Cut(hint, 512) < 256
    BY <2>1, HintsSigned
  <2> QED
    BY <2>2, <2>3 DEF ComponentsAreTheWord, type, TypeOf, OpcodeOf
<1> QED
  BY <1>1, Invariance, PTL

-----------------------------------------------------------------------------

(* One turn of the recursion by which a fold over the positions D is       *)
(* defined, for the values iter of the smaller sets.                       *)
Turn(iter, b, list, D) ==
  [s \in SUBSET D |->
     IF s = {} THEN b ELSE ReadArgument(iter[s \ {Max(s)}], list[Max(s)])]

(* Max of at most four positions is the greatest of them.                  *)
LEMMA MaxOf ==
  ASSUME NEW s \in SUBSET (1 .. 4), s # {}
  PROVE  Max(s) \in s /\ \A y \in s : y <= Max(s)
<1>1. \E x \in s : \A y \in s : x >= y
  <2>1. CASE 4 \in s
    BY <2>1
  <2>2. CASE 4 \notin s /\ 3 \in s
    BY <2>2
  <2>3. CASE 4 \notin s /\ 3 \notin s /\ 2 \in s
    BY <2>3
  <2>4. CASE 4 \notin s /\ 3 \notin s /\ 2 \notin s
    <3>1. \A y \in s : y = 1
      BY <2>4
    <3>2. 1 \in s
      BY <3>1
    <3> QED
      BY <3>1, <3>2
  <2> QED
    BY <2>1, <2>2, <2>3, <2>4
<1>2. Max(s) \in s /\ \A y \in s : Max(s) >= y
  BY <1>1, Zenon DEF Max
<1> QED
  BY <1>2

(* The first n positions end with n, and without it are the first n - 1.   *)
LEMMA MaxOfFirst ==
  ASSUME NEW n \in 1 .. 4
  PROVE  Max(1 .. n) = n /\ (1 .. n) \ {n} = 1 .. n - 1
<1>1. 1 .. n \in SUBSET (1 .. 4) /\ 1 .. n # {}
  OBVIOUS
<1>2. Max(1 .. n) \in 1 .. n /\ \A y \in 1 .. n : y <= Max(1 .. n)
  BY <1>1, MaxOf
<1> QED
  BY <1>2

AgreeWithin(F, G, n, k) ==
  \A s \in SUBSET (1 .. n) : s \subseteq 1 .. k => F[s] = G[s]

(* Functions that agree on the sets within 1 .. k agree on those within    *)
(* 1 .. k + 1 after a turn.                                                *)
LEMMA TurnAgrees ==
  ASSUME NEW b, NEW list, NEW n \in 0 .. 4, NEW k \in Nat, NEW F, NEW G,
         AgreeWithin(F, G, n, k)
  PROVE  AgreeWithin(Turn(F, b, list, 1 .. n), Turn(G, b, list, 1 .. n), n, k + 1)
<1> SUFFICES ASSUME NEW s \in SUBSET (1 .. n), s \subseteq 1 .. k + 1, s # {}
             PROVE  F[s \ {Max(s)}] = G[s \ {Max(s)}]
  BY Zenon DEF Turn, AgreeWithin
<1>1. s \in SUBSET (1 .. 4)
  OBVIOUS
<1>2. Max(s) \in s /\ \A y \in s : y <= Max(s)
  BY <1>1, MaxOf
<1> DEFINE m == Max(s)
<1> HIDE DEF m
<1>3. s \ {m} \subseteq 1 .. k /\ s \ {m} \in SUBSET (1 .. n)
  <2>1. ASSUME NEW y \in s \ {m} PROVE y \in 1 .. k
    <3>1. m \in s /\ y <= m /\ y # m
      BY <1>2, <2>1 DEF m
    <3> QED
      BY <3>1
  <2> QED
    BY <2>1
<1> QED
  BY <1>3 DEF m, AgreeWithin

(* The recursion over at most four positions has a solution: five turns    *)
(* from nothing settle it.                                                 *)
LEMMA FoldExists ==
  ASSUME NEW b, NEW list, NEW n \in 0 .. 4
  PROVE  \E iter : iter = Turn(iter, b, list, 1 .. n)
<1> DEFINE F0 == Turn(<<>>, b, list, 1 .. n)
           F1 == Turn(F0, b, list, 1 .. n)
           F2 == Turn(F1, b, list, 1 .. n)
           F3 == Turn(F2, b, list, 1 .. n)
           F4 == Turn(F3, b, list, 1 .. n)
           F5 == Turn(F4, b, list, 1 .. n)
           Agree(F, G, k) == AgreeWithin(F, G, n, k)
<1>1. Agree(F0, F1, 0)
  <2>1. \A s \in SUBSET (1 .. n) : s \subseteq 1 .. 0 => s = {}
    OBVIOUS
  <2> QED
    BY <2>1, Zenon DEF Turn, AgreeWithin
<1>2. ASSUME NEW k \in Nat, NEW F, NEW G, Agree(F, G, k)
      PROVE  Agree(Turn(F, b, list, 1 .. n), Turn(G, b, list, 1 .. n), k + 1)
  BY <1>2, TurnAgrees, Zenon
<1> HIDE DEF Agree
<1>3. Agree(F1, F2, 0 + 1)
  BY <1>1, <1>2
<1>4. Agree(F2, F3, 0 + 1 + 1)
  BY <1>2, <1>3
<1>5. Agree(F3, F4, 0 + 1 + 1 + 1)
  BY <1>2, <1>4
<1>6. Agree(F4, F5, 0 + 1 + 1 + 1 + 1)
  BY <1>2, <1>5
<1>7. F4 = F5
  <2>1. \A s \in SUBSET (1 .. n) : F4[s] = F5[s]
    BY <1>6 DEF Agree, AgreeWithin
  <2>2. ASSUME NEW F
        PROVE  LET G == Turn(F, b, list, 1 .. n)
               IN G = [s \in SUBSET (1 .. n) |-> G[s]]
    BY SMT DEF Turn
  <2>3. /\ F4 = [s \in SUBSET (1 .. n) |-> F4[s]]
        /\ F5 = [s \in SUBSET (1 .. n) |-> F5[s]]
    BY <2>2
  <2> HIDE DEF F4, F5
  <2> QED
    BY <2>1, <2>3, Zenon
<1> QED
  BY <1>7, Zenon

(* The state after the first n arguments of a list. *)
LEMMA FoldValue ==
  ASSUME NEW b, NEW list \in Seq(Nat), Len(list) \in 0 .. 4
  PROVE  LET n == Len(list)
             s0 == b
             s1 == ReadArgument(s0, list[1])
             s2 == ReadArgument(s1, list[2])
             s3 == ReadArgument(s2, list[3])
             s4 == ReadArgument(s3, list[4])
             r == FoldLeft(ReadArgument, b, list)
         IN /\ n = 0 => r = s0
            /\ n = 1 => r = s1
            /\ n = 2 => r = s2
            /\ n = 3 => r = s3
            /\ n = 4 => r = s4
<1> DEFINE n == Len(list)
           iter == CHOOSE iter : iter = Turn(iter, b, list, 1 .. n)
<1>1. DOMAIN list = 1 .. n
  OBVIOUS
<1>2. FoldLeft(ReadArgument, b, list) = iter[1 .. n]
  BY <1>1, Zenon DEF FoldLeft, MapThenFoldSet, Turn
<1>4. n \in 0 .. 4
  OBVIOUS
<1>3. iter = Turn(iter, b, list, 1 .. n)
  BY <1>4, FoldExists, Zenon
<1> HIDE DEF iter, n
<1>11. ASSUME NEW s \in SUBSET (1 .. n)
       PROVE  iter[s] = IF s = {} THEN b
                        ELSE ReadArgument(iter[s \ {Max(s)}], list[Max(s)])
  <2> DEFINE turned == Turn(iter, b, list, 1 .. n)
  <2>1. turned[s] = IF s = {} THEN b
                    ELSE ReadArgument(iter[s \ {Max(s)}], list[Max(s)])
    BY Zenon DEF Turn
  <2> HIDE DEF turned
  <2>2. iter[s] = turned[s]
    BY <1>3 DEF turned
  <2> QED
    BY <2>1, <2>2
<1>5. iter[1 .. 0] = b
  <2>1. 1 .. 0 = {} /\ {} \in SUBSET (1 .. n)
    OBVIOUS
  <2> QED
    BY <1>11, <2>1, Zenon
<1>6. ASSUME NEW m \in 1 .. 4, m <= n
      PROVE  iter[1 .. m] = ReadArgument(iter[1 .. m - 1], list[m])
  <2>1. 1 .. m # {} /\ 1 .. m \in SUBSET (1 .. n)
    <3>1. 1 \in 1 .. m
      OBVIOUS
    <3>2. \A x \in 1 .. m : x \in 1 .. n
      BY <1>4, <1>6
    <3> QED
      BY <3>1, <3>2
  <2>2. Max(1 .. m) = m /\ (1 .. m) \ {Max(1 .. m)} = 1 .. m - 1
    BY MaxOfFirst
  <2>3. iter[1 .. m]
          = ReadArgument(iter[(1 .. m) \ {Max(1 .. m)}], list[Max(1 .. m)])
    BY <1>11, <2>1, Zenon
  <2> QED
    BY <2>2, <2>3
<1>7. 1 <= n => iter[1 .. 1] = ReadArgument(b, list[1])
  BY <1>5, <1>6
<1>8. 2 <= n => iter[1 .. 2] = ReadArgument(iter[1 .. 1], list[2])
  BY <1>6
<1>9. 3 <= n => iter[1 .. 3] = ReadArgument(iter[1 .. 2], list[3])
  BY <1>6
<1>10. 4 <= n => iter[1 .. 4] = ReadArgument(iter[1 .. 3], list[4])
  BY <1>6
<1> HIDE DEF iter
<1> QED
  BY <1>2, <1>4, <1>5, <1>7, <1>8, <1>9, <1>10 DEF n

-----------------------------------------------------------------------------

(* The first token of a name. *)
IsFirst(tokens, name, i) ==
  /\ tokens[i].name = name
  /\ \A j \in 1 .. i - 1 : tokens[j].name # name

(* At most four positions have a least one.                                *)
LEMMA MinOf ==
  ASSUME NEW s \in SUBSET (1 .. 4), s # {}
  PROVE  \E x \in s : \A y \in s : x <= y
<1>1. CASE 1 \in s
  BY <1>1
<1>2. CASE 1 \notin s /\ 2 \in s
  BY <1>2
<1>3. CASE 1 \notin s /\ 2 \notin s /\ 3 \in s
  BY <1>3
<1>4. CASE 1 \notin s /\ 2 \notin s /\ 3 \notin s
  <2>1. \A y \in s : y = 4
    BY <1>4
  <2>2. 4 \in s
    BY <2>1
  <2> QED
    BY <2>1, <2>2
<1> QED
  BY <1>1, <1>2, <1>3, <1>4

(* The positions of a line of at most four tokens.                         *)
LEMMA Lengths ==
  ASSUME NEW S, NEW s \in Seq(S), Len(s) <= 4
  PROVE  Len(s) \in 0 .. 4 /\ DOMAIN s = 1 .. Len(s)
<1> DEFINE n == Len(s)
<1>1. n \in Nat /\ DOMAIN s = 1 .. n
  OBVIOUS
<1>2. n <= 4
  OBVIOUS
<1> HIDE DEF n
<1>3. n \in 0 .. 4
  BY <1>1, <1>2
<1> QED
  BY <1>1, <1>3 DEF n

(* c is tokens with a number for the first token of a name. *)
IsReplaced(c, tokens, name, number) ==
  /\ c \in Seq(Token) /\ Len(c) = Len(tokens)
  /\ \A i \in 1 .. Len(tokens) :
       c[i] = IF IsFirst(tokens, name, i) THEN Num(number) ELSE tokens[i]

(* spu_preprocess_resolve_aliases replaces the first occurrence of an      *)
(* alias and no other.                                                     *)
LEMMA FirstReplaced ==
  ASSUME NEW tokens \in Seq(Token), Len(tokens) <= 4,
         NEW name \in {"LR", "SP"}, NEW number \in Int
  PROVE  IsReplaced(ReplaceFirst(tokens, name, number), tokens, name, number)
<1> DEFINE n == Len(tokens)
<1>1. n \in 0 .. 4 /\ DOMAIN tokens = 1 .. n
  BY Lengths
<1> DEFINE at == {i \in DOMAIN tokens : tokens[i].name = name}
           f == CHOOSE i \in at : \A j \in at : i <= j
<1>2. Num(number) \in Token
  BY DEF Num, Token
<1>3. CASE at = {}
  <2>1. ReplaceFirst(tokens, name, number) = tokens
    BY <1>3 DEF ReplaceFirst
  <2>2. \A i \in 1 .. n : ~IsFirst(tokens, name, i)
    BY <1>1, <1>3 DEF IsFirst
  <2> QED
    BY <2>1, <2>2 DEF IsReplaced
<1>4. CASE at # {}
  <2>1. at \in SUBSET (1 .. 4)
    BY <1>1
  <2> HIDE DEF at
  <2>2. f \in at /\ \A j \in at : f <= j
    BY <1>4, <2>1, MinOf
  <2> HIDE DEF f
  <2>3. ReplaceFirst(tokens, name, number) = [tokens EXCEPT ![f] = Num(number)]
    BY <1>4 DEF ReplaceFirst, at, f
  <2>4. f \in 1 .. n
    BY <2>2, <1>1 DEF at
  <2>5. \A i \in 1 .. n : IsFirst(tokens, name, i) <=> i = f
    <3>1. \A i \in 1 .. n : i \in at <=> tokens[i].name = name
      BY <1>1 DEF at
    <3>2. \A j \in 1 .. f - 1 : j \in 1 .. n /\ j \notin at
      BY <1>1, <2>2, <2>4
    <3>3. IsFirst(tokens, name, f)
      BY <2>2, <2>4, <3>1, <3>2 DEF IsFirst
    <3>4. ASSUME NEW i \in 1 .. n, IsFirst(tokens, name, i), i # f PROVE FALSE
      <4>1. i \in at /\ f <= i
        BY <2>2, <3>1, <3>4 DEF IsFirst
      <4>2. f \in 1 .. i - 1
        BY <1>1, <2>4, <3>4, <4>1
      <4>3. tokens[f].name = name
        BY <2>2, <2>4, <3>1
      <4> QED
        BY <3>4, <4>2, <4>3 DEF IsFirst
    <3> QED
      BY <3>3, <3>4
  <2> QED
    BY <1>1, <1>2, <2>3, <2>4, <2>5 DEF IsReplaced
<1> QED
  BY <1>3, <1>4

(* The tokens after the aliases are resolved: the first LR and the first   *)
(* SP have become numbers.                                                 *)
LEMMA Resolved ==
  ASSUME NEW tokens \in Seq(Token), Len(tokens) <= 4, NEW mnemonic,
         mnemonic # Lr
  PROVE  LET clean == spu_preprocess_resolve_aliases(Line(mnemonic, tokens))
             c == clean.tokens
         IN /\ clean.mnemonic = mnemonic
            /\ c \in Seq(Token) /\ Len(c) = Len(tokens)
            /\ \A i \in 1 .. Len(tokens) :
                 c[i] = IF IsFirst(tokens, "LR", i) THEN Num(0)
                        ELSE IF IsFirst(tokens, "SP", i) THEN Num(1)
                        ELSE tokens[i]
<1> DEFINE c1 == ReplaceFirst(tokens, "LR", 0)
           c == ReplaceFirst(c1, "SP", 1)
           n == Len(tokens)
<1> HIDE DEF c1, c
<1>0. n \in 0 .. 4
  BY Lengths
<1> USE DEF c1, c
<1>1. /\ c1 \in Seq(Token) /\ Len(c1) = n
      /\ \A i \in 1 .. n :
           c1[i] = IF IsFirst(tokens, "LR", i) THEN Num(0) ELSE tokens[i]
  <2>1. IsReplaced(c1, tokens, "LR", 0)
    BY FirstReplaced
  <2> QED
    BY <2>1 DEF IsReplaced
<1> HIDE DEF c1, n
<1>2. /\ c \in Seq(Token) /\ Len(c) = n
      /\ \A i \in 1 .. n :
           c[i] = IF IsFirst(c1, "SP", i) THEN Num(1) ELSE c1[i]
  <2>1. Len(c1) <= 4
    BY <1>0, <1>1
  <2>2. /\ c \in Seq(Token) /\ Len(c) = Len(c1)
        /\ \A i \in 1 .. Len(c1) :
             c[i] = IF IsFirst(c1, "SP", i) THEN Num(1) ELSE c1[i]
    <3>1. IsReplaced(c, c1, "SP", 1)
      BY <1>1, <2>1, FirstReplaced
    <3> QED
      BY <3>1 DEF IsReplaced
  <2> HIDE DEF c
  <2> QED
    BY <1>1, <2>2
<1> HIDE DEF c
<1>3. ASSUME NEW i \in 1 .. n
      PROVE  c1[i].name = "SP" <=> tokens[i].name = "SP"
  <2>1. IsFirst(tokens, "LR", i) => tokens[i].name = "LR"
    BY DEF IsFirst
  <2>2. Num(0).name = ""
    BY DEF Num
  <2> QED
    BY <1>1, <2>1, <2>2
<1>4. ASSUME NEW i \in 1 .. n
      PROVE  IsFirst(c1, "SP", i) <=> IsFirst(tokens, "SP", i)
  <2>1. \A j \in 1 .. i - 1 : j \in 1 .. n
    BY <1>0
  <2> QED
    BY <1>3, <2>1 DEF IsFirst
<1>5. ASSUME NEW i \in 1 .. n
      PROVE  IsFirst(tokens, "SP", i) => ~IsFirst(tokens, "LR", i)
  BY DEF IsFirst
<1>6. \A i \in 1 .. n :
        c[i] = IF IsFirst(tokens, "LR", i) THEN Num(0)
               ELSE IF IsFirst(tokens, "SP", i) THEN Num(1)
               ELSE tokens[i]
  BY <1>1, <1>2, <1>4, <1>5
<1>7. spu_preprocess_resolve_aliases(Line(mnemonic, tokens)) = Line(mnemonic, c)
  <2>1. \A i \in DOMAIN c : c[i].name # "lr"
    <3>1. \A i \in DOMAIN c : c[i] \in Token
      BY <1>2
    <3> QED
      BY <3>1 DEF Token
  <2>2. {i \in DOMAIN c : c[i].name = "lr"} = {}
    BY <2>1
  <2>3. ResolveLr(Line(mnemonic, c)) = Line(mnemonic, c)
    BY <2>2 DEF ResolveLr, Line
  <2> QED
    BY <2>3 DEF spu_preprocess_resolve_aliases, Line, c, c1
<1>8. Line(mnemonic, c).mnemonic = mnemonic /\ Line(mnemonic, c).tokens = c
  BY DEF Line
<1> HIDE DEF c
<1> QED
  BY <1>2, <1>6, <1>7, <1>8 DEF n, c, c1

-----------------------------------------------------------------------------

Kind == 0 .. 21

(* What the reading of arguments keeps. *)
State == [args : [Kind -> Int], rest : Seq(Token), temp : Int]

(* A name among the first k tokens ends the reading. *)
Ended(c, k) == \E j \in 1 .. Len(c) : j <= k /\ ~IsNumber(c[j])

(* What the k-th argument of a list is given. *)
ReadValue(c, k) ==
  IF k = 0 \/ Len(c) = 0 \/ Ended(c, k) THEN 0
  ELSE c[IF k <= Len(c) THEN k ELSE Len(c)].value

(* The tokens that are left after k arguments. *)
IsLeft(rest, c, k) ==
  IF Ended(c, k) \/ k >= Len(c) THEN rest = <<>>
  ELSE /\ Len(rest) = Len(c) - k
       /\ \A i \in 1 .. Len(c) - k : rest[i] = c[i + k]

(* The stream operator reads the next number of the line; at the end of    *)
(* the line the value read before is kept, and from a name on it is 0.     *)
LEMMA NumberRead ==
  ASSUME NEW c \in Seq(Token), NEW k \in Nat, NEW st \in State,
         st.temp = ReadValue(c, k), IsLeft(st.rest, c, k)
  PROVE  LET now == ReadNumber(st)
         IN /\ now \in State /\ now.args = st.args
            /\ now.temp = ReadValue(c, k + 1)
            /\ IsLeft(now.rest, c, k + 1)
<1> DEFINE n == Len(c)
           now == ReadNumber(st)
<1>1. n \in Nat /\ DOMAIN c = 1 .. n /\ \A i \in 1 .. n : c[i] \in Token
  OBVIOUS
<1>2. /\ st = [args |-> st.args, rest |-> st.rest, temp |-> st.temp]
      /\ st.args \in [Kind -> Int] /\ st.rest \in Seq(Token) /\ st.temp \in Int
  BY DEF State
<1>3. Ended(c, k) => Ended(c, k + 1)
  BY <1>1 DEF Ended
<1>4. CASE st.rest = <<>>
  <2>1. now = st
    BY <1>4 DEF ReadNumber
  <2>2. Ended(c, k) \/ k >= n
    <3> SUFFICES ASSUME ~Ended(c, k), ~(k >= n) PROVE FALSE
      OBVIOUS
    <3>1. Len(<<>>) = n - k
      BY <1>4 DEF IsLeft
    <3> QED
      BY <1>1, <3>1
  <2>3. CASE Ended(c, k)
    BY <1>3, <1>4, <2>1, <2>3 DEF IsLeft, ReadValue
  <2>4. CASE ~Ended(c, k) /\ k >= n
    <3>1. ~Ended(c, k + 1)
      BY <1>1, <2>4 DEF Ended
    <3>2. ReadValue(c, k + 1) = ReadValue(c, k)
      BY <1>1, <2>4, <3>1 DEF ReadValue
    <3>3. IsLeft(<<>>, c, k + 1)
      <4>1. k + 1 >= Len(c)
        BY <1>1, <2>4
      <4> QED
        BY <4>1 DEF IsLeft
    <3> QED
      BY <1>4, <2>1, <3>2, <3>3
  <2> QED
    BY <2>2, <2>3, <2>4
<1>5. CASE st.rest # <<>>
  <2>1. ~Ended(c, k) /\ k < n
    BY <1>1, <1>5 DEF IsLeft
  <2>2. /\ Len(st.rest) = n - k
        /\ \A i \in 1 .. n - k : st.rest[i] = c[i + k]
    BY <1>5, <2>1 DEF IsLeft
  <2>3. Head(st.rest) = c[k + 1] /\ k + 1 \in 1 .. n
    <3>1. k + 1 \in 1 .. n /\ 1 \in 1 .. n - k
      BY <1>1, <2>1
    <3>2. Head(st.rest) = st.rest[1]
      BY <1>2, <1>5
    <3> QED
      BY <2>2, <3>1, <3>2
  <2>4. /\ Tail(st.rest) \in Seq(Token) /\ Len(Tail(st.rest)) = n - k - 1
        /\ \A i \in 1 .. n - k - 1 : Tail(st.rest)[i] = c[i + (k + 1)]
    <3> DEFINE r == st.rest
    <3>1. /\ Tail(r) \in Seq(Token) /\ Len(Tail(r)) = Len(r) - 1
          /\ \A i \in 1 .. Len(r) - 1 : Tail(r)[i] = r[i + 1]
      BY <1>2, <1>5
    <3> HIDE DEF r
    <3>2. \A i \in 1 .. n - k - 1 : i + 1 \in 1 .. n - k /\ i + 1 + k = i + (k + 1)
      BY <1>1
    <3> QED
      BY <2>2, <3>1, <3>2 DEF r
  <2>5. Ended(c, k + 1) <=> ~IsNumber(c[k + 1])
    BY <1>1, <2>1, <2>3 DEF Ended
  <2>6. CASE IsNumber(c[k + 1])
    <3>1. now = [st EXCEPT !.temp = c[k + 1].value, !.rest = Tail(st.rest)]
      BY <1>5, <2>3, <2>6 DEF ReadNumber
    <3>2. /\ now \in State /\ now.args = st.args /\ now.temp = c[k + 1].value
          /\ now.rest = Tail(st.rest)
      <4>1. c[k + 1].value \in Int
        BY <1>1, <2>3 DEF Token
      <4> QED
        BY <1>2, <2>4, <3>1, <4>1 DEF State
    <3>3. ReadValue(c, k + 1) = c[k + 1].value
      BY <1>1, <2>3, <2>5, <2>6 DEF ReadValue
    <3>4. IsLeft(Tail(st.rest), c, k + 1)
      <4>1. k + 1 >= n => Tail(st.rest) = <<>>
        <5>1. k + 1 >= n => Len(Tail(st.rest)) = 0
          <6>1. k + 1 >= n => n - k - 1 = 0
            <7> HIDE DEF n
            <7> QED
              BY <1>1, <2>3
          <6> QED
            BY <2>4, <6>1
        <5> QED
          BY <2>4, <5>1, EmptySeq
      <4>2. n - (k + 1) = n - k - 1
        BY <1>1
      <4>3. ~Ended(c, k + 1)
        BY <2>5, <2>6
      <4> DEFINE r == Tail(st.rest)
      <4>4. /\ Len(r) = n - (k + 1)
            /\ \A i \in 1 .. n - (k + 1) : r[i] = c[i + (k + 1)]
        BY <2>4, <4>2
      <4> HIDE DEF r
      <4> QED
        BY <4>1, <4>3, <4>4, Zenon DEF IsLeft, r
    <3> QED
      BY <3>2, <3>3, <3>4
  <2>7. CASE ~IsNumber(c[k + 1])
    <3>1. now = [st EXCEPT !.temp = 0, !.rest = <<>>]
      BY <1>5, <2>3, <2>7 DEF ReadNumber
    <3>2. now \in State /\ now.args = st.args /\ now.temp = 0 /\ now.rest = <<>>
      <4>1. <<>> \in Seq(Token) /\ 0 \in Int
        BY EmptySeq
      <4> QED
        BY <1>2, <3>1, <4>1 DEF State
    <3>3. ReadValue(c, k + 1) = 0 /\ IsLeft(<<>>, c, k + 1)
      BY <2>5, <2>7 DEF ReadValue, IsLeft
    <3> QED
      BY <3>2, <3>3
  <2> QED
    BY <2>6, <2>7
<1> QED
  BY <1>4, <1>5

(* Storing an argument leaves every slot a number.                         *)
LEMMA Stored ==
  ASSUME NEW args \in [Kind -> Int], NEW argt \in Kind, NEW x \in Int
  PROVE  Store(args, argt, x) \in [Kind -> Int]
<1>1. x \div 4 \in Int /\ x \div 16 \in Int
  OBVIOUS
<1>2. 16 \in Kind /\ 10 \in Kind
  BY DEF Kind
<1> QED
  BY <1>1, <1>2 DEF Store, A_P, A_S18, A_S16, A_S14, A_S10

(* An argument is stored from the number that is next in the line.         *)
LEMMA ArgumentRead ==
  ASSUME NEW c \in Seq(Token), NEW k \in Nat, NEW st \in State,
         st.temp = ReadValue(c, k), IsLeft(st.rest, c, k), NEW argt \in Kind
  PROVE  LET now == ReadArgument(st, argt)
         IN /\ now \in State
            /\ now.args = Store(st.args, argt, ReadValue(c, k + 1))
            /\ now.temp = ReadValue(c, k + 1)
            /\ IsLeft(now.rest, c, k + 1)
<1> DEFINE now == ReadNumber(st)
<1>1. /\ now \in State /\ now.args = st.args
      /\ now.temp = ReadValue(c, k + 1)
      /\ IsLeft(now.rest, c, k + 1)
  BY NumberRead
<1>2. ReadArgument(st, argt)
        = [now EXCEPT !.args = Store(now.args, argt, now.temp)]
  BY DEF ReadArgument
<1> HIDE DEF now
<1>3. /\ now = [args |-> now.args, rest |-> now.rest, temp |-> now.temp]
      /\ now.args \in [Kind -> Int] /\ now.rest \in Seq(Token) /\ now.temp \in Int
  BY <1>1 DEF State
<1>4. Store(now.args, argt, now.temp) \in [Kind -> Int]
  BY <1>3, Stored
<1> QED
  BY <1>1, <1>2, <1>3, <1>4 DEF State

-----------------------------------------------------------------------------

(* The same for the fold over the argument lists, of which there are two   *)
(* at the most.                                                            *)
ListTurn(iter, b, lists, D) ==
  [s \in SUBSET D |->
     IF s = {} THEN b ELSE ReadList(iter[s \ {Max(s)}], lists[Max(s)])]

(* The greatest of one or two positions.                                   *)
LEMMA MaxOfTwo ==
  /\ Max({1}) = 1 /\ Max({2}) = 2 /\ Max({1, 2}) = 2
<1>1. {1} \in SUBSET (1 .. 4) /\ {2} \in SUBSET (1 .. 4) /\ {1, 2} \in SUBSET (1 .. 4)
  OBVIOUS
<1>2. /\ Max({1}) \in {1} /\ Max({2}) \in {2}
      /\ Max({1, 2}) \in {1, 2} /\ 2 <= Max({1, 2})
  BY <1>1, MaxOf
<1> QED
  BY <1>2

(* With one list of arguments the line is read once.                       *)
LEMMA OneList ==
  ASSUME NEW b, NEW list
  PROVE  FoldLeft(ReadList, b, <<list>>) = ReadList(b, list)
<1> DEFINE D == {1}
           lists == <<list>>
           iter == CHOOSE iter : iter = ListTurn(iter, b, lists, D)
           G == [s \in SUBSET D |-> IF s = {} THEN b ELSE ReadList(b, list)]
<1>1. DOMAIN lists = D
  OBVIOUS
<1>2. FoldLeft(ReadList, b, lists) = iter[D]
  BY <1>1, Zenon DEF FoldLeft, MapThenFoldSet, ListTurn
<1>3. \A s : s \in SUBSET D <=> s = {} \/ s = D
  OBVIOUS
<1>4. /\ {} \in SUBSET D /\ D \in SUBSET D /\ D # {}
      /\ Max(D) = 1 /\ D \ {1} = {} /\ lists[1] = list
  BY MaxOfTwo
<1> HIDE DEF lists, D
<1>5. G = ListTurn(G, b, lists, D)
  <2>1. ASSUME NEW s \in SUBSET D
        PROVE  G[s] = IF s = {} THEN b ELSE ReadList(G[s \ {Max(s)}], lists[Max(s)])
    <3>1. CASE s = {}
      BY <2>1, <3>1, Zenon
    <3>2. CASE s = D
      <4>1. G[s] = ReadList(b, list) /\ G[{}] = b
        BY <1>4, <3>2, Zenon
      <4> HIDE DEF G
      <4> QED
        BY <1>4, <3>2, <4>1
    <3> QED
      BY <1>3, <3>1, <3>2
  <2>2. G = [s \in SUBSET D |-> G[s]]
    BY SMT
  <2> HIDE DEF G
  <2> QED
    BY <2>1, <2>2, Zenon DEF ListTurn
<1>6. iter = ListTurn(iter, b, lists, D)
  BY <1>5, Zenon
<1> HIDE DEF iter
<1>7. ASSUME NEW s \in SUBSET D
      PROVE  iter[s] = IF s = {} THEN b
                       ELSE ReadList(iter[s \ {Max(s)}], lists[Max(s)])
  <2> DEFINE turned == ListTurn(iter, b, lists, D)
  <2>1. turned[s] = IF s = {} THEN b
                    ELSE ReadList(iter[s \ {Max(s)}], lists[Max(s)])
    BY Zenon DEF ListTurn
  <2> HIDE DEF turned
  <2>2. iter[s] = turned[s]
    BY <1>6 DEF turned
  <2> QED
    BY <2>1, <2>2
<1>8. iter[{}] = b
  BY <1>4, <1>7, Zenon
<1>9. iter[D] = ReadList(iter[D \ {Max(D)}], lists[Max(D)])
  BY <1>4, <1>7, Zenon
<1> QED
  BY <1>2, <1>4, <1>8, <1>9 DEF lists

-----------------------------------------------------------------------------

(* What reading a list from the beginning of the tokens c leaves.          *)
LEMMA ListRead ==
  ASSUME NEW c \in Seq(Token), NEW st \in State, st.rest = c,
         NEW list \in Seq(Kind), Len(list) \in 0 .. 4
  PROVE  LET r == ReadList(st, list)
             a1 == Store(st.args, list[1], ReadValue(c, 1))
             a2 == Store(a1, list[2], ReadValue(c, 2))
             a3 == Store(a2, list[3], ReadValue(c, 3))
             a4 == Store(a3, list[4], ReadValue(c, 4))
         IN /\ r \in State /\ IsLeft(r.rest, c, Len(list))
            /\ Len(list) = 0 => r.args = st.args
            /\ Len(list) = 1 => r.args = a1
            /\ Len(list) = 2 => r.args = a2
            /\ Len(list) = 3 => r.args = a3
            /\ Len(list) = 4 => r.args = a4
<1> DEFINE n == Len(list)
           s0 == [st EXCEPT !.temp = 0]
           s1 == ReadArgument(s0, list[1])
           s2 == ReadArgument(s1, list[2])
           s3 == ReadArgument(s2, list[3])
           s4 == ReadArgument(s3, list[4])
           Good(s, k) == /\ s \in State /\ s.temp = ReadValue(c, k)
                         /\ IsLeft(s.rest, c, k)
<1>1. list \in Seq(Nat) /\ \A i \in 1 .. n : list[i] \in Kind
  <2>1. \A i \in 1 .. n : list[i] \in Kind
    OBVIOUS
  <2>2. \A i \in 1 .. n : list[i] \in Nat
    BY <2>1 DEF Kind
  <2> QED
    BY <2>1, <2>2, SeqMonotonic
<1>2. LET r == ReadList(st, list)
      IN /\ n = 0 => r = s0
         /\ n = 1 => r = s1
         /\ n = 2 => r = s2
         /\ n = 3 => r = s3
         /\ n = 4 => r = s4
  BY <1>1, FoldValue DEF ReadList
<1>3. Good(s0, 0) /\ s0.args = st.args
  <2>1. ~Ended(c, 0)
    BY DEF Ended
  <2>2. ReadValue(c, 0) = 0
    BY DEF ReadValue
  <2>3. IsLeft(c, c, 0)
    <3>1. Len(c) \in Nat
      OBVIOUS
    <3>2. 0 >= Len(c) => c = <<>>
      BY <3>1, EmptySeq
    <3>3. Len(c) = Len(c) - 0 /\ \A i \in 1 .. Len(c) - 0 : c[i] = c[i + 0]
      BY <3>1
    <3> QED
      BY <2>1, <3>2, <3>3, Zenon DEF IsLeft
  <2>4. s0 \in State /\ s0.temp = 0 /\ s0.rest = c /\ s0.args = st.args
    BY DEF State
  <2> QED
    BY <2>2, <2>3, <2>4
<1>4. ASSUME NEW k \in Nat, NEW s, Good(s, k), NEW argt \in Kind
      PROVE  /\ Good(ReadArgument(s, argt), k + 1)
             /\ ReadArgument(s, argt).args = Store(s.args, argt, ReadValue(c, k + 1))
  BY <1>4, ArgumentRead
<1> HIDE DEF Good, s0, n
<1>5. n >= 1 => Good(s1, 0 + 1) /\ s1.args = Store(s0.args, list[1], ReadValue(c, 0 + 1))
  <2>1. n >= 1 => list[1] \in Kind
    BY <1>1 DEF n
  <2> QED
    BY <1>3, <1>4, <2>1
<1> HIDE DEF s1
<1>6. n >= 2 => Good(s2, 1 + 1) /\ s2.args = Store(s1.args, list[2], ReadValue(c, 1 + 1))
  <2>1. n >= 2 => list[2] \in Kind /\ n >= 1
    BY <1>1 DEF n
  <2> QED
    BY <1>4, <1>5, <2>1
<1> HIDE DEF s2
<1>7. n >= 3 => Good(s3, 2 + 1) /\ s3.args = Store(s2.args, list[3], ReadValue(c, 2 + 1))
  <2>1. n >= 3 => list[3] \in Kind /\ n >= 2
    BY <1>1 DEF n
  <2> QED
    BY <1>4, <1>6, <2>1
<1> HIDE DEF s3
<1>8. n >= 4 => Good(s4, 3 + 1) /\ s4.args = Store(s3.args, list[4], ReadValue(c, 3 + 1))
  <2>1. n >= 4 => list[4] \in Kind /\ n >= 3
    BY <1>1 DEF n
  <2> QED
    BY <1>4, <1>7, <2>1
<1> HIDE DEF s4
<1>9. n \in 0 .. 4
  BY DEF n
<1>10. CASE n = 0
  BY <1>2, <1>3, <1>10 DEF Good, n
<1>11. CASE n = 1
  BY <1>2, <1>3, <1>5, <1>11 DEF Good, n
<1>12. CASE n = 2
  BY <1>2, <1>3, <1>5, <1>6, <1>12 DEF Good, n
<1>13. CASE n = 3
  BY <1>2, <1>3, <1>5, <1>6, <1>7, <1>13 DEF Good, n
<1>14. CASE n = 4
  BY <1>2, <1>3, <1>5, <1>6, <1>7, <1>8, <1>14 DEF Good, n
<1> QED
  BY <1>9, <1>10, <1>11, <1>12, <1>13, <1>14

Zeros == [i \in Kind |-> 0]

(* The slots after the one list of an opcode. *)
LEMMA OneListRead ==
  ASSUME NEW c \in Seq(Token), NEW list \in Seq(Kind), Len(list) \in 0 .. 4
  PROVE  LET args == ReadArguments(c, <<list>>)
             a1 == Store(Zeros, list[1], ReadValue(c, 1))
             a2 == Store(a1, list[2], ReadValue(c, 2))
             a3 == Store(a2, list[3], ReadValue(c, 3))
             a4 == Store(a3, list[4], ReadValue(c, 4))
         IN /\ Len(list) = 0 => args = Zeros
            /\ Len(list) = 1 => args = a1
            /\ Len(list) = 2 => args = a2
            /\ Len(list) = 3 => args = a3
            /\ Len(list) = 4 => args = a4
<1> DEFINE st == [args |-> Zeros, rest |-> c, temp |-> 0]
<1>1. ReadArguments(c, <<list>>) = ReadList(st, list).args
  BY OneList DEF ReadArguments, Zeros, Kind
<1>2. st \in State /\ st.rest = c /\ st.args = Zeros
  BY DEF State, Zeros
<1> HIDE DEF st
<1> QED
  BY <1>1, <1>2, ListRead

-----------------------------------------------------------------------------

(* The number a token stands for.                                          *)
Meant(token) == IF token.name \in {"SP", "SR"} THEN 1 ELSE token.value

(* c are the tokens once the aliases are resolved. *)
IsResolved(c, tokens) ==
  /\ c \in Seq(Token) /\ Len(c) = Len(tokens)
  /\ \A i \in 1 .. Len(tokens) :
       c[i] = IF IsFirst(tokens, "LR", i) THEN Num(0)
              ELSE IF IsFirst(tokens, "SP", i) THEN Num(1)
              ELSE tokens[i]

(* LR stands for 0. *)
Written0(tokens) ==
  \A i \in 1 .. Len(tokens) : tokens[i].name = "LR" => tokens[i].value = 0

(* A token that is still a name is SR or repeats an alias. *)
LEMMA StillName ==
  ASSUME NEW tokens \in Seq(Token), NEW c, IsResolved(c, tokens),
         NEW i \in 1 .. Len(tokens)
  PROVE  ~IsNumber(c[i]) <=>
           \/ tokens[i].name = "SR"
           \/ /\ tokens[i].name \in {"LR", "SP"}
              /\ \E j \in 1 .. i - 1 : tokens[j].name = tokens[i].name
<1>1. tokens[i].name \in {"", "LR", "SP", "SR"}
  <2>1. tokens[i] \in Token
    OBVIOUS
  <2> QED
    BY <2>1 DEF Token
<1>2. /\ IsFirst(tokens, "LR", i) => IsNumber(c[i])
      /\ IsFirst(tokens, "SP", i) => IsNumber(c[i])
      /\ ~IsFirst(tokens, "LR", i) /\ ~IsFirst(tokens, "SP", i) => c[i] = tokens[i]
  <2>1. IsNumber(Num(0)) /\ IsNumber(Num(1))
    BY DEF IsNumber, Num
  <2> QED
    BY <2>1, Zenon DEF IsResolved
<1>3. IsFirst(tokens, "LR", i) <=>
        /\ tokens[i].name = "LR"
        /\ ~ \E j \in 1 .. i - 1 : tokens[j].name = tokens[i].name
  BY DEF IsFirst
<1>4. IsFirst(tokens, "SP", i) <=>
        /\ tokens[i].name = "SP"
        /\ ~ \E j \in 1 .. i - 1 : tokens[j].name = tokens[i].name
  BY DEF IsFirst
<1> DEFINE Again == \E j \in 1 .. i - 1 : tokens[j].name = tokens[i].name
           name == tokens[i].name
<1>5. IsNumber(tokens[i]) <=> name = ""
  BY DEF IsNumber
<1> HIDE DEF Again, name
<1> QED
  BY <1>1, <1>2, <1>3, <1>4, <1>5 DEF Again, name

(* A number is read as what was meant, unless a name came before it.       *)
LEMMA ValueRead ==
  ASSUME NEW tokens \in Seq(Token), NEW c, IsResolved(c, tokens),
         Written0(tokens), NEW i \in 1 .. Len(tokens)
  PROVE  ReadValue(c, i) = IF Ended(c, i) THEN 0 ELSE Meant(tokens[i])
<1>1. Len(c) = Len(tokens) /\ Len(tokens) \in Nat
  BY DEF IsResolved
<1>2. CASE Ended(c, i)
  BY <1>2 DEF ReadValue
<1>3. CASE ~Ended(c, i)
  <2>1. ReadValue(c, i) = c[i].value
    BY <1>1, <1>3 DEF ReadValue
  <2>2. IsNumber(c[i])
    BY <1>1, <1>3 DEF Ended
  <2>3. c[i] = IF IsFirst(tokens, "LR", i) THEN Num(0)
               ELSE IF IsFirst(tokens, "SP", i) THEN Num(1)
               ELSE tokens[i]
    BY Zenon DEF IsResolved
  <2>4. CASE IsFirst(tokens, "LR", i)
    <3>1. c[i].value = 0
      <4>1. Num(0).value = 0
        BY DEF Num
      <4> QED
        BY <2>3, <2>4, <4>1, Zenon
    <3>2. tokens[i].name = "LR" /\ tokens[i].value = 0
      BY <2>4 DEF IsFirst, Written0
    <3> QED
      BY <1>3, <2>1, <3>1, <3>2 DEF Meant
  <2>5. CASE ~IsFirst(tokens, "LR", i) /\ IsFirst(tokens, "SP", i)
    <3>1. c[i].value = 1
      <4>1. Num(1).value = 1
        BY DEF Num
      <4> QED
        BY <2>3, <2>5, <4>1, Zenon
    <3>2. tokens[i].name = "SP"
      BY <2>5 DEF IsFirst
    <3> QED
      BY <1>3, <2>1, <3>1, <3>2 DEF Meant
  <2>6. CASE ~IsFirst(tokens, "LR", i) /\ ~IsFirst(tokens, "SP", i)
    <3>1. c[i] = tokens[i]
      BY <2>3, <2>6
    <3>2. tokens[i].name = ""
      BY <2>2, <3>1 DEF IsNumber
    <3> QED
      BY <1>3, <2>1, <3>1, <3>2 DEF Meant
  <2> QED
    BY <2>4, <2>5, <2>6
<1> QED
  BY <1>2, <1>3

(* The first n tokens are read as they are meant exactly when none of them *)
(* is SR and no alias among them is used twice.                            *)
LEMMA ReadRight ==
  ASSUME NEW tokens \in Seq(Token), NEW c, IsResolved(c, tokens),
         Written0(tokens), NEW n \in 0 .. Len(tokens)
  PROVE  (\A i \in 1 .. n : ReadValue(c, i) = Meant(tokens[i])) <=>
           /\ \A i \in 1 .. n : tokens[i].name # "SR"
           /\ ~AliasTwice(SubSeq(tokens, 1, n))
<1> DEFINE ops == SubSeq(tokens, 1, n)
<1>1. /\ Len(c) = Len(tokens) /\ Len(tokens) \in Nat /\ n \in Nat
      /\ \A i \in 1 .. n : i \in 1 .. Len(tokens)
      /\ n <= Len(tokens)
  BY DEF IsResolved
<1>2. DOMAIN ops = 1 .. n /\ Len(ops) = n /\ \A i \in 1 .. n : ops[i] = tokens[i]
  BY <1>1
<1> HIDE DEF ops
<1>3. \A i \in 1 .. n :
        ReadValue(c, i) = IF Ended(c, i) THEN 0 ELSE Meant(tokens[i])
  BY <1>1, ValueRead
<1>4. \A i, j \in 1 .. n : j <= i /\ ~IsNumber(c[j]) => Ended(c, i)
  BY <1>1 DEF Ended
<1>5. ASSUME \A i \in 1 .. n : tokens[i].name # "SR", ~AliasTwice(ops),
             NEW i \in 1 .. n
      PROVE  ReadValue(c, i) = Meant(tokens[i])
  <2> SUFFICES ASSUME Ended(c, i) PROVE Meant(tokens[i]) = 0
    BY <1>3
  <2>1. PICK j \in 1 .. n : j <= i /\ ~IsNumber(c[j])
    BY <1>1 DEF Ended
  <2>2. /\ tokens[j].name \in {"LR", "SP"}
        /\ \E k \in 1 .. j - 1 : tokens[k].name = tokens[j].name
    BY <1>1, <1>5, <2>1, StillName
  <2>3. PICK k \in 1 .. n : k < j /\ tokens[k].name = tokens[j].name
    BY <1>1, <2>1, <2>2
  <2>4. /\ tokens[j].name # "SP"
        /\ \A l \in j + 1 .. n : ValueOf(ops[l]) = 0
    BY <1>2, <1>5, <2>2, <2>3 DEF AliasTwice
  <2>5. tokens[j].name = "LR" /\ tokens[j].value = 0
    BY <1>1, <2>2, <2>4 DEF Written0
  <2>6. CASE i = j
    BY <2>5, <2>6 DEF Meant
  <2>7. CASE i # j
    <3>1. i \in j + 1 .. n
      BY <1>1, <2>1, <2>7
    <3>2. ValueOf(tokens[i]) = 0 /\ tokens[i].name # "SR"
      BY <1>2, <1>5, <2>4, <3>1
    <3> QED
      BY <3>2 DEF ValueOf, Meant
  <2> QED
    BY <2>6, <2>7
<1>6. ASSUME \A i \in 1 .. n : ReadValue(c, i) = Meant(tokens[i])
      PROVE  /\ \A i \in 1 .. n : tokens[i].name # "SR"
             /\ ~AliasTwice(ops)
  <2>1. \A i \in 1 .. n : Ended(c, i) => Meant(tokens[i]) = 0
    BY <1>3, <1>6
  <2>2. ASSUME NEW i \in 1 .. n, tokens[i].name = "SR" PROVE FALSE
    <3>1. ~IsNumber(c[i])
      BY <1>1, <2>2, StillName
    <3>2. Ended(c, i)
      BY <1>1, <1>4, <3>1
    <3> QED
      BY <2>1, <2>2, <3>2 DEF Meant
  <2>3. ASSUME AliasTwice(ops) PROVE FALSE
    <3>1. PICK i, j \in 1 .. n :
            /\ i < j
            /\ tokens[i].name = tokens[j].name
            /\ \/ tokens[j].name = "SP"
               \/ tokens[j].name = "LR"
                  /\ \E k \in j + 1 .. n : ValueOf(tokens[k]) # 0
      BY <1>1, <1>2, <2>3 DEF AliasTwice
    <3>2. ~IsNumber(c[j])
      <4>1. i \in 1 .. j - 1 /\ tokens[j].name \in {"LR", "SP"}
        BY <1>1, <3>1
      <4> QED
        BY <1>1, <3>1, <4>1, StillName
    <3>3. CASE tokens[j].name = "SP"
      BY <1>1, <1>4, <2>1, <3>2, <3>3 DEF Meant
    <3>4. CASE tokens[j].name # "SP"
      <4>1. PICK k \in j + 1 .. n : ValueOf(tokens[k]) # 0
        BY <3>1, <3>4
      <4>2. k \in 1 .. n /\ Ended(c, k)
        BY <1>1, <1>4, <3>2, <4>1
      <4> QED
        BY <2>1, <4>1, <4>2 DEF Meant, ValueOf
    <3> QED
      BY <3>3, <3>4
  <2> QED
    BY <2>2, <2>3
<1> QED
  BY <1>5, <1>6 DEF ops

-----------------------------------------------------------------------------

(* Numbers of one or more digits are equal digit by digit. *)
LEMMA CutParts ==
  ASSUME NEW x \in Int, NEW y \in Int
  PROVE  /\ Cut(x, 256) = Cut(y, 256)
              <=> /\ Cut(x, 256) \div 128 = Cut(y, 256) \div 128
                  /\ Cut(x, 128) = Cut(y, 128)
         /\ Cut(x, 512) = Cut(y, 512)
              <=> /\ Cut(x, 512) \div 128 = Cut(y, 512) \div 128
                  /\ Cut(x, 128) = Cut(y, 128)
         /\ Cut(x, 1024) = Cut(y, 1024)
              <=> /\ Cut(x, 1024) \div 128 = Cut(y, 1024) \div 128
                  /\ Cut(x, 128) = Cut(y, 128)
<1>1. /\ Cut(x, 256) = 128 * (Cut(x, 256) \div 128) + Cut(x, 128)
      /\ Cut(y, 256) = 128 * (Cut(y, 256) \div 128) + Cut(y, 128)
      /\ Cut(x, 256) \in Nat /\ Cut(y, 256) \in Nat
  BY SMT DEF Cut
<1>2. /\ Cut(x, 512) = 128 * (Cut(x, 512) \div 128) + Cut(x, 128)
      /\ Cut(y, 512) = 128 * (Cut(y, 512) \div 128) + Cut(y, 128)
      /\ Cut(x, 512) \in Nat /\ Cut(y, 512) \in Nat
  BY SMT DEF Cut
<1>3. /\ Cut(x, 1024) = 128 * (Cut(x, 1024) \div 128) + Cut(x, 128)
      /\ Cut(y, 1024) = 128 * (Cut(y, 1024) \div 128) + Cut(y, 128)
      /\ Cut(x, 1024) \in Nat /\ Cut(y, 1024) \in Nat
  BY SMT DEF Cut
<1>4. /\ Cut(x, 256) = Cut(y, 256) => Cut(x, 128) = Cut(y, 128)
      /\ Cut(x, 512) = Cut(y, 512) => Cut(x, 128) = Cut(y, 128)
      /\ Cut(x, 1024) = Cut(y, 1024) => Cut(x, 128) = Cut(y, 128)
  BY SMT DEF Cut
<1> QED
  BY <1>1, <1>2, <1>3, <1>4

(* Two numbers have equal low 16 bits when their three digits are equal.   *)
LEMMA Cut16 ==
  ASSUME NEW x \in Int, NEW y \in Int
  PROVE  Cut(x, 65536) = Cut(y, 65536)
            <=> /\ Cut(x, 65536) \div 16384 = Cut(y, 65536) \div 16384
                /\ Cut(x, 16384) \div 128 = Cut(y, 16384) \div 128
                /\ Cut(x, 128) = Cut(y, 128)
<1> DEFINE X == Cut(x, 65536)
           Y == Cut(y, 65536)
           X3 == X \div 16384
           Y3 == Y \div 16384
           x2 == Cut(x, 16384)
           y2 == Cut(y, 16384)
           X2 == x2 \div 128
           Y2 == y2 \div 128
           X1 == Cut(x, 128)
           Y1 == Cut(y, 128)
<1>1. x2 = 128 * X2 + X1 /\ y2 = 128 * Y2 + Y1
  BY SMT DEF Cut
<1>2. X = 16384 * X3 + x2 /\ Y = 16384 * Y3 + y2
  BY SMT DEF Cut
<1>3. (X = Y => x2 = y2) /\ (x2 = y2 => X1 = Y1)
  BY SMT DEF Cut
<1>4. (X = Y => X3 = Y3) /\ (x2 = y2 => X2 = Y2)
  OBVIOUS
<1> HIDE DEF X, Y, X3, Y3, x2, y2, X2, Y2, X1, Y1
<1>5. X = Y <=> X3 = Y3 /\ X2 = Y2 /\ X1 = Y1
  BY <1>1, <1>2, <1>3, <1>4
<1> QED
  BY <1>5 DEF X, Y, X3, Y3, X2, Y2, X1, Y1, x2, y2

(* The same of 18 bits.                                                    *)
LEMMA Cut18 ==
  ASSUME NEW x \in Int, NEW y \in Int
  PROVE  Cut(x, 262144) = Cut(y, 262144)
            <=> /\ Cut(x, 262144) \div 16384 = Cut(y, 262144) \div 16384
                /\ Cut(x, 16384) \div 128 = Cut(y, 16384) \div 128
                /\ Cut(x, 128) = Cut(y, 128)
<1> DEFINE X == Cut(x, 262144)
           Y == Cut(y, 262144)
           X3 == X \div 16384
           Y3 == Y \div 16384
           x2 == Cut(x, 16384)
           y2 == Cut(y, 16384)
           X2 == x2 \div 128
           Y2 == y2 \div 128
           X1 == Cut(x, 128)
           Y1 == Cut(y, 128)
<1>1. x2 = 128 * X2 + X1 /\ y2 = 128 * Y2 + Y1
  BY SMT DEF Cut
<1>2. X = 16384 * X3 + x2 /\ Y = 16384 * Y3 + y2
  BY SMT DEF Cut
<1>3. (X = Y => x2 = y2) /\ (x2 = y2 => X1 = Y1)
  BY SMT DEF Cut
<1>4. (X = Y => X3 = Y3) /\ (x2 = y2 => X2 = Y2)
  OBVIOUS
<1> HIDE DEF X, Y, X3, Y3, x2, y2, X2, Y2, X1, Y1
<1>5. X = Y <=> X3 = Y3 /\ X2 = Y2 /\ X1 = Y1
  BY <1>1, <1>2, <1>3, <1>4
<1> QED
  BY <1>5 DEF X, Y, X3, Y3, X2, Y2, X1, Y1, x2, y2

(* An opcode with the upper bits of an operand below it. *)
LEMMA SameUpper ==
  ASSUME NEW f \in Int, NEW x \in Int, NEW y \in Int
  PROVE  f + x = f + y <=> x = y
  OBVIOUS

(* Words are equal when their parts are.                                   *)
LEMMA SameWord ==
  ASSUME NEW op, NEW b, NEW a, NEW t, NEW op1, NEW b1, NEW a1, NEW t1
  PROVE  WordOf(op, b, a, t) = WordOf(op1, b1, a1, t1)
           <=> op = op1 /\ b = b1 /\ a = a1 /\ t = t1
  BY DEF WordOf

(* Packed RRR words are equal when the operands, cut to their fields, are. *)
LEMMA SameRRR ==
  ASSUME NEW o \in Nat,
         NEW p \in Int, NEW q \in Int, NEW r \in Int, NEW s \in Int,
         NEW p1 \in Int, NEW q1 \in Int, NEW r1 \in Int, NEW s1 \in Int
  PROVE  PackRRR(o, p, q, r, s) = PackRRR(o, p1, q1, r1, s1)
           <=> Cut(p, 128) = Cut(p1, 128) /\ Cut(q, 128) = Cut(q1, 128)
               /\ Cut(r, 128) = Cut(r1, 128) /\ Cut(s, 128) = Cut(s1, 128)
<1> DEFINE f == OpField(o, 128)
           x == Cut(p, 128)
           y == Cut(p1, 128)
           same == Cut(q, 128) = Cut(q1, 128) /\ Cut(r, 128) = Cut(r1, 128)
                     /\ Cut(s, 128) = Cut(s1, 128)
<1>1. f \in Int
  <2>1. o \div 128 \in Int
    OBVIOUS
  <2> QED
    BY <2>1 DEF OpField
<1>2. x \in Int /\ y \in Int
  BY SMT DEF Cut
<1>3. PackRRR(o, p, q, r, s) = PackRRR(o, p1, q1, r1, s1) <=> f + x = f + y /\ same
  BY SameWord DEF PackRRR
<1>4. Cut(p, 128) = Cut(p1, 128) /\ Cut(q, 128) = Cut(q1, 128)
        /\ Cut(r, 128) = Cut(r1, 128) /\ Cut(s, 128) = Cut(s1, 128)
      <=> x = y /\ same
  BY Zenon
<1> HIDE DEF f, x, y, same
<1>5. f + x = f + y <=> x = y
  BY <1>1, <1>2
<1> QED
  BY <1>3, <1>4, <1>5

(* The same of RI8.                                                        *)
LEMMA SameRI8 ==
  ASSUME NEW o \in Nat,
         NEW p \in Int, NEW q \in Int, NEW r \in Int,
         NEW p1 \in Int, NEW q1 \in Int, NEW r1 \in Int
  PROVE  PackRI8(o, p, q, r) = PackRI8(o, p1, q1, r1)
           <=> Cut(p, 128) = Cut(p1, 128) /\ Cut(q, 128) = Cut(q1, 128)
               /\ Cut(r, 256) = Cut(r1, 256)
<1> DEFINE f == OpField(o, 2)
           x == Cut(r, 256) \div 128
           y == Cut(r1, 256) \div 128
           same == Cut(p, 128) = Cut(p1, 128) /\ Cut(q, 128) = Cut(q1, 128)
                     /\ Cut(r, 128) = Cut(r1, 128)
<1>1. f \in Int
  <2>1. o \div 2 \in Int
    OBVIOUS
  <2> QED
    BY <2>1 DEF OpField
<1>2. x \in Int /\ y \in Int
  BY SMT DEF Cut
<1>3. PackRI8(o, p, q, r) = PackRI8(o, p1, q1, r1) <=> f + x = f + y /\ same
  BY SameWord DEF PackRI8
<1>4. Cut(p, 128) = Cut(p1, 128) /\ Cut(q, 128) = Cut(q1, 128)
        /\ Cut(r, 256) = Cut(r1, 256)
      <=> x = y /\ same
  BY CutParts
<1> HIDE DEF f, x, y, same
<1>5. f + x = f + y <=> x = y
  BY <1>1, <1>2
<1> QED
  BY <1>3, <1>4, <1>5

(* The same of RI10.                                                       *)
LEMMA SameRI10 ==
  ASSUME NEW o \in Nat,
         NEW p \in Int, NEW q \in Int, NEW r \in Int,
         NEW p1 \in Int, NEW q1 \in Int, NEW r1 \in Int
  PROVE  PackRI10(o, p, q, r) = PackRI10(o, p1, q1, r1)
           <=> Cut(p, 128) = Cut(p1, 128) /\ Cut(q, 128) = Cut(q1, 128)
               /\ Cut(r, 1024) = Cut(r1, 1024)
<1> DEFINE f == OpField(o, 8)
           x == Cut(r, 1024) \div 128
           y == Cut(r1, 1024) \div 128
           same == Cut(p, 128) = Cut(p1, 128) /\ Cut(q, 128) = Cut(q1, 128)
                     /\ Cut(r, 128) = Cut(r1, 128)
<1>1. f \in Int
  <2>1. o \div 8 \in Int
    OBVIOUS
  <2> QED
    BY <2>1 DEF OpField
<1>2. x \in Int /\ y \in Int
  BY SMT DEF Cut
<1>3. PackRI10(o, p, q, r) = PackRI10(o, p1, q1, r1) <=> f + x = f + y /\ same
  BY SameWord DEF PackRI10
<1>4. Cut(p, 128) = Cut(p1, 128) /\ Cut(q, 128) = Cut(q1, 128)
        /\ Cut(r, 1024) = Cut(r1, 1024)
      <=> x = y /\ same
  BY CutParts
<1> HIDE DEF f, x, y, same
<1>5. f + x = f + y <=> x = y
  BY <1>1, <1>2
<1> QED
  BY <1>3, <1>4, <1>5

(* The same of RI16.                                                       *)
LEMMA SameRI16 ==
  ASSUME NEW o \in Nat,
         NEW p \in Int, NEW r \in Int, NEW p1 \in Int, NEW r1 \in Int
  PROVE  PackRI16(o, p, r) = PackRI16(o, p1, r1)
           <=> Cut(p, 128) = Cut(p1, 128) /\ Cut(r, 65536) = Cut(r1, 65536)
<1> DEFINE f == OpField(o, 4)
           x == Cut(r, 65536) \div 16384
           y == Cut(r1, 65536) \div 16384
           same == Cut(p, 128) = Cut(p1, 128)
                     /\ Cut(r, 16384) \div 128 = Cut(r1, 16384) \div 128
                     /\ Cut(r, 128) = Cut(r1, 128)
<1>1. f \in Int
  <2>1. o \div 4 \in Int
    OBVIOUS
  <2> QED
    BY <2>1 DEF OpField
<1>2. x \in Int /\ y \in Int
  BY SMT DEF Cut
<1>3. PackRI16(o, p, r) = PackRI16(o, p1, r1) <=> f + x = f + y /\ same
  BY SameWord DEF PackRI16
<1>4. Cut(p, 128) = Cut(p1, 128) /\ Cut(r, 65536) = Cut(r1, 65536) <=> x = y /\ same
  BY Cut16
<1> HIDE DEF f, x, y, same
<1>5. f + x = f + y <=> x = y
  BY <1>1, <1>2
<1> QED
  BY <1>3, <1>4, <1>5

(* The same of RI18.                                                       *)
LEMMA SameRI18 ==
  ASSUME NEW o \in Nat,
         NEW p \in Int, NEW r \in Int, NEW p1 \in Int, NEW r1 \in Int
  PROVE  PackRI18(o, p, r) = PackRI18(o, p1, r1)
           <=> Cut(p, 128) = Cut(p1, 128) /\ Cut(r, 262144) = Cut(r1, 262144)
<1> DEFINE f == OpField(o, 16)
           x == Cut(r, 262144) \div 16384
           y == Cut(r1, 262144) \div 16384
           same == Cut(p, 128) = Cut(p1, 128)
                     /\ Cut(r, 16384) \div 128 = Cut(r1, 16384) \div 128
                     /\ Cut(r, 128) = Cut(r1, 128)
<1>1. f \in Int
  <2>1. o \div 16 \in Int
    OBVIOUS
  <2> QED
    BY <2>1 DEF OpField
<1>2. x \in Int /\ y \in Int
  BY SMT DEF Cut
<1>3. PackRI18(o, p, r) = PackRI18(o, p1, r1) <=> f + x = f + y /\ same
  BY SameWord DEF PackRI18
<1>4. Cut(p, 128) = Cut(p1, 128) /\ Cut(r, 262144) = Cut(r1, 262144) <=> x = y /\ same
  BY Cut18
<1> HIDE DEF f, x, y, same
<1>5. f + x = f + y <=> x = y
  BY <1>1, <1>2
<1> QED
  BY <1>3, <1>4, <1>5

(* The same of RR.                                                         *)
LEMMA SameRR ==
  ASSUME NEW o, NEW p, NEW q, NEW r, NEW p1, NEW q1, NEW r1
  PROVE  PackRR(o, p, q, r) = PackRR(o, p1, q1, r1)
           <=> Cut(p, 128) = Cut(p1, 128) /\ Cut(q, 128) = Cut(q1, 128)
               /\ Cut(r, 128) = Cut(r1, 128)
  BY SameWord DEF PackRR

(* The same of RI7.                                                        *)
LEMMA SameRI7 ==
  ASSUME NEW o, NEW p, NEW q, NEW r, NEW p1, NEW q1, NEW r1
  PROVE  PackRI7(o, p, q, r) = PackRI7(o, p1, q1, r1)
           <=> Cut(p, 128) = Cut(p1, 128) /\ Cut(q, 128) = Cut(q1, 128)
               /\ Cut(r, 128) = Cut(r1, 128)
  BY SameRR DEF PackRI7

-----------------------------------------------------------------------------

(* A word decodes to itself with some low bits cleared, or to no opcode.   *)
LEMMA DecodedFrom ==
  ASSUME NEW op \in Opcode
  PROVE  Decoded[op] \in Opcode /\ (Decoded[op] = Db!Unknown \/ Decoded[op] <= op)
<1> DEFINE o == Db!Lookup(Types, op)
           Down(n) == op - (op % n)
<1>1. op \in Nat /\ op <= 2047
  BY DEF Opcode
<1>2. /\ Db!Masked(op, 7) = Down(128) /\ Db!Masked(op, 4) = Down(16)
      /\ Db!Masked(op, 3) = Down(8) /\ Db!Masked(op, 2) = Down(4)
      /\ Db!Masked(op, 1) = Down(2)
  <2>1. 2^7 = 128
    OBVIOUS
  <2>2. 2^4 = 16
    OBVIOUS
  <2>3. 2^3 = 8
    OBVIOUS
  <2>4. 2^2 = 4 /\ 2^1 = 2
    OBVIOUS
  <2> QED
    BY <2>1, <2>2, <2>3, <2>4, Zenon DEF Db!Masked
<1>3. \A n \in {2, 4, 8, 16, 128} : Down(n) \in Nat /\ Down(n) <= op
  BY <1>1, SMT
<1> HIDE DEF Down
<1>4. \/ o = op \/ o = Db!Unknown
      \/ o = Down(128) \/ o = Down(16) \/ o = Down(8) \/ o = Down(4) \/ o = Down(2)
  BY <1>2 DEF Db!Lookup
<1> HIDE DEF o
<1>5. o = Db!Unknown \/ (o \in Nat /\ o <= op)
  BY <1>1, <1>3, <1>4
<1>6. o \in Opcode
  <2>1. CASE o = Db!Unknown
    BY <2>1 DEF Opcode, Db!Unknown
  <2>2. CASE o \in Nat /\ o <= op
    <3>1. o \in Nat /\ o <= 2047
      BY <1>1, <2>2
    <3> QED
      BY <3>1 DEF Opcode
  <2> QED
    BY <1>5, <2>1, <2>2
<1> QED
  BY <1>5, <1>6 DEF o, Decoded

(* A mnemonic is a pair of the format and the opcode.                      *)
LEMMA MnemonicIs ==
  ASSUME NEW o \in Opcode, RowsOf[o] # <<>>
  PROVE  /\ Mnemonics[o] = <<Types[o], o>> /\ Mnemonics[o] \in Mnemonic
         /\ Types[o] \in Format /\ Types[o] # NoType
<1>1. Types[o] = Last(RowsOf[o]).format
  BY DEF Types
<1>2. Mnemonics[o] = <<Types[o], o>>
  BY <1>1 DEF Mnemonics
<1>3. Mnemonics[o] \in Mnemonic /\ Mnemonics[o] \in Format \X Opcode
  BY TableAssumption
<1> QED
  BY <1>2, <1>3, MarksAssumption

(* The search for the mnemonic of an opcode finds that opcode.             *)
LEMMA Finds ==
  ASSUME NEW o \in Opcode, RowsOf[o] # <<>>
  PROVE  FoundAs[Mnemonics[o]] = {o}
<1> DEFINE same == {q \in Opcode : Mnemonics[Decoded[q]] = Mnemonics[o]}
<1>1. Mnemonics[o] = <<Types[o], o>> /\ Mnemonics[o] \in Mnemonic
  BY MnemonicIs
<1>2. o \in same
  BY TableAssumption
<1>3. ASSUME NEW q \in same PROVE o <= q
  <2>1. q \in Opcode /\ Mnemonics[Decoded[q]] = <<Types[o], o>>
    BY <1>1
  <2>2. Decoded[q] \in Opcode /\ (Decoded[q] = Db!Unknown \/ Decoded[q] <= q)
    BY <2>1, DecodedFrom
  <2>3. RowsOf[Decoded[q]] # <<>>
    <3> SUFFICES ASSUME RowsOf[Decoded[q]] = <<>> PROVE FALSE
      OBVIOUS
    <3>1. Mnemonics[Decoded[q]] = NoMnemonic
      BY <2>2 DEF Mnemonics
    <3> QED
      BY <1>1, <2>1, <3>1, MarksAssumption
  <2>4. Mnemonics[Decoded[q]] = <<Types[Decoded[q]], Decoded[q]>>
    BY <2>2, <2>3, MnemonicIs
  <2>5. Decoded[q] = o
    BY <2>1, <2>4
  <2>6. Decoded[q] # Db!Unknown
    BY <2>3, TableAssumption
  <2> QED
    BY <2>2, <2>5, <2>6
<1>4. FoundAs[Mnemonics[o]] = {p \in same : \A q \in same : p <= q}
  BY <1>1 DEF FoundAs
<1>5. \A p \in same : p \in Nat
  BY DEF Opcode
<1>6. o \in Nat
  BY DEF Opcode
<1> HIDE DEF same
<1>7. \A p \in same : (\A q \in same : p <= q) <=> p = o
  BY <1>2, <1>3, <1>5, <1>6
<1> QED
  BY <1>2, <1>4, <1>7

(* What the assembler does with the mnemonic of an opcode, the last one of *)
(* its rows.                                                               *)
LEMMA AssembledAs ==
  ASSUME NEW o \in Opcode, RowsOf[o] # <<>>,
         NEW tokens \in Seq(Token), Len(tokens) <= 4
  PROVE  \E c \in Seq(Token) :
           /\ IsResolved(c, tokens)
           /\ Assemble(Line(Mnemonics[o], tokens), TRUE)
                = Pack(Types[o], o, ReadArguments(c, ArgLists[o]))
<1> DEFINE clean == spu_preprocess_resolve_aliases(Line(Mnemonics[o], tokens))
           c == clean.tokens
<1>1. Mnemonics[o] = <<Types[o], o>> /\ Mnemonics[o] \in Mnemonic
  BY MnemonicIs
<1>2. Mnemonics[o] # Lr
  <2>1. Types[o] # "lr"
    BY MnemonicIs DEF Format
  <2>2. <<Types[o], o>>[1] = Types[o] /\ Lr[1] = "lr"
    BY DEF Lr
  <2> QED
    BY <1>1, <2>1, <2>2, Zenon
<1>3. clean.mnemonic = Mnemonics[o] /\ IsResolved(c, tokens)
  <2>1. /\ clean.mnemonic = Mnemonics[o]
        /\ c \in Seq(Token) /\ Len(c) = Len(tokens)
        /\ \A i \in 1 .. Len(tokens) :
             c[i] = IF IsFirst(tokens, "LR", i) THEN Num(0)
                    ELSE IF IsFirst(tokens, "SP", i) THEN Num(1)
                    ELSE tokens[i]
    BY <1>2, Resolved, Zenon
  <2> HIDE DEF clean
  <2> QED
    BY <2>1, Zenon DEF IsResolved
<1>4. FoundAs[clean.mnemonic] = {o}
  BY <1>3, Finds
<1> HIDE DEF clean
<1>5. Decoded[o] = o
  BY TableAssumption
<1>6. (CHOOSE p \in {o} : TRUE) = o
  OBVIOUS
<1>7. Assemble(Line(Mnemonics[o], tokens), TRUE)
        = Pack(Types[Decoded[o]], o, ReadArguments(c, db_op_arglist(o, TRUE)))
  BY <1>1, <1>3, <1>4, <1>6, Zenon DEF Assemble, clean
<1>8. db_op_arglist(o, TRUE) = ArgLists[o]
  BY DEF db_op_arglist
<1>9. c \in Seq(Token)
  BY <1>3 DEF IsResolved
<1> QED
  BY <1>3, <1>5, <1>7, <1>8, <1>9

-----------------------------------------------------------------------------

(* A number that was read as 0 or right is right when its digits are.      *)
LEMMA WithinCut ==
  ASSUME NEW x \in Int, NEW v \in {0, x}
  PROVE  /\ -128 < x /\ x < 128 => (Cut(v, 128) = Cut(x, 128) <=> v = x)
         /\ -256 < x /\ x < 256 => (Cut(v, 256) = Cut(x, 256) <=> v = x)
         /\ -1024 < x /\ x < 1024 => (Cut(v, 1024) = Cut(x, 1024) <=> v = x)
         /\ -65536 < x /\ x < 65536 => (Cut(v, 65536) = Cut(x, 65536) <=> v = x)
         /\ -262144 < x /\ x < 262144
              => (Cut(v, 262144) = Cut(x, 262144) <=> v = x)
<1>1. -128 < x /\ x < 128 => (Cut(v, 128) = Cut(x, 128) <=> v = x)
  BY SMT DEF Cut
<1>2. -256 < x /\ x < 256 => (Cut(v, 256) = Cut(x, 256) <=> v = x)
  BY SMT DEF Cut
<1>3. -1024 < x /\ x < 1024 => (Cut(v, 1024) = Cut(x, 1024) <=> v = x)
  BY SMT DEF Cut
<1>4. -65536 < x /\ x < 65536 => (Cut(v, 65536) = Cut(x, 65536) <=> v = x)
  BY SMT DEF Cut
<1>5. -262144 < x /\ x < 262144
        => (Cut(v, 262144) = Cut(x, 262144) <=> v = x)
  BY SMT DEF Cut
<1> QED
  BY <1>1, <1>2, <1>3, <1>4, <1>5

(* The signed readings of the fields are within those bounds. *)
LEMMA SignedWithin ==
  ASSUME NEW x \in Nat
  PROVE  /\ x < 128 => LET s == SignExtend(x, 128)
                       IN s \in Int /\ -128 < s /\ s < 128
         /\ x < 256 => LET s == SignExtend(x, 256)
                       IN s \in Int /\ -256 < s /\ s < 256
         /\ x < 1024 => LET s == SignExtend(x, 1024)
                        IN s \in Int /\ -1024 < s /\ s < 1024
         /\ x < 65536 => LET s == SignExtend(x, 65536)
                         IN s \in Int /\ -65536 < s /\ s < 65536
<1>1. x < 128 => LET s == SignExtend(x, 128)
                 IN s \in Int /\ -128 < s /\ s < 128
  BY SMT DEF SignExtend
<1>2. x < 256 => LET s == SignExtend(x, 256)
                 IN s \in Int /\ -256 < s /\ s < 256
  BY SMT DEF SignExtend
<1>3. x < 1024 => LET s == SignExtend(x, 1024)
                  IN s \in Int /\ -1024 < s /\ s < 1024
  BY SMT DEF SignExtend
<1>4. x < 65536 => LET s == SignExtend(x, 65536)
                   IN s \in Int /\ -65536 < s /\ s < 65536
  BY SMT DEF SignExtend
<1> QED
  BY <1>1, <1>2, <1>3, <1>4

(* What the i-th argument of a list of n is given; nothing if there is none. *)
Given(c, n, i) == IF i <= n THEN ReadValue(c, i) ELSE 0

(* The slots of a list of a target, a source and a third operand, of which *)
(* the last ones may be missing.                                           *)
LEMMA ThreeSlots ==
  ASSUME NEW c \in Seq(Token), NEW third \in {2, 7, 10},
         NEW list \in Seq(Kind), Len(list) \in 1 .. 3,
         \A i \in 1 .. Len(list) : list[i] = <<0, 1, third>>[i]
  PROVE  LET args == ReadArguments(c, <<list>>)
             n == Len(list)
         IN /\ args[0] = Given(c, n, 1)
            /\ args[1] = Given(c, n, 2)
            /\ args[third] = Given(c, n, 3)
<1> DEFINE args == ReadArguments(c, <<list>>)
           n == Len(list)
           v1 == ReadValue(c, 1)
           v2 == ReadValue(c, 2)
           v3 == ReadValue(c, 3)
           a1 == Store(Zeros, 0, v1)
           a2 == Store(a1, 1, v2)
           a3 == Store(a2, third, v3)
<1>1. /\ n = 1 => list[1] = 0
      /\ n = 2 => list[1] = 0 /\ list[2] = 1
      /\ n = 3 => list[1] = 0 /\ list[2] = 1 /\ list[3] = third
  OBVIOUS
<1>2. /\ n = 1 => args = a1
      /\ n = 2 => args = a2
      /\ n = 3 => args = a3
  <2>1. Len(list) \in 0 .. 4
    OBVIOUS
  <2> HIDE DEF a1, a2, a3
  <2>2. LET b1 == Store(Zeros, list[1], v1)
            b2 == Store(b1, list[2], v2)
            b3 == Store(b2, list[3], v3)
        IN (n = 1 => args = b1) /\ (n = 2 => args = b2) /\ (n = 3 => args = b3)
    BY <2>1, OneListRead
  <2> HIDE DEF args, n, v1, v2, v3
  <2> QED
    BY <1>1, <2>2 DEF a1, a2, a3
<1> HIDE DEF args, v1, v2, v3
<1>3. a1 = [Zeros EXCEPT ![0] = v1] /\ a2 = [a1 EXCEPT ![1] = v2]
      /\ a3 = [a2 EXCEPT ![third] = v3]
  BY DEF Store, A_P, A_S18, A_S14
<1> HIDE DEF a1, a2, a3
<1>0. /\ 0 \in Kind /\ 1 \in Kind /\ third \in Kind
      /\ third # 0 /\ third # 1
      /\ DOMAIN Zeros = Kind /\ \A k \in Kind : Zeros[k] = 0
  BY DEF Zeros, Kind
<1>4. DOMAIN a1 = Kind /\ a1[0] = v1 /\ a1[1] = 0 /\ a1[third] = 0
  BY <1>0, <1>3
<1>5. DOMAIN a2 = Kind /\ a2[0] = v1 /\ a2[1] = v2 /\ a2[third] = 0
  BY <1>0, <1>3, <1>4
<1>6. a3[0] = v1 /\ a3[1] = v2 /\ a3[third] = v3
  BY <1>0, <1>3, <1>5
<1>7. n = 1 \/ n = 2 \/ n = 3
  OBVIOUS
<1> HIDE DEF n
<1>8. /\ args[0] = Given(c, n, 1)
      /\ args[1] = Given(c, n, 2)
      /\ args[third] = Given(c, n, 3)
  <2>1. CASE n = 1
    BY <1>2, <1>4, <2>1 DEF Given, v1
  <2>2. CASE n = 2
    BY <1>2, <1>5, <2>2 DEF Given, v1, v2
  <2>3. CASE n = 3
    BY <1>2, <1>6, <2>3 DEF Given, v1, v2, v3
  <2> QED
    BY <1>7, <2>1, <2>2, <2>3
<1> QED
  BY <1>8 DEF args, n

(* The same of a target and an immediate. *)
LEMMA TwoSlots ==
  ASSUME NEW c \in Seq(Token), NEW second \in {16, 18},
         NEW list \in Seq(Kind), Len(list) \in 1 .. 2,
         \A i \in 1 .. Len(list) : list[i] = <<0, second>>[i]
  PROVE  LET args == ReadArguments(c, <<list>>)
             n == Len(list)
         IN /\ args[0] = Given(c, n, 1)
            /\ args[second] = Given(c, n, 2)
<1> DEFINE args == ReadArguments(c, <<list>>)
           n == Len(list)
           v1 == ReadValue(c, 1)
           v2 == ReadValue(c, 2)
           a1 == Store(Zeros, 0, v1)
           a2 == Store(a1, second, v2)
<1>1. /\ n = 1 => list[1] = 0
      /\ n = 2 => list[1] = 0 /\ list[2] = second
  OBVIOUS
<1>2. /\ n = 1 => args = a1
      /\ n = 2 => args = a2
  <2>1. Len(list) \in 0 .. 4
    OBVIOUS
  <2> HIDE DEF a1, a2
  <2>2. LET b1 == Store(Zeros, list[1], v1)
            b2 == Store(b1, list[2], v2)
        IN (n = 1 => args = b1) /\ (n = 2 => args = b2)
    BY <2>1, OneListRead
  <2> HIDE DEF args, n, v1, v2
  <2> QED
    BY <1>1, <2>2 DEF a1, a2
<1> HIDE DEF args, v1, v2
<1>3. a1 = [Zeros EXCEPT ![0] = v1] /\ a2 = [a1 EXCEPT ![second] = v2]
  BY DEF Store, A_P, A_S18, A_S14
<1> HIDE DEF a1, a2
<1>0. /\ 0 \in Kind /\ second \in Kind /\ second # 0
      /\ DOMAIN Zeros = Kind /\ \A k \in Kind : Zeros[k] = 0
  BY DEF Zeros, Kind
<1>4. DOMAIN a1 = Kind /\ a1[0] = v1 /\ a1[second] = 0
  BY <1>0, <1>3
<1>5. a2[0] = v1 /\ a2[second] = v2
  BY <1>0, <1>3, <1>4
<1>7. n = 1 \/ n = 2
  OBVIOUS
<1> HIDE DEF n
<1>8. /\ args[0] = Given(c, n, 1)
      /\ args[second] = Given(c, n, 2)
  <2>1. CASE n = 1
    BY <1>2, <1>4, <2>1 DEF Given, v1
  <2>2. CASE n = 2
    BY <1>2, <1>5, <2>2 DEF Given, v1, v2
  <2> QED
    BY <1>7, <2>1, <2>2
<1> QED
  BY <1>8 DEF args, n

(* What is given is right or 0, and 0 is right where the name of register  *)
(* 0 is printed for a field that is empty.                                 *)
LEMMA GivenRight ==
  ASSUME NEW tokens \in Seq(Token), NEW c, IsResolved(c, tokens),
         Written0(tokens), NEW n \in 0 .. Len(tokens),
         \A i \in n + 1 .. Len(tokens) : tokens[i] = Name("LR")
  PROVE  /\ \A i \in 1 .. Len(tokens) : Given(c, n, i) \in {0, Meant(tokens[i])}
         /\ (\A i \in 1 .. n : ReadValue(c, i) = Meant(tokens[i])) <=>
              \A i \in 1 .. Len(tokens) : Given(c, n, i) = Meant(tokens[i])
<1>1. Meant(Name("LR")) = 0
  BY DEF Meant, Name
<1>2. Len(tokens) \in Nat /\ n \in Nat /\ n <= Len(tokens)
  OBVIOUS
<1>3. \A i \in 1 .. Len(tokens) : i <= n => i \in 1 .. n
  BY <1>2
<1>4. \A i \in 1 .. Len(tokens) :
        ~(i <= n) => Given(c, n, i) = 0 /\ Meant(tokens[i]) = 0
  <2> SUFFICES ASSUME NEW i \in 1 .. Len(tokens), ~(i <= n)
               PROVE  Given(c, n, i) = 0 /\ Meant(tokens[i]) = 0
    OBVIOUS
  <2>1. i \in n + 1 .. Len(tokens)
    BY <1>2
  <2> QED
    BY <1>1, <2>1 DEF Given
<1>5. \A i \in 1 .. Len(tokens) : i <= n => Given(c, n, i) = ReadValue(c, i)
  BY DEF Given
<1>6. \A i \in 1 .. Len(tokens) :
        ReadValue(c, i) = IF Ended(c, i) THEN 0 ELSE Meant(tokens[i])
  BY ValueRead
<1>7. \A i \in 1 .. n : i \in 1 .. Len(tokens) /\ i <= n
  BY <1>2
<1> QED
  BY <1>3, <1>4, <1>5, <1>6, <1>7

-----------------------------------------------------------------------------

(* What a token of a printed line is: the name of register 0 or 1, or a    *)
(* number.                                                                 *)
Printed(token) ==
  /\ token \in Token
  /\ token.name = "LR" => token.value = 0
  /\ token.name = "SR" <=> token = Name("SR")

(* A register is printed as its number or its alias, and means that        *)
(* register.                                                               *)
LEMMA RegisterPrinted ==
  ASSUME NEW r \in Int
  PROVE  Printed(RegisterToken(r)) /\ Meant(RegisterToken(r)) = r
<1>1. CASE r = 0
  <2>1. RegisterToken(r) = Name("LR")
    BY <1>1 DEF RegisterToken
  <2>2. Name("LR").name = "LR" /\ Name("LR").value = 0
    BY DEF Name
  <2>3. Name("LR") \in Token
    BY DEF Name, Token
  <2>4. Name("LR") # Name("SR")
    BY DEF Name
  <2> QED
    BY <1>1, <2>1, <2>2, <2>3, <2>4 DEF Printed, Meant
<1>2. CASE r = 1
  <2>1. RegisterToken(r) = Name("SR")
    BY <1>2 DEF RegisterToken
  <2>2. Name("SR").name = "SR"
    BY DEF Name
  <2>3. Name("SR") \in Token
    BY DEF Name, Token
  <2> QED
    BY <1>2, <2>1, <2>2, <2>3 DEF Printed, Meant
<1>3. CASE r # 0 /\ r # 1
  <2>1. RegisterToken(r) = Num(r)
    BY <1>3 DEF RegisterToken
  <2>2. Num(r).name = "" /\ Num(r).value = r
    BY DEF Num
  <2>3. Num(r) \in Token
    BY DEF Num, Token
  <2>4. Num(r) # Name("SR")
    BY DEF Num, Name
  <2> QED
    BY <2>1, <2>2, <2>3, <2>4 DEF Printed, Meant
<1> QED
  BY <1>1, <1>2, <1>3

(* An immediate is printed as a number and means that number.              *)
LEMMA NumberPrinted ==
  ASSUME NEW x \in Int
  PROVE  Printed(Num(x)) /\ Meant(Num(x)) = x
<1>2. Num(x).name = "" /\ Num(x).value = x
  BY DEF Num
<1>3. Num(x) \in Token
  BY DEF Num, Token
<1>4. Num(x) # Name("SR")
  BY DEF Num, Name
<1> QED
  BY <1>2, <1>3, <1>4 DEF Printed, Meant

(* A line of printed tokens. *)
PrintedLine(tokens) ==
  /\ tokens \in Seq(Token)
  /\ \A i \in 1 .. Len(tokens) : Printed(tokens[i])

(* A line of three printed operands.                                       *)
LEMMA ThreePrinted ==
  ASSUME NEW x, Printed(x), NEW y, Printed(y), NEW z, Printed(z)
  PROVE  PrintedLine(<<x, y, z>>) /\ Len(<<x, y, z>>) = 3
<1>1. x \in Token /\ y \in Token /\ z \in Token
  BY DEF Printed
<1>2. <<x, y, z>> \in Seq(Token) /\ Len(<<x, y, z>>) = 3
  BY <1>1
<1>3. \A i \in 1 .. 3 : Printed(<<x, y, z>>[i])
  <2>1. \A i \in 1 .. 3 : <<x, y, z>>[i] = x \/ <<x, y, z>>[i] = y \/ <<x, y, z>>[i] = z
    OBVIOUS
  <2> QED
    BY <2>1, Zenon
<1> QED
  BY <1>2, <1>3 DEF PrintedLine

(* A line of two printed operands.                                         *)
LEMMA TwoPrinted ==
  ASSUME NEW x, Printed(x), NEW y, Printed(y)
  PROVE  PrintedLine(<<x, y>>) /\ Len(<<x, y>>) = 2
<1>1. x \in Token /\ y \in Token
  BY DEF Printed
<1>2. <<x, y>> \in Seq(Token) /\ Len(<<x, y>>) = 2
  BY <1>1
<1>3. \A i \in 1 .. 2 : Printed(<<x, y>>[i])
  <2>1. \A i \in 1 .. 2 : <<x, y>>[i] = x \/ <<x, y>>[i] = y
    OBVIOUS
  <2> QED
    BY <2>1, Zenon
<1> QED
  BY <1>2, <1>3 DEF PrintedLine

(* What is put together of the tokens of a word, as they were given, is    *)
(* the word exactly when all were given right.                             *)
Given3(tokens, c, n) ==
  /\ Len(tokens) = 3
  /\ \A i \in 1 .. 3 : Given(c, n, i) \in {0, Meant(tokens[i])}

(* An RR word whose operands are each read right or as 0 comes back when   *)
(* each is right.                                                          *)
LEMMA BackRR ==
  ASSUME NEW w \in Word, NEW o, o = w.op,
         NEW x1 \in {0, w.t}, NEW x2 \in {0, w.a}, NEW x3 \in {0, w.b}
  PROVE  PackRR(o, x1, x2, x3) = w <=> x1 = w.t /\ x2 = w.a /\ x3 = w.b
<1> DEFINE t == w.t
           a == w.a
           b == w.b
<1>1. /\ b \in Nat /\ b < 128 /\ a \in Nat /\ a < 128 /\ t \in Nat /\ t < 128
  BY Digits
<1>2. PackRR(o, t, a, b) = w
  <2>1. Used("RR", w) = Repacked(o, "RR", Components("RR", w))
    BY RepacksRR
  <2>2. Used("RR", w) = w
    BY DEF Used
  <2>3. Repacked(o, "RR", Components("RR", w)) = PackRR(o, t, a, b)
    BY DEF Repacked, Components, Operands
  <2> QED
    BY <2>1, <2>2, <2>3
<1> HIDE DEF t, a, b
<1>3. /\ Cut(x1, 128) = Cut(t, 128) <=> x1 = t
      /\ Cut(x2, 128) = Cut(a, 128) <=> x2 = a
      /\ Cut(x3, 128) = Cut(b, 128) <=> x3 = b
  <2>1. -128 < t /\ -128 < a /\ -128 < b /\ t \in Int /\ a \in Int /\ b \in Int
    BY <1>1
  <2>2. x1 \in {0, t} /\ x2 \in {0, a} /\ x3 \in {0, b}
    BY DEF t, a, b
  <2> QED
    BY <1>1, <2>1, <2>2, WithinCut
<1>4. PackRR(o, x1, x2, x3) = PackRR(o, t, a, b)
        <=> Cut(x1, 128) = Cut(t, 128) /\ Cut(x2, 128) = Cut(a, 128)
            /\ Cut(x3, 128) = Cut(b, 128)
  BY SameRR
<1> QED
  BY <1>2, <1>3, <1>4 DEF t, a, b

-----------------------------------------------------------------------------

(* The same of RI7 words.                                                  *)
LEMMA BackRI7 ==
  ASSUME NEW w \in Word, NEW o \in Nat,
         o = w.op,
         NEW x1 \in {0, w.t}, NEW x2 \in {0, w.a},
         NEW x3 \in {0, SignExtend(w.b, 128)}
  PROVE  PackRI7(o, x1, x2, x3) = w
           <=> x1 = w.t /\ x2 = w.a /\ x3 = SignExtend(w.b, 128)
<1> DEFINE t == w.t
           a == w.a
           i == w.b
           s == SignExtend(w.b, 128)
           shown == s
<1>1. /\ a \in Nat /\ a < 128 /\ t \in Nat /\ t < 128
      /\ i \in Nat /\ i < 128
  BY Digits, Fields
<1>2. PackRI7(o, t, a, s) = w
  <2>1. Used("RI7", w) = Repacked(o, "RI7", Components("RI7", w))
    BY RepacksRI7
  <2>2. Used("RI7", w) = w
    BY DEF Used
  <2>3. Repacked(o, "RI7", Components("RI7", w)) = PackRI7(o, t, a, s)
    BY DEF Repacked, Components, Operands
  <2> QED
    BY <2>1, <2>2, <2>3
<1>3. x1 \in {0, t} /\ x2 \in {0, a} /\ x3 \in {0, shown}
  OBVIOUS
<1>4. s \in Int /\ -128 < s /\ s < 128
  BY <1>1, SignedWithin
<1> HIDE DEF t, a, i, s
<1>6. -128 < shown /\ shown < 128 /\ shown \in Int
  BY <1>1, <1>4
<1>7. /\ t \in Int /\ -128 < t
      /\ a \in Int /\ -128 < a
  BY <1>1
<1> HIDE DEF shown
<1>8. /\ Cut(x1, 128) = Cut(t, 128) <=> x1 = t
      /\ Cut(x2, 128) = Cut(a, 128) <=> x2 = a
      /\ Cut(x3, 128) = Cut(shown, 128) <=> x3 = shown
  BY <1>1, <1>3, <1>6, <1>7, WithinCut
<1>9. Cut(shown, 128) = Cut(s, 128)
  BY DEF shown
<1>10. PackRI7(o, x1, x2, x3) = PackRI7(o, t, a, s)
         <=> Cut(x1, 128) = Cut(t, 128) /\ Cut(x2, 128) = Cut(a, 128)
             /\ Cut(x3, 128) = Cut(s, 128)
  <2>1. x1 \in Int /\ x2 \in Int /\ x3 \in Int
    BY <1>3, <1>6, <1>7
  <2> QED
    BY <1>4, <1>7, <2>1, SameRI7
<1> QED
  BY <1>2, <1>8, <1>9, <1>10 DEF t, a, i, s, shown

(* The same of RI8 words.                                                  *)
LEMMA BackRI8 ==
  ASSUME NEW w \in Word, NEW o \in Nat,
         OpField(o, 2) = OpField(w.op, 2),
         NEW x1 \in {0, w.t}, NEW x2 \in {0, w.a},
         NEW x3 \in {0, SignExtend(I8(w), 256)}
  PROVE  PackRI8(o, x1, x2, x3) = w
           <=> x1 = w.t /\ x2 = w.a /\ x3 = SignExtend(I8(w), 256)
<1> DEFINE t == w.t
           a == w.a
           i == I8(w)
           s == SignExtend(I8(w), 256)
           shown == s
<1>1. /\ a \in Nat /\ a < 128 /\ t \in Nat /\ t < 128
      /\ i \in Nat /\ i < 256
  BY Digits, Fields
<1>2. PackRI8(o, t, a, s) = w
  <2>1. Used("RI8", w) = Repacked(o, "RI8", Components("RI8", w))
    BY RepacksRI8
  <2>2. Used("RI8", w) = w
    BY DEF Used
  <2>3. Repacked(o, "RI8", Components("RI8", w)) = PackRI8(o, t, a, s)
    BY DEF Repacked, Components, Operands
  <2> QED
    BY <2>1, <2>2, <2>3
<1>3. x1 \in {0, t} /\ x2 \in {0, a} /\ x3 \in {0, shown}
  OBVIOUS
<1>4. s \in Int /\ -256 < s /\ s < 256
  BY <1>1, SignedWithin
<1> HIDE DEF t, a, i, s
<1>6. -256 < shown /\ shown < 256 /\ shown \in Int
  BY <1>1, <1>4
<1>7. /\ t \in Int /\ -128 < t
      /\ a \in Int /\ -128 < a
  BY <1>1
<1> HIDE DEF shown
<1>8. /\ Cut(x1, 128) = Cut(t, 128) <=> x1 = t
      /\ Cut(x2, 128) = Cut(a, 128) <=> x2 = a
      /\ Cut(x3, 256) = Cut(shown, 256) <=> x3 = shown
  BY <1>1, <1>3, <1>6, <1>7, WithinCut
<1>9. Cut(shown, 256) = Cut(s, 256)
  BY DEF shown
<1>10. PackRI8(o, x1, x2, x3) = PackRI8(o, t, a, s)
         <=> Cut(x1, 128) = Cut(t, 128) /\ Cut(x2, 128) = Cut(a, 128)
             /\ Cut(x3, 256) = Cut(s, 256)
  <2>1. x1 \in Int /\ x2 \in Int /\ x3 \in Int
    BY <1>3, <1>6, <1>7
  <2> QED
    BY <1>4, <1>7, <2>1, SameRI8
<1> QED
  BY <1>2, <1>8, <1>9, <1>10 DEF t, a, i, s, shown

(* The same of RI10 words.                                                 *)
LEMMA BackRI10 ==
  ASSUME NEW w \in Word, NEW o \in Nat,
         OpField(o, 8) = OpField(w.op, 8),
         NEW x1 \in {0, w.t}, NEW x2 \in {0, w.a},
         NEW x3 \in {0, SignExtend(I10(w), 1024)}
  PROVE  PackRI10(o, x1, x2, x3) = w
           <=> x1 = w.t /\ x2 = w.a /\ x3 = SignExtend(I10(w), 1024)
<1> DEFINE t == w.t
           a == w.a
           i == I10(w)
           s == SignExtend(I10(w), 1024)
           shown == s
<1>1. /\ a \in Nat /\ a < 128 /\ t \in Nat /\ t < 128
      /\ i \in Nat /\ i < 1024
  BY Digits, Fields
<1>2. PackRI10(o, t, a, s) = w
  <2>1. Used("RI10", w) = Repacked(o, "RI10", Components("RI10", w))
    BY RepacksRI10
  <2>2. Used("RI10", w) = w
    BY DEF Used
  <2>3. Repacked(o, "RI10", Components("RI10", w)) = PackRI10(o, t, a, s)
    BY DEF Repacked, Components, Operands
  <2> QED
    BY <2>1, <2>2, <2>3
<1>3. x1 \in {0, t} /\ x2 \in {0, a} /\ x3 \in {0, shown}
  OBVIOUS
<1>4. s \in Int /\ -1024 < s /\ s < 1024
  BY <1>1, SignedWithin
<1> HIDE DEF t, a, i, s
<1>6. -1024 < shown /\ shown < 1024 /\ shown \in Int
  BY <1>1, <1>4
<1>7. /\ t \in Int /\ -128 < t
      /\ a \in Int /\ -128 < a
  BY <1>1
<1> HIDE DEF shown
<1>8. /\ Cut(x1, 128) = Cut(t, 128) <=> x1 = t
      /\ Cut(x2, 128) = Cut(a, 128) <=> x2 = a
      /\ Cut(x3, 1024) = Cut(shown, 1024) <=> x3 = shown
  BY <1>1, <1>3, <1>6, <1>7, WithinCut
<1>9. Cut(shown, 1024) = Cut(s, 1024)
  BY DEF shown
<1>10. PackRI10(o, x1, x2, x3) = PackRI10(o, t, a, s)
         <=> Cut(x1, 128) = Cut(t, 128) /\ Cut(x2, 128) = Cut(a, 128)
             /\ Cut(x3, 1024) = Cut(s, 1024)
  <2>1. x1 \in Int /\ x2 \in Int /\ x3 \in Int
    BY <1>3, <1>6, <1>7
  <2> QED
    BY <1>4, <1>7, <2>1, SameRI10
<1> QED
  BY <1>2, <1>8, <1>9, <1>10 DEF t, a, i, s, shown

(* The same of RI16 words.                                                 *)
LEMMA BackRI16 ==
  ASSUME NEW w \in Word, NEW o \in Nat,
         OpField(o, 4) = OpField(w.op, 4),
         NEW x1 \in {0, w.t},
         NEW x3 \in {0, SignExtend(I16(w), 65536)}
  PROVE  PackRI16(o, x1, x3) = w
           <=> x1 = w.t /\ x3 = SignExtend(I16(w), 65536)
<1> DEFINE t == w.t
           a == w.a
           i == I16(w)
           s == SignExtend(I16(w), 65536)
           shown == s
<1>1. /\ a \in Nat /\ a < 128 /\ t \in Nat /\ t < 128
      /\ i \in Nat /\ i < 65536
  BY Digits, Fields
<1>2. PackRI16(o, t, s) = w
  <2>1. Used("RI16", w) = Repacked(o, "RI16", Components("RI16", w))
    BY RepacksRI16
  <2>2. Used("RI16", w) = w
    BY DEF Used
  <2>3. Repacked(o, "RI16", Components("RI16", w)) = PackRI16(o, t, s)
    BY DEF Repacked, Components, Operands
  <2> QED
    BY <2>1, <2>2, <2>3
<1>3. x1 \in {0, t} /\ x3 \in {0, shown}
  OBVIOUS
<1>4. s \in Int /\ -65536 < s /\ s < 65536
  BY <1>1, SignedWithin
<1> HIDE DEF t, a, i, s
<1>6. -65536 < shown /\ shown < 65536 /\ shown \in Int
  BY <1>1, <1>4
<1>7. /\ t \in Int /\ -128 < t
      /\ a \in Int /\ -128 < a
  BY <1>1
<1> HIDE DEF shown
<1>8. /\ Cut(x1, 128) = Cut(t, 128) <=> x1 = t
      /\ Cut(x3, 65536) = Cut(shown, 65536) <=> x3 = shown
  BY <1>1, <1>3, <1>6, <1>7, WithinCut
<1>9. Cut(shown, 65536) = Cut(s, 65536)
  BY DEF shown
<1>10. PackRI16(o, x1, x3) = PackRI16(o, t, s)
         <=> Cut(x1, 128) = Cut(t, 128) /\ Cut(x3, 65536) = Cut(s, 65536)
  <2>1. x1 \in Int /\ x3 \in Int
    BY <1>3, <1>6, <1>7
  <2> QED
    BY <1>4, <1>7, <2>1, SameRI16
<1> QED
  BY <1>2, <1>8, <1>9, <1>10 DEF t, a, i, s, shown

(* The same of RI18 words.                                                 *)
LEMMA BackRI18 ==
  ASSUME NEW w \in Word, NEW o \in Nat,
         OpField(o, 16) = OpField(w.op, 16),
         NEW x1 \in {0, w.t},
         NEW x3 \in {0, I18(w)}
  PROVE  PackRI18(o, x1, x3) = w
           <=> x1 = w.t /\ x3 = I18(w)
<1> DEFINE t == w.t
           a == w.a
           i == I18(w)
           s == SignExtend(I18(w), 262144)
           shown == i
<1>1. /\ a \in Nat /\ a < 128 /\ t \in Nat /\ t < 128
      /\ i \in Nat /\ i < 262144
  BY Digits, Fields
<1>2. PackRI18(o, t, s) = w
  <2>1. Used("RI18", w) = Repacked(o, "RI18", Components("RI18", w))
    BY RepacksRI18
  <2>2. Used("RI18", w) = w
    BY DEF Used
  <2>3. Repacked(o, "RI18", Components("RI18", w)) = PackRI18(o, t, s)
    BY DEF Repacked, Components, Operands
  <2> QED
    BY <2>1, <2>2, <2>3
<1>3. x1 \in {0, t} /\ x3 \in {0, shown}
  OBVIOUS
<1>4. s \in Int
  BY <1>1, SMT DEF SignExtend
<1>5. Cut(s, 262144) = Cut(i, 262144)
  <2>1. Cut(s, 262144) = i
    BY <1>1, Signed18
  <2>2. Cut(i, 262144) = i
    BY <1>1, SMT DEF Cut
  <2> QED
    BY <2>1, <2>2
<1> HIDE DEF t, a, i, s
<1>6. -262144 < shown /\ shown < 262144 /\ shown \in Int
  BY <1>1, <1>4
<1>7. /\ t \in Int /\ -128 < t
      /\ a \in Int /\ -128 < a
  BY <1>1
<1> HIDE DEF shown
<1>8. /\ Cut(x1, 128) = Cut(t, 128) <=> x1 = t
      /\ Cut(x3, 262144) = Cut(shown, 262144) <=> x3 = shown
  BY <1>1, <1>3, <1>6, <1>7, WithinCut
<1>9. Cut(shown, 262144) = Cut(s, 262144)
  BY <1>5 DEF shown
<1>10. PackRI18(o, x1, x3) = PackRI18(o, t, s)
         <=> Cut(x1, 128) = Cut(t, 128) /\ Cut(x3, 262144) = Cut(s, 262144)
  <2>1. x1 \in Int /\ x3 \in Int
    BY <1>3, <1>6, <1>7
  <2> QED
    BY <1>4, <1>7, <2>1, SameRI18
<1> QED
  BY <1>2, <1>8, <1>9, <1>10 DEF t, a, i, s, shown

-----------------------------------------------------------------------------

(* The lists of an instruction that is written as it is printed. *)
LEMMA PrefixOf ==
  ASSUME NEW list \in Seq(Kind), list # <<>>, NEW order \in Seq(Kind),
         IsPrefix(list, order)
  PROVE  /\ Len(list) \in 1 .. Len(order)
         /\ \A i \in 1 .. Len(list) : list[i] = order[i]
<1>1. Len(list) \in Nat /\ Len(order) \in Nat /\ Len(list) <= Len(order)
  BY DEF IsPrefix
<1>2. Len(list) # 0
  BY EmptySeq
<1>3. Len(list) \in 1 .. Len(order)
  BY <1>1, <1>2
<1>4. ASSUME NEW i \in 1 .. Len(list) PROVE list[i] = order[i]
  <2>1. SubSeq(list, 1, Len(list))[i] = list[i]
    BY <1>1
  <2>2. SubSeq(order, 1, Len(list))[i] = order[i]
    BY <1>1
  <2> QED
    BY <2>1, <2>2 DEF IsPrefix
<1> QED
  BY <1>3, <1>4

(* The signed readings of the fields are integers. *)
LEMMA SignedFields ==
  ASSUME NEW w \in Word
  PROVE  /\ SignExtend(w.b, 128) \in Int /\ SignExtend(I8(w), 256) \in Int
         /\ SignExtend(I10(w), 1024) \in Int
         /\ SignExtend(I16(w), 65536) \in Int
<1> DEFINE b == w.b
           i == I8(w)
           j == I10(w)
           k == I16(w)
<1>1. b \in Nat /\ i \in Nat /\ j \in Nat /\ k \in Nat
  BY Digits, Fields
<1> HIDE DEF b, i, j, k
<1>2. /\ SignExtend(b, 128) \in Int /\ SignExtend(i, 256) \in Int
      /\ SignExtend(j, 1024) \in Int /\ SignExtend(k, 65536) \in Int
  BY <1>1, SMT DEF SignExtend
<1> QED
  BY <1>2 DEF b, i, j, k

(* The tokens of a printed line are those of Written0 and the like. *)
LEMMA LinePrinted ==
  ASSUME NEW tokens, PrintedLine(tokens)
  PROVE  tokens \in Seq(Token) /\ Written0(tokens)
  BY DEF PrintedLine, Printed, Written0

(* The arguments are right, or 0, and all of them right exactly when what  *)
(* was read for the list was.                                              *)
ThreeAre(list, tokens, c, third) ==
  LET args == ReadArguments(c, <<list>>)
  IN /\ Len(list) \in 1 .. 3
     /\ args[0] \in {0, Meant(tokens[1])}
     /\ args[1] \in {0, Meant(tokens[2])}
     /\ args[third] \in {0, Meant(tokens[3])}
     /\ (\A i \in 1 .. Len(list) : ReadValue(c, i) = Meant(tokens[i])) <=>
          /\ args[0] = Meant(tokens[1])
          /\ args[1] = Meant(tokens[2])
          /\ args[third] = Meant(tokens[3])

(* What is read of the tokens of a printed line of three tokens.             *)
LEMMA ThreeRead ==
  ASSUME NEW tokens, PrintedLine(tokens), Len(tokens) = 3,
         NEW third \in {2, 7, 10},
         NEW list \in Seq(Kind), list # <<>>, IsPrefix(list, <<0, 1, third>>),
         \A i \in Len(list) + 1 .. Len(tokens) : tokens[i] = Name("LR"),
         NEW c, IsResolved(c, tokens)
  PROVE  ThreeAre(list, tokens, c, third)
<1> DEFINE args == ReadArguments(c, <<list>>)
           n == Len(list)
           x1 == Given(c, n, 1)
           x2 == Given(c, n, 2)
           x3 == Given(c, n, 3)
<1>1. n \in 1 .. 3 /\ \A i \in 1 .. n : list[i] = <<0, 1, third>>[i]
  <2>1. <<0, 1, third>> \in Seq(Kind) /\ Len(<<0, 1, third>>) = 3
    BY DEF Kind
  <2> QED
    BY <2>1, PrefixOf
<1>2. tokens \in Seq(Token) /\ Written0(tokens)
  BY LinePrinted
<1>3. c \in Seq(Token)
  BY DEF IsResolved
<1>4. args[0] = x1 /\ args[1] = x2 /\ args[third] = x3
  BY <1>1, <1>3, ThreeSlots
<1> HIDE DEF args, x1, x2, x3
<1>5. /\ \A i \in 1 .. 3 : Given(c, n, i) \in {0, Meant(tokens[i])}
      /\ (\A i \in 1 .. n : ReadValue(c, i) = Meant(tokens[i])) <=>
           \A i \in 1 .. 3 : Given(c, n, i) = Meant(tokens[i])
  <2>1. n \in 0 .. Len(tokens)
    BY <1>1
  <2>2. \A i \in n + 1 .. Len(tokens) : tokens[i] = Name("LR")
    OBVIOUS
  <2> HIDE DEF n
  <2>3. /\ \A i \in 1 .. Len(tokens) : Given(c, n, i) \in {0, Meant(tokens[i])}
        /\ (\A i \in 1 .. n : ReadValue(c, i) = Meant(tokens[i])) <=>
             \A i \in 1 .. Len(tokens) : Given(c, n, i) = Meant(tokens[i])
    BY <1>2, <2>1, <2>2, GivenRight
  <2> QED
    BY <2>3
<1>6. \A i : i \in 1 .. 3 <=> i = 1 \/ i = 2 \/ i = 3
  OBVIOUS
<1> HIDE DEF n
<1>7. x1 \in {0, Meant(tokens[1])} /\ x2 \in {0, Meant(tokens[2])} /\ x3 \in {0, Meant(tokens[3])}
  BY <1>5, <1>6, Zenon DEF x1, x2, x3
<1>8. (\A i \in 1 .. 3 : Given(c, n, i) = Meant(tokens[i])) <=>
        x1 = Meant(tokens[1]) /\ x2 = Meant(tokens[2]) /\ x3 = Meant(tokens[3])
  BY <1>6, Zenon DEF x1, x2, x3
<1> QED
  BY <1>1, <1>4, <1>5, <1>7, <1>8, Zenon DEF args, n, ThreeAre


(* The arguments are right, or 0, and all of them right exactly when what  *)
(* was read for the list was.                                              *)
TwoAre(list, tokens, c, second) ==
  LET args == ReadArguments(c, <<list>>)
  IN /\ Len(list) \in 1 .. 2
     /\ args[0] \in {0, Meant(tokens[1])}
     /\ args[second] \in {0, Meant(tokens[2])}
     /\ (\A i \in 1 .. Len(list) : ReadValue(c, i) = Meant(tokens[i])) <=>
          /\ args[0] = Meant(tokens[1])
          /\ args[second] = Meant(tokens[2])

(* What is read of the tokens of a printed line of two tokens.               *)
LEMMA TwoRead ==
  ASSUME NEW tokens, PrintedLine(tokens), Len(tokens) = 2,
         NEW second \in {16, 18},
         NEW list \in Seq(Kind), list # <<>>, IsPrefix(list, <<0, second>>),
         \A i \in Len(list) + 1 .. Len(tokens) : tokens[i] = Name("LR"),
         NEW c, IsResolved(c, tokens)
  PROVE  TwoAre(list, tokens, c, second)
<1> DEFINE args == ReadArguments(c, <<list>>)
           n == Len(list)
           x1 == Given(c, n, 1)
           x2 == Given(c, n, 2)
<1>1. n \in 1 .. 2 /\ \A i \in 1 .. n : list[i] = <<0, second>>[i]
  <2>1. <<0, second>> \in Seq(Kind) /\ Len(<<0, second>>) = 2
    BY DEF Kind
  <2> QED
    BY <2>1, PrefixOf
<1>2. tokens \in Seq(Token) /\ Written0(tokens)
  BY LinePrinted
<1>3. c \in Seq(Token)
  BY DEF IsResolved
<1>4. args[0] = x1 /\ args[second] = x2
  BY <1>1, <1>3, TwoSlots
<1> HIDE DEF args, x1, x2
<1>5. /\ \A i \in 1 .. 2 : Given(c, n, i) \in {0, Meant(tokens[i])}
      /\ (\A i \in 1 .. n : ReadValue(c, i) = Meant(tokens[i])) <=>
           \A i \in 1 .. 2 : Given(c, n, i) = Meant(tokens[i])
  <2>1. n \in 0 .. Len(tokens)
    BY <1>1
  <2>2. \A i \in n + 1 .. Len(tokens) : tokens[i] = Name("LR")
    OBVIOUS
  <2> HIDE DEF n
  <2>3. /\ \A i \in 1 .. Len(tokens) : Given(c, n, i) \in {0, Meant(tokens[i])}
        /\ (\A i \in 1 .. n : ReadValue(c, i) = Meant(tokens[i])) <=>
             \A i \in 1 .. Len(tokens) : Given(c, n, i) = Meant(tokens[i])
    BY <1>2, <2>1, <2>2, GivenRight
  <2> QED
    BY <2>3
<1>6. \A i : i \in 1 .. 2 <=> i = 1 \/ i = 2
  OBVIOUS
<1> HIDE DEF n
<1>7. x1 \in {0, Meant(tokens[1])} /\ x2 \in {0, Meant(tokens[2])}
  BY <1>5, <1>6, Zenon DEF x1, x2
<1>8. (\A i \in 1 .. 2 : Given(c, n, i) = Meant(tokens[i])) <=>
        x1 = Meant(tokens[1]) /\ x2 = Meant(tokens[2])
  BY <1>6, Zenon DEF x1, x2
<1> QED
  BY <1>1, <1>4, <1>5, <1>7, <1>8, Zenon DEF args, n, TwoAre


(* A line as it is printed, read with a list of its first arguments, is    *)
(* put together to the word exactly when what is read is what was meant.   *)
LEMMA FormRR ==
  ASSUME NEW w \in Word, NEW o \in Nat, o = w.op,
         NEW list \in Seq(Kind), list # <<>>,
         IsPrefix(list, PrintedOrder("RR")),
         NEW tokens, tokens = OperandTokens(o, "RR", w),
         \A i \in Len(list) + 1 .. Len(tokens) : tokens[i] = Name("LR"),
         NEW c, IsResolved(c, tokens)
  PROVE  /\ Len(list) \in 1 .. Len(tokens)
         /\ Pack("RR", o, ReadArguments(c, <<list>>)) = w
              <=> \A i \in 1 .. Len(list) : ReadValue(c, i) = Meant(tokens[i])
<1> DEFINE args == ReadArguments(c, <<list>>)
           v == w.b
<1>1. w.t \in Int /\ w.a \in Int /\ v \in Int
  BY Digits
<1>2. tokens = <<RegisterToken(w.t), RegisterToken(w.a), RegisterToken(v)>>
  BY DEF OperandTokens, RRTokens
<1> HIDE DEF v
<1>3. /\ Printed(RegisterToken(w.t)) /\ Meant(RegisterToken(w.t)) = w.t
      /\ Printed(RegisterToken(w.a)) /\ Meant(RegisterToken(w.a)) = w.a
      /\ Printed(RegisterToken(v)) /\ Meant(RegisterToken(v)) = v
  BY <1>1, RegisterPrinted, NumberPrinted
<1>4. PrintedLine(tokens) /\ Len(tokens) = 3
  BY <1>2, <1>3, ThreePrinted
<1>5. Meant(tokens[1]) = w.t /\ Meant(tokens[2]) = w.a /\ Meant(tokens[3]) = v
  BY <1>2, <1>3
<1>6. PrintedOrder("RR") = <<0, 1, 2>>
  BY DEF PrintedOrder, A_T, A_A, A_B, A_S7, A_S10, A_S16, A_U18
<1>7. /\ Len(list) \in 1 .. 3
      /\ args[0] \in {0, w.t}
      /\ args[1] \in {0, w.a}
      /\ args[2] \in {0, v}
      /\ (\A i \in 1 .. Len(list) : ReadValue(c, i) = Meant(tokens[i])) <=>
           args[0] = w.t /\ args[1] = w.a /\ args[2] = v
  <2>1. IsPrefix(list, <<0, 1, 2>>) /\ 2 \in {2, 7, 10}
    BY <1>6
  <2>2. ThreeAre(list, tokens, c, 2)
    BY <1>4, <2>1, ThreeRead
  <2> HIDE DEF args
  <2> QED
    BY <1>5, <2>2, Zenon DEF ThreeAre, args
<1> HIDE DEF args
<1>8. Pack("RR", o, args) = PackRR(o, args[0], args[1], args[2])
  BY DEF Pack, A_T, A_A, A_B
<1>9. PackRR(o, args[0], args[1], args[2]) = w <=>
        args[0] = w.t /\ args[1] = w.a /\ args[2] = v
  BY <1>7, BackRR DEF v
<1> QED
  BY <1>4, <1>7, <1>8, <1>9, Zenon DEF args


(* The line printed of an RI7 word is assembled to that word when every    *)
(* operand the list asks for is read as it is meant.                       *)
LEMMA FormRI7 ==
  ASSUME NEW w \in Word, NEW o \in Nat, o = w.op,
         NEW list \in Seq(Kind), list # <<>>,
         IsPrefix(list, PrintedOrder("RI7")),
         NEW tokens, tokens = OperandTokens(o, "RI7", w),
         \A i \in Len(list) + 1 .. Len(tokens) : tokens[i] = Name("LR"),
         NEW c, IsResolved(c, tokens)
  PROVE  /\ Len(list) \in 1 .. Len(tokens)
         /\ Pack("RI7", o, ReadArguments(c, <<list>>)) = w
              <=> \A i \in 1 .. Len(list) : ReadValue(c, i) = Meant(tokens[i])
<1> DEFINE args == ReadArguments(c, <<list>>)
           v == SignExtend(w.b, 128)
<1>1. w.t \in Int /\ w.a \in Int /\ v \in Int
  BY Digits, SignedFields
<1>2. tokens = <<RegisterToken(w.t), RegisterToken(w.a), Num(v)>>
  BY DEF OperandTokens
<1> HIDE DEF v
<1>3. /\ Printed(RegisterToken(w.t)) /\ Meant(RegisterToken(w.t)) = w.t
      /\ Printed(RegisterToken(w.a)) /\ Meant(RegisterToken(w.a)) = w.a
      /\ Printed(Num(v)) /\ Meant(Num(v)) = v
  BY <1>1, RegisterPrinted, NumberPrinted
<1>4. PrintedLine(tokens) /\ Len(tokens) = 3
  BY <1>2, <1>3, ThreePrinted
<1>5. Meant(tokens[1]) = w.t /\ Meant(tokens[2]) = w.a /\ Meant(tokens[3]) = v
  BY <1>2, <1>3
<1>6. PrintedOrder("RI7") = <<0, 1, 7>>
  BY DEF PrintedOrder, A_T, A_A, A_B, A_S7, A_S10, A_S16, A_U18
<1>7. /\ Len(list) \in 1 .. 3
      /\ args[0] \in {0, w.t}
      /\ args[1] \in {0, w.a}
      /\ args[7] \in {0, v}
      /\ (\A i \in 1 .. Len(list) : ReadValue(c, i) = Meant(tokens[i])) <=>
           args[0] = w.t /\ args[1] = w.a /\ args[7] = v
  <2>1. IsPrefix(list, <<0, 1, 7>>) /\ 7 \in {2, 7, 10}
    BY <1>6
  <2>2. ThreeAre(list, tokens, c, 7)
    BY <1>4, <2>1, ThreeRead
  <2> HIDE DEF args
  <2> QED
    BY <1>5, <2>2, Zenon DEF ThreeAre, args
<1> HIDE DEF args
<1>8. Pack("RI7", o, args) = PackRI7(o, args[0], args[1], args[7])
  BY DEF Pack, A_T, A_A, A_S7
<1>9. PackRI7(o, args[0], args[1], args[7]) = w <=>
        args[0] = w.t /\ args[1] = w.a /\ args[7] = v
  BY <1>7, BackRI7 DEF v
<1> QED
  BY <1>4, <1>7, <1>8, <1>9, Zenon DEF args


(* The same of RI8 words.                                                  *)
LEMMA FormRI8 ==
  ASSUME NEW w \in Word, NEW o \in Nat, OpField(o, 2) = OpField(w.op, 2),
         NEW list \in Seq(Kind), list # <<>>,
         IsPrefix(list, PrintedOrder("RI8")),
         NEW tokens, tokens = OperandTokens(o, "RI8", w),
         \A i \in Len(list) + 1 .. Len(tokens) : tokens[i] = Name("LR"),
         NEW c, IsResolved(c, tokens)
  PROVE  /\ Len(list) \in 1 .. Len(tokens)
         /\ Pack("RI8", o, ReadArguments(c, <<list>>)) = w
              <=> \A i \in 1 .. Len(list) : ReadValue(c, i) = Meant(tokens[i])
<1> DEFINE args == ReadArguments(c, <<list>>)
           v == SignExtend(I8(w), 256)
<1>1. w.t \in Int /\ w.a \in Int /\ v \in Int
  BY Digits, SignedFields
<1>2. tokens = <<RegisterToken(w.t), RegisterToken(w.a), Num(v)>>
  BY DEF OperandTokens
<1> HIDE DEF v
<1>3. /\ Printed(RegisterToken(w.t)) /\ Meant(RegisterToken(w.t)) = w.t
      /\ Printed(RegisterToken(w.a)) /\ Meant(RegisterToken(w.a)) = w.a
      /\ Printed(Num(v)) /\ Meant(Num(v)) = v
  BY <1>1, RegisterPrinted, NumberPrinted
<1>4. PrintedLine(tokens) /\ Len(tokens) = 3
  BY <1>2, <1>3, ThreePrinted
<1>5. Meant(tokens[1]) = w.t /\ Meant(tokens[2]) = w.a /\ Meant(tokens[3]) = v
  BY <1>2, <1>3
<1>6. PrintedOrder("RI8") = <<0, 1, 7>>
  BY DEF PrintedOrder, A_T, A_A, A_B, A_S7, A_S10, A_S16, A_U18
<1>7. /\ Len(list) \in 1 .. 3
      /\ args[0] \in {0, w.t}
      /\ args[1] \in {0, w.a}
      /\ args[7] \in {0, v}
      /\ (\A i \in 1 .. Len(list) : ReadValue(c, i) = Meant(tokens[i])) <=>
           args[0] = w.t /\ args[1] = w.a /\ args[7] = v
  <2>1. IsPrefix(list, <<0, 1, 7>>) /\ 7 \in {2, 7, 10}
    BY <1>6
  <2>2. ThreeAre(list, tokens, c, 7)
    BY <1>4, <2>1, ThreeRead
  <2> HIDE DEF args
  <2> QED
    BY <1>5, <2>2, Zenon DEF ThreeAre, args
<1> HIDE DEF args
<1>8. Pack("RI8", o, args) = PackRI8(o, args[0], args[1], args[7])
  BY DEF Pack, A_T, A_A, A_U7A
<1>9. PackRI8(o, args[0], args[1], args[7]) = w <=>
        args[0] = w.t /\ args[1] = w.a /\ args[7] = v
  BY <1>7, BackRI8 DEF v
<1> QED
  BY <1>4, <1>7, <1>8, <1>9, Zenon DEF args


(* The same of RI10 words.                                                 *)
LEMMA FormRI10 ==
  ASSUME NEW w \in Word, NEW o \in Nat, OpField(o, 8) = OpField(w.op, 8),
         NEW list \in Seq(Kind), list # <<>>,
         IsPrefix(list, PrintedOrder("RI10")),
         NEW tokens, tokens = OperandTokens(o, "RI10", w),
         \A i \in Len(list) + 1 .. Len(tokens) : tokens[i] = Name("LR"),
         NEW c, IsResolved(c, tokens)
  PROVE  /\ Len(list) \in 1 .. Len(tokens)
         /\ Pack("RI10", o, ReadArguments(c, <<list>>)) = w
              <=> \A i \in 1 .. Len(list) : ReadValue(c, i) = Meant(tokens[i])
<1> DEFINE args == ReadArguments(c, <<list>>)
           v == SignExtend(I10(w), 1024)
<1>1. w.t \in Int /\ w.a \in Int /\ v \in Int
  BY Digits, SignedFields
<1>2. tokens = <<RegisterToken(w.t), RegisterToken(w.a), Num(v)>>
  BY DEF OperandTokens
<1> HIDE DEF v
<1>3. /\ Printed(RegisterToken(w.t)) /\ Meant(RegisterToken(w.t)) = w.t
      /\ Printed(RegisterToken(w.a)) /\ Meant(RegisterToken(w.a)) = w.a
      /\ Printed(Num(v)) /\ Meant(Num(v)) = v
  BY <1>1, RegisterPrinted, NumberPrinted
<1>4. PrintedLine(tokens) /\ Len(tokens) = 3
  BY <1>2, <1>3, ThreePrinted
<1>5. Meant(tokens[1]) = w.t /\ Meant(tokens[2]) = w.a /\ Meant(tokens[3]) = v
  BY <1>2, <1>3
<1>6. PrintedOrder("RI10") = <<0, 1, 10>>
  BY DEF PrintedOrder, A_T, A_A, A_B, A_S7, A_S10, A_S16, A_U18
<1>7. /\ Len(list) \in 1 .. 3
      /\ args[0] \in {0, w.t}
      /\ args[1] \in {0, w.a}
      /\ args[10] \in {0, v}
      /\ (\A i \in 1 .. Len(list) : ReadValue(c, i) = Meant(tokens[i])) <=>
           args[0] = w.t /\ args[1] = w.a /\ args[10] = v
  <2>1. IsPrefix(list, <<0, 1, 10>>) /\ 10 \in {2, 7, 10}
    BY <1>6
  <2>2. ThreeAre(list, tokens, c, 10)
    BY <1>4, <2>1, ThreeRead
  <2> HIDE DEF args
  <2> QED
    BY <1>5, <2>2, Zenon DEF ThreeAre, args
<1> HIDE DEF args
<1>8. Pack("RI10", o, args) = PackRI10(o, args[0], args[1], args[10])
  BY DEF Pack, A_T, A_A, A_S10
<1>9. PackRI10(o, args[0], args[1], args[10]) = w <=>
        args[0] = w.t /\ args[1] = w.a /\ args[10] = v
  BY <1>7, BackRI10 DEF v
<1> QED
  BY <1>4, <1>7, <1>8, <1>9, Zenon DEF args


(* The same of RI16 words.                                                 *)
LEMMA FormRI16 ==
  ASSUME NEW w \in Word, NEW o \in Nat, OpField(o, 4) = OpField(w.op, 4),
         NEW list \in Seq(Kind), list # <<>>,
         IsPrefix(list, PrintedOrder("RI16")),
         NEW tokens, tokens = OperandTokens(o, "RI16", w),
         \A i \in Len(list) + 1 .. Len(tokens) : tokens[i] = Name("LR"),
         NEW c, IsResolved(c, tokens)
  PROVE  /\ Len(list) \in 1 .. Len(tokens)
         /\ Pack("RI16", o, ReadArguments(c, <<list>>)) = w
              <=> \A i \in 1 .. Len(list) : ReadValue(c, i) = Meant(tokens[i])
<1> DEFINE args == ReadArguments(c, <<list>>)
           v == SignExtend(I16(w), 65536)
<1>1. w.t \in Int /\ w.a \in Int /\ v \in Int
  BY Digits, SignedFields
<1>2. tokens = <<RegisterToken(w.t), Num(v)>>
  BY DEF OperandTokens
<1> HIDE DEF v
<1>3. /\ Printed(RegisterToken(w.t)) /\ Meant(RegisterToken(w.t)) = w.t
      /\ Printed(Num(v)) /\ Meant(Num(v)) = v
  BY <1>1, RegisterPrinted, NumberPrinted
<1>4. PrintedLine(tokens) /\ Len(tokens) = 2
  BY <1>2, <1>3, TwoPrinted
<1>5. Meant(tokens[1]) = w.t /\ Meant(tokens[2]) = v
  BY <1>2, <1>3
<1>6. PrintedOrder("RI16") = <<0, 16>>
  BY DEF PrintedOrder, A_T, A_A, A_B, A_S7, A_S10, A_S16, A_U18
<1>7. /\ Len(list) \in 1 .. 2
      /\ args[0] \in {0, w.t}
      /\ args[16] \in {0, v}
      /\ (\A i \in 1 .. Len(list) : ReadValue(c, i) = Meant(tokens[i])) <=>
           args[0] = w.t /\ args[16] = v
  <2>1. IsPrefix(list, <<0, 16>>) /\ 16 \in {16, 18}
    BY <1>6
  <2>2. TwoAre(list, tokens, c, 16)
    BY <1>4, <2>1, TwoRead
  <2> HIDE DEF args
  <2> QED
    BY <1>5, <2>2, Zenon DEF TwoAre, args
<1> HIDE DEF args
<1>8. Pack("RI16", o, args) = PackRI16(o, args[0], args[16])
  BY DEF Pack, A_T, A_S16
<1>9. PackRI16(o, args[0], args[16]) = w <=>
        args[0] = w.t /\ args[16] = v
  BY <1>7, BackRI16 DEF v
<1> QED
  BY <1>4, <1>7, <1>8, <1>9, Zenon DEF args


(* The same of RI18 words.                                                 *)
LEMMA FormRI18 ==
  ASSUME NEW w \in Word, NEW o \in Nat, OpField(o, 16) = OpField(w.op, 16),
         NEW list \in Seq(Kind), list # <<>>,
         IsPrefix(list, PrintedOrder("RI18")),
         NEW tokens, tokens = OperandTokens(o, "RI18", w),
         \A i \in Len(list) + 1 .. Len(tokens) : tokens[i] = Name("LR"),
         NEW c, IsResolved(c, tokens)
  PROVE  /\ Len(list) \in 1 .. Len(tokens)
         /\ Pack("RI18", o, ReadArguments(c, <<list>>)) = w
              <=> \A i \in 1 .. Len(list) : ReadValue(c, i) = Meant(tokens[i])
<1> DEFINE args == ReadArguments(c, <<list>>)
           v == I18(w)
<1>1. w.t \in Int /\ w.a \in Int /\ v \in Int
  BY Digits, Fields
<1>2. tokens = <<RegisterToken(w.t), Num(v)>>
  BY DEF OperandTokens
<1> HIDE DEF v
<1>3. /\ Printed(RegisterToken(w.t)) /\ Meant(RegisterToken(w.t)) = w.t
      /\ Printed(Num(v)) /\ Meant(Num(v)) = v
  BY <1>1, RegisterPrinted, NumberPrinted
<1>4. PrintedLine(tokens) /\ Len(tokens) = 2
  BY <1>2, <1>3, TwoPrinted
<1>5. Meant(tokens[1]) = w.t /\ Meant(tokens[2]) = v
  BY <1>2, <1>3
<1>6. PrintedOrder("RI18") = <<0, 18>>
  BY DEF PrintedOrder, A_T, A_A, A_B, A_S7, A_S10, A_S16, A_U18
<1>7. /\ Len(list) \in 1 .. 2
      /\ args[0] \in {0, w.t}
      /\ args[18] \in {0, v}
      /\ (\A i \in 1 .. Len(list) : ReadValue(c, i) = Meant(tokens[i])) <=>
           args[0] = w.t /\ args[18] = v
  <2>1. IsPrefix(list, <<0, 18>>) /\ 18 \in {16, 18}
    BY <1>6
  <2>2. TwoAre(list, tokens, c, 18)
    BY <1>4, <2>1, TwoRead
  <2> HIDE DEF args
  <2> QED
    BY <1>5, <2>2, Zenon DEF TwoAre, args
<1> HIDE DEF args
<1>8. Pack("RI18", o, args) = PackRI18(o, args[0], args[18])
  BY DEF Pack, A_T, A_U18
<1>9. PackRI18(o, args[0], args[18]) = w <=>
        args[0] = w.t /\ args[18] = v
  BY <1>7, BackRI18 DEF v
<1> QED
  BY <1>4, <1>7, <1>8, <1>9, Zenon DEF args

-----------------------------------------------------------------------------

(* spu_disassemble prints at most four operands, registers and numbers.    *)
LEMMA PrintedForms ==
  ASSUME NEW w \in Word, NEW o,
         NEW type \in {"RR", "RI7", "RI8", "RI10", "RI16", "RI18"}
  PROVE  LET tokens == OperandTokens(o, type, w)
         IN PrintedLine(tokens) /\ Len(tokens) <= 4
<1> DEFINE tokens == OperandTokens(o, type, w)
           s7 == SignExtend(w.b, 128)
           s8 == SignExtend(I8(w), 256)
           s10 == SignExtend(I10(w), 1024)
           s16 == SignExtend(I16(w), 65536)
           i18 == I18(w)
<1>1. /\ w.t \in Int /\ w.a \in Int /\ w.b \in Int
      /\ s7 \in Int /\ s8 \in Int /\ s10 \in Int /\ s16 \in Int /\ i18 \in Int
  BY Digits, Fields, SignedFields
<1>2. \/ tokens = <<RegisterToken(w.t), RegisterToken(w.a), RegisterToken(w.b)>>
      \/ tokens = <<RegisterToken(w.t), RegisterToken(w.a), Num(s7)>>
      \/ tokens = <<RegisterToken(w.t), RegisterToken(w.a), Num(s8)>>
      \/ tokens = <<RegisterToken(w.t), RegisterToken(w.a), Num(s10)>>
      \/ tokens = <<RegisterToken(w.t), Num(s16)>>
      \/ tokens = <<RegisterToken(w.t), Num(i18)>>
  BY DEF OperandTokens, RRTokens
<1> HIDE DEF tokens, s7, s8, s10, s16, i18
<1>3. /\ Printed(RegisterToken(w.t)) /\ Printed(RegisterToken(w.a))
      /\ Printed(RegisterToken(w.b))
      /\ Printed(Num(s7)) /\ Printed(Num(s8)) /\ Printed(Num(s10))
      /\ Printed(Num(s16)) /\ Printed(Num(i18))
  BY <1>1, RegisterPrinted, NumberPrinted
<1>4. PrintedLine(tokens) /\ (Len(tokens) = 2 \/ Len(tokens) = 3)
  BY <1>2, <1>3, ThreePrinted, TwoPrinted, Zenon
<1>5. Len(tokens) <= 4
  <2>1. 2 <= 4 /\ 3 <= 4
    OBVIOUS
  <2> QED
    BY <1>4, <2>1, Zenon
<1> QED
  BY <1>4, <1>5 DEF tokens

(* The text of a rotqmbybi begins with a name the assembler does not find, *)
(* and the word it returns for such a line is not one of that opcode.      *)
LEMMA CutNameLost ==
  ASSUME NEW w \in Word, NEW tokens \in Seq(Token), Len(tokens) <= 4,
         w.op = Rotqmbybi[2]
  PROVE  Assemble(Line(Rotqmbyb, tokens), TRUE) # w
<1> DEFINE clean == spu_preprocess_resolve_aliases(Line(Rotqmbyb, tokens))
<1>1. Rotqmbyb # Lr
  <2>1. Rotqmbyb[1] # Lr[1]
    BY DEF Rotqmbyb, Lr
  <2> QED
    BY <2>1, Zenon
<1>2. clean.mnemonic = Rotqmbyb
  BY <1>1, Resolved, Zenon
<1>3. Rotqmbyb \notin Mnemonic
  <2>1. Rotqmbyb \notin Format \X Opcode
    BY DEF Rotqmbyb, Format
  <2> QED
    BY <2>1, TableAssumption
<1> HIDE DEF clean
<1>4. Assemble(Line(Rotqmbyb, tokens), TRUE) = NotAssembled
  BY <1>2, <1>3, Zenon DEF Assemble, clean
<1>5. NotAssembled.op # Rotqmbybi[2]
  BY DEF NotAssembled, WordOf, Rotqmbybi
<1> QED
  BY <1>4, <1>5, Zenon

(* One word through spu_disassemble and spu_assemble: it comes back unless *)
(* it is a rotqmbybi, whose name is cut, or register 1 is among its        *)
(* operands, which is printed SR and not read, or LR occurs twice.         *)
LEMMA ReadsBackWord ==
  ASSUME NEW w \in Word, PrintedAsRead(OpcodeOf(w), w)
  PROVE  LET o == OpcodeOf(w)
             shown == SubSeq(OperandTokens(o, Types[o], w),
                             1, Len(ArgLists[o][1]))
         IN Assemble(Disassemble(w), TRUE) = w <=>
              /\ Mnemonics[o] # Rotqmbybi
              /\ Name("SR") \notin ToSet(shown)
              /\ ~AliasTwice(shown)
<1> DEFINE o == OpcodeOf(w)
           type == Types[o]
           lists == ArgLists[o]
           list == lists[1]
           n == Len(list)
           tokens == OperandTokens(o, type, w)
           shown == SubSeq(tokens, 1, n)
<1>1. o \in Opcode /\ o \in Nat
  <2>1. w.op \in Opcode
    BY DEF Word, Opcode
  <2>2. o \in Opcode
    BY <2>1, DecodedFrom DEF OpcodeOf
  <2> HIDE DEF o
  <2> QED
    BY <2>2 DEF Opcode
<1> HIDE DEF o
<1>2. /\ Len(lists) = 1 /\ list # <<>> /\ IsPrefix(list, PrintedOrder(type))
      /\ \A i \in n + 1 .. Len(tokens) : tokens[i] = Name("LR")
  BY DEF PrintedAsRead, o
<1>3. lists \in Seq(Seq(Kind))
  BY <1>1, TableAssumption DEF Kind
<1>4. RowsOf[o] # <<>>
  <2>1. DOMAIN lists = DOMAIN RowsOf[o]
    BY <1>1 DEF ArgLists
  <2> HIDE DEF lists
  <2>2. 1 \in DOMAIN lists
    BY <1>2, <1>3
  <2> QED
    BY <2>1, <2>2
<1>5. type \in Format /\ type # NoType
  BY <1>1, <1>4, MnemonicIs
<1>6. TypeOf(w) = type
  BY DEF TypeOf, o
<1> HIDE DEF type, lists
<1>7. list \in Seq(Kind) /\ lists = <<list>>
  BY <1>2, <1>3
<1> HIDE DEF list
<1>8. type \in {"RR", "RI7", "RI8", "RI10", "RI16", "RI18"}
  <2> SUFFICES ASSUME type \in {"RRR", "LBT", "LBTI"} PROVE FALSE
    BY <1>5 DEF Format
  <2>1. PrintedOrder(type) = <<>>
    BY DEF PrintedOrder
  <2>2. Len(list) <= 0
    BY <1>2, <2>1 DEF IsPrefix
  <2>3. Len(list) = 0
    BY <1>7, <2>2
  <2> QED
    BY <1>2, <1>7, <2>3, EmptySeq
<1>9. PrintedLine(tokens) /\ Len(tokens) <= 4
  BY <1>8, PrintedForms
<1>10. tokens \in Seq(Token) /\ Written0(tokens)
  BY <1>9, LinePrinted
<1> DEFINE line == Line(Mnemonics[o], tokens)
<1>11. Disassemble(w) = Line(Padded(Mnemonics[o]), tokens)
  BY <1>5, Zenon DEF Disassemble, type, o, OpcodeOf
<1> HIDE DEF tokens
<1>12. PICK c \in Seq(Token) :
         /\ IsResolved(c, tokens)
         /\ Assemble(line, TRUE) = Pack(type, o, ReadArguments(c, <<list>>))
  BY <1>1, <1>4, <1>7, <1>9, <1>10, AssembledAs DEF type, lists
<1> HIDE DEF line
<1>13. /\ type \in {"RR", "RI7"} => o = w.op
       /\ OpField(o, OpValues(type)) = OpField(w.op, OpValues(type))
  BY <1>5, <1>6, DecodedField DEF o
<1>14. /\ n \in 1 .. Len(tokens)
       /\ Pack(type, o, ReadArguments(c, <<list>>)) = w
            <=> \A i \in 1 .. n : ReadValue(c, i) = Meant(tokens[i])
  <2>1. CASE type = "RR"
    BY <1>1, <1>2, <1>7, <1>12, <1>13, <2>1, FormRR DEF tokens
  <2>2. CASE type = "RI7"
    BY <1>1, <1>2, <1>7, <1>12, <1>13, <2>2, FormRI7 DEF tokens
  <2>3. CASE type = "RI8"
    BY <1>1, <1>2, <1>7, <1>12, <1>13, <2>3, FormRI8 DEF tokens, OpValues
  <2>4. CASE type = "RI10"
    BY <1>1, <1>2, <1>7, <1>12, <1>13, <2>4, FormRI10 DEF tokens, OpValues
  <2>5. CASE type = "RI16"
    BY <1>1, <1>2, <1>7, <1>12, <1>13, <2>5, FormRI16 DEF tokens, OpValues
  <2>6. CASE type = "RI18"
    BY <1>1, <1>2, <1>7, <1>12, <1>13, <2>6, FormRI18 DEF tokens, OpValues
  <2> QED
    BY <1>8, <2>1, <2>2, <2>3, <2>4, <2>5, <2>6
<1>15. Len(tokens) \in Nat /\ n \in 0 .. Len(tokens)
  BY <1>10, <1>14
<1>16. (\A i \in 1 .. n : ReadValue(c, i) = Meant(tokens[i])) <=>
         /\ \A i \in 1 .. n : tokens[i].name # "SR"
         /\ ~AliasTwice(shown)
  BY <1>10, <1>12, <1>15, ReadRight
<1>17. ToSet(shown) = {tokens[i] : i \in 1 .. n}
  BY <1>10, <1>15 DEF ToSet
<1> HIDE DEF shown, n
<1>18. Name("SR") \notin ToSet(shown) <=> \A i \in 1 .. n : tokens[i].name # "SR"
  <2>1. \A i \in 1 .. n : i \in 1 .. Len(tokens)
    BY <1>15
  <2>2. \A i \in 1 .. n : tokens[i].name = "SR" <=> tokens[i] = Name("SR")
    BY <1>9, <2>1, Zenon DEF PrintedLine, Printed
  <2> QED
    BY <1>17, <2>2
<1>19. ASSUME Mnemonics[o] # Rotqmbybi
       PROVE  Assemble(Disassemble(w), TRUE) = w <=>
                /\ Name("SR") \notin ToSet(shown)
                /\ ~AliasTwice(shown)
  <2>1. Disassemble(w) = line
    BY <1>11, <1>19, Zenon DEF Padded, line
  <2> QED
    BY <1>12, <1>14, <1>16, <1>18, <2>1, Zenon
<1>20. ASSUME Mnemonics[o] = Rotqmbybi
       PROVE  Assemble(Disassemble(w), TRUE) # w
  <2>1. Disassemble(w) = Line(Rotqmbyb, tokens)
    BY <1>11, <1>20, Zenon DEF Padded
  <2>2. <<type, o>> = Rotqmbybi
    BY <1>1, <1>4, <1>20, MnemonicIs DEF type
  <2>3. type = "RR" /\ o = Rotqmbybi[2]
    BY <2>2 DEF Rotqmbybi
  <2> QED
    BY <1>9, <1>10, <1>13, <2>1, <2>3, CutNameLost
<1>21. Assemble(Disassemble(w), TRUE) = w <=>
         /\ Mnemonics[o] # Rotqmbybi
         /\ Name("SR") \notin ToSet(shown)
         /\ ~AliasTwice(shown)
  BY <1>19, <1>20, Zenon
<1> QED
  BY <1>21, Zenon DEF shown, n, tokens, list, lists, type, o

(* The text spu_disassemble wrote is the one of the word, and what         *)
(* spu_assemble returned is what it makes of the text once the tables are  *)
(* built, as they always are when it reads them.                           *)
TextOfTheWord ==
  /\ word # None => word \in Words
  /\ word # None /\ text # None => text = Disassemble(word)
  /\ assembled # None => text # None /\ assembled = Assemble(text, TRUE)

(* Text and word of the state belong together in every order of calls.     *)
THEOREM TextInvariance == Spec => []TextOfTheWord
<1>1. Init => TextOfTheWord
  BY DEF Init, TextOfTheWord
<1>2. TextOfTheWord /\ [Next]_vars => TextOfTheWord'
  <2> SUFFICES ASSUME TextOfTheWord, [Next]_vars PROVE TextOfTheWord'
    OBVIOUS
  <2>1. CASE spu_assemble
    BY <2>1 DEF spu_assemble, TextOfTheWord
  <2>2. CASE spu_disassemble
    BY <2>2 DEF spu_disassemble, TextOfTheWord
  <2>3. CASE spu_decode_op_components
    BY <2>3 DEF spu_decode_op_components, TextOfTheWord
  <2>4. CASE PrintPseudo
    BY <2>4 DEF PrintPseudo, TextOfTheWord
  <2>5. CASE UNCHANGED vars
    BY <2>5 DEF vars, TextOfTheWord
  <2> QED
    BY <2>1, <2>2, <2>3, <2>4, <2>5 DEF Next
<1> QED
  BY <1>1, <1>2, PTL DEF Spec

(* What spu_disassemble prints of a word whose operands are printed in the *)
(* order they are read is assembled to that word again, except in exactly  *)
(* the three cases of ReadsBack.                                           *)
THEOREM ReadsBackCorrect == Spec => []ReadsBack
<1>1. TextOfTheWord => ReadsBack
  <2> SUFFICES ASSUME TextOfTheWord, word # None, assembled # None,
                      PrintedAsRead(Decoded[word.op], word)
               PROVE  ReadsBack
    BY DEF ReadsBack
  <2>1. word \in Word /\ assembled = Assemble(Disassemble(word), TRUE)
    BY WordsAssumption DEF TextOfTheWord
  <2>2. PrintedAsRead(OpcodeOf(word), word)
    BY DEF OpcodeOf
  <2> QED
    BY <2>1, <2>2, ReadsBackWord, Zenon DEF ReadsBack, OpcodeOf
<1> QED
  BY <1>1, TextInvariance, PTL

-----------------------------------------------------------------------------

(* The slots an argument is put in, and what is put there: a scaled one is *)
(* put in the immediate's slot, too.                                       *)
Stores(argt) ==
  CASE argt = A_P -> {}
    [] argt = A_S18 -> {A_S18, A_S16}
    [] argt = A_S14 -> {A_S14, A_S10}
    [] OTHER -> {argt}

Scaled(argt, k, x) ==
  IF k = argt THEN x ELSE IF argt = A_S18 THEN x \div 4 ELSE x \div 16

(* What storing an argument leaves in each slot.                           *)
LEMMA StoreAt ==
  ASSUME NEW args \in [Kind -> Int], NEW argt \in Kind, NEW x \in Int,
         NEW k \in Kind
  PROVE  Store(args, argt, x)[k] = IF k \in Stores(argt) THEN Scaled(argt, k, x)
                                                         ELSE args[k]
<1>1. DOMAIN args = Kind
  OBVIOUS
<1>0. A_P # A_S18 /\ A_P # A_S14 /\ A_S18 # A_S14
  BY DEF A_P, A_S18, A_S14
<1>2. CASE argt = A_P
  <2>1. Store(args, argt, x) = args
    BY <1>0, <1>2, Zenon DEF Store
  <2>2. Stores(argt) = {}
    BY <1>0, <1>2, Zenon DEF Stores
  <2> QED
    BY <2>1, <2>2
<1>3. CASE argt = A_S18
  <2>1. Store(args, argt, x) = [args EXCEPT ![A_S18] = x, ![A_S16] = x \div 4]
    BY <1>0, <1>3, Zenon DEF Store
  <2>2. Stores(argt) = {A_S18, A_S16}
    BY <1>0, <1>3, Zenon DEF Stores
  <2>3. Scaled(argt, A_S18, x) = x /\ Scaled(argt, A_S16, x) = x \div 4
    BY <1>3 DEF Scaled, A_S18, A_S16
  <2> DEFINE q == x \div 4
  <2>4. [args EXCEPT ![A_S18] = x, ![A_S16] = q][k]
          = IF k = A_S16 THEN q ELSE IF k = A_S18 THEN x ELSE args[k]
    <3> HIDE DEF q
    <3> QED
      BY <1>1 DEF Kind, A_S18, A_S16
  <2> QED
    BY <2>1, <2>2, <2>3, <2>4
<1>4. CASE argt = A_S14
  <2>1. Store(args, argt, x) = [args EXCEPT ![A_S14] = x, ![A_S10] = x \div 16]
    BY <1>0, <1>4, Zenon DEF Store
  <2>2. Stores(argt) = {A_S14, A_S10}
    BY <1>0, <1>4, Zenon DEF Stores
  <2>3. Scaled(argt, A_S14, x) = x /\ Scaled(argt, A_S10, x) = x \div 16
    BY <1>4 DEF Scaled, A_S18, A_S14, A_S10
  <2> DEFINE q == x \div 16
  <2>4. [args EXCEPT ![A_S14] = x, ![A_S10] = q][k]
          = IF k = A_S10 THEN q ELSE IF k = A_S14 THEN x ELSE args[k]
    <3> HIDE DEF q
    <3> QED
      BY <1>1 DEF Kind, A_S14, A_S10
  <2> QED
    BY <2>1, <2>2, <2>3, <2>4
<1>5. CASE argt # A_P /\ argt # A_S18 /\ argt # A_S14
  <2>1. Store(args, argt, x) = [args EXCEPT ![argt] = x]
    BY <1>5, Zenon DEF Store
  <2>2. Stores(argt) = {argt}
    BY <1>5, Zenon DEF Stores
  <2>3. Scaled(argt, argt, x) = x
    BY DEF Scaled
  <2> QED
    BY <1>1, <2>1, <2>2, <2>3
<1> QED
  BY <1>2, <1>3, <1>4, <1>5

(* What is read is a number, also past the end of the line.                *)
LEMMA ReadValueInt ==
  ASSUME NEW c \in Seq(Token), NEW k \in Nat
  PROVE  ReadValue(c, k) \in Int
<1>1. CASE k = 0 \/ Len(c) = 0 \/ Ended(c, k)
  BY <1>1 DEF ReadValue
<1>2. CASE ~(k = 0 \/ Len(c) = 0 \/ Ended(c, k))
  <2> DEFINE i == IF k <= Len(c) THEN k ELSE Len(c)
  <2>1. i \in 1 .. Len(c)
    BY <1>2
  <2>2. c[i] \in Token
    BY <2>1
  <2>3. ReadValue(c, k) = c[i].value
    BY <1>2 DEF ReadValue
  <2> QED
    BY <2>2, <2>3 DEF Token
<1> QED
  BY <1>1, <1>2

(* The arguments of a list are put in slots of their own. *)
Apart(list) ==
  \A i, j \in 1 .. Len(list) :
    i # j => \A k \in Stores(list[i]) : k \notin Stores(list[j])

(* args are the slots old with the values of a list read from c. *)
Filled(args, old, list, c) ==
  /\ \A i \in 1 .. Len(list) : \A k \in Stores(list[i]) :
       k \in Kind => args[k] = Scaled(list[i], k, ReadValue(c, i))
  /\ \A k \in Kind :
       (\A i \in 1 .. Len(list) : k \notin Stores(list[i])) => args[k] = old[k]

(* Reading a list of at most four different arguments fills their slots    *)
(* from the line, in order, and leaves the other slots alone.              *)
LEMMA ListFills ==
  ASSUME NEW c \in Seq(Token), NEW st \in State, st.rest = c,
         NEW list \in Seq(Kind), Len(list) \in 0 .. 4, Apart(list)
  PROVE  LET r == ReadList(st, list)
         IN /\ r \in State /\ IsLeft(r.rest, c, Len(list))
            /\ Filled(r.args, st.args, list, c)
<1> DEFINE n == Len(list)
           r == ReadList(st, list)
           v(i) == ReadValue(c, i)
           a0 == st.args
           a1 == Store(a0, list[1], v(1))
           a2 == Store(a1, list[2], v(2))
           a3 == Store(a2, list[3], v(3))
           a4 == Store(a3, list[4], v(4))
           Put(i, k) == Scaled(list[i], k, v(i))
           Of(i) == Stores(list[i])
           Step(a, old, i) ==
             /\ a \in [Kind -> Int]
             /\ \A k \in Kind : a[k] = IF k \in Of(i) THEN Put(i, k) ELSE old[k]
<1>1. /\ r \in State /\ IsLeft(r.rest, c, n)
      /\ n = 0 => r.args = a0
      /\ n = 1 => r.args = a1
      /\ n = 2 => r.args = a2
      /\ n = 3 => r.args = a3
      /\ n = 4 => r.args = a4
  BY ListRead
<1>2. \A i \in Nat : v(i) \in Int
  BY ReadValueInt
<1>3. \A i \in 1 .. n : list[i] \in Kind
  OBVIOUS
<1>4. a0 \in [Kind -> Int]
  BY DEF State
<1>5. ASSUME NEW a \in [Kind -> Int], NEW i \in 1 .. 4, i <= n
      PROVE  Step(Store(a, list[i], v(i)), a, i)
  <2>1. list[i] \in Kind /\ v(i) \in Int
    BY <1>2, <1>3, <1>5
  <2>2. Store(a, list[i], v(i)) \in [Kind -> Int]
    BY <2>1, Stored
  <2>3. \A k \in Kind : Store(a, list[i], v(i))[k]
                          = IF k \in Of(i) THEN Put(i, k) ELSE a[k]
    BY <2>1, StoreAt
  <2> QED
    BY <2>2, <2>3
<1> HIDE DEF Put, Of, v, a0, r, n
<1>6. n >= 1 => Step(a1, a0, 1)
  BY <1>4, <1>5
<1> HIDE DEF a1
<1>7. n >= 2 => Step(a2, a1, 2)
  BY <1>5, <1>6, n \in 0 .. 4 DEF n
<1> HIDE DEF a2
<1>8. n >= 3 => Step(a3, a2, 3)
  BY <1>5, <1>6, <1>7, n \in 0 .. 4 DEF n
<1> HIDE DEF a3
<1>9. n >= 4 => Step(a4, a3, 4)
  BY <1>5, <1>6, <1>7, <1>8, n \in 0 .. 4 DEF n
<1> HIDE DEF a4
<1>10. \A i, j \in 1 .. n : i # j => \A k \in Of(i) : k \notin Of(j)
  BY DEF Apart, Of, n
<1> DEFINE Right(a) ==
             /\ \A i \in 1 .. n : \A k \in Of(i) : k \in Kind => a[k] = Put(i, k)
             /\ \A k \in Kind : (\A i \in 1 .. n : k \notin Of(i)) => a[k] = a0[k]
<1>11. Right(r.args)
  <2>1. CASE n = 0
    BY <1>1, <2>1
  <2>2. CASE n = 1
    BY <1>1, <1>6, <1>10, <2>2
  <2>3. CASE n = 2
    BY <1>1, <1>6, <1>7, <1>10, <2>3
  <2>4. CASE n = 3
    BY <1>1, <1>6, <1>7, <1>8, <1>10, <2>4
  <2>5. CASE n = 4
    <3>1. \A i \in 1 .. n : i \in {1, 2, 3, 4}
      BY <2>5
    <3>2. ASSUME NEW k \in Kind
          PROVE  a4[k] = IF k \in Of(4) THEN Put(4, k)
                         ELSE IF k \in Of(3) THEN Put(3, k)
                         ELSE IF k \in Of(2) THEN Put(2, k)
                         ELSE IF k \in Of(1) THEN Put(1, k) ELSE a0[k]
      BY <1>6, <1>7, <1>8, <1>9, <2>5
    <3>3. ASSUME NEW i \in 1 .. n, NEW k \in Of(i), k \in Kind
          PROVE  a4[k] = Put(i, k)
      BY <1>10, <2>5, <3>1, <3>2, <3>3
    <3>4. ASSUME NEW k \in Kind, \A i \in 1 .. n : k \notin Of(i)
          PROVE  a4[k] = a0[k]
      BY <2>5, <3>2, <3>4
    <3> QED
      BY <1>1, <2>5, <3>3, <3>4
  <2> QED
    BY <2>1, <2>2, <2>3, <2>4, <2>5 DEF n
<1> QED
  BY <1>1, <1>11 DEF Filled, Put, Of, v, a0, n, r

-----------------------------------------------------------------------------

(* The slots an instruction of a format is put together from.              *)
Slots(type) ==
  CASE type = "RR" -> {A_T, A_A, A_B}
    [] type \in {"RI7", "RI8"} -> {A_T, A_A, A_S7}
    [] type = "RI10" -> {A_T, A_A, A_S10}
    [] type = "RI16" -> {A_T, A_S16}
    [] type = "RI18" -> {A_T, A_U18}
    [] OTHER -> {}

(* Two operands for a slot that are equal, or of which one is 0 and the    *)
(* other fits.                                                             *)
Near(x, y, values) ==
  /\ x \in Int /\ y \in Int
  /\ \/ x = y
     \/ /\ -values < x /\ x < values /\ -values < y /\ y < values
        /\ x = 0 \/ y = 0

(* Two such operands are equal when their low bits are.                    *)
LEMMA NearCut ==
  ASSUME NEW x, NEW y, NEW values \in {128, 256, 1024, 65536, 262144},
         Near(x, y, values)
  PROVE  Cut(x, values) = Cut(y, values) <=> x = y
<1>1. CASE values = 128
  BY <1>1, SMT DEF Near, Cut
<1>2. CASE values = 256
  BY <1>2, SMT DEF Near, Cut
<1>3. CASE values = 1024
  BY <1>3, SMT DEF Near, Cut
<1>4. CASE values = 65536
  BY <1>4, SMT DEF Near, Cut
<1>5. CASE values = 262144
  BY <1>5, SMT DEF Near, Cut
<1> QED
  BY <1>1, <1>2, <1>3, <1>4, <1>5

PlainFormats == {"RR", "RI7", "RI8", "RI10", "RI16", "RI18"}

(* Operands that are near each other give the same word only if they are   *)
(* the same.                                                               *)
LEMMA SamePack ==
  ASSUME NEW type \in PlainFormats, NEW o \in Nat, NEW got, NEW want,
         \A k \in Slots(type) : Near(got[k], want[k], FieldValues(type, k))
  PROVE  Pack(type, o, got) = Pack(type, o, want)
           <=> \A k \in Slots(type) : got[k] = want[k]
<1> DEFINE Eq(k, v) == Cut(got[k], v) = Cut(want[k], v) <=> got[k] = want[k]
           Ints(k) == got[k] \in Int /\ want[k] \in Int
<1>1. ASSUME NEW k, NEW v \in {128, 256, 1024, 65536, 262144},
             Near(got[k], want[k], v)
      PROVE  Eq(k, v) /\ Ints(k)
  BY <1>1, NearCut DEF Near
<1>2. /\ FieldValues(type, A_T) = 128 /\ FieldValues(type, A_A) = 128
      /\ FieldValues(type, A_B) = 128
      /\ FieldValues(type, A_S10) = 1024
      /\ FieldValues(type, A_S16) = 65536 /\ FieldValues(type, A_U18) = 262144
      /\ FieldValues(type, A_S7) = IF type = "RI8" THEN 256 ELSE 128
  BY DEF FieldValues, A_T, A_A, A_B, A_S7, A_S10, A_S16, A_U18
<1> HIDE DEF Eq
<1>3. CASE type = "RR"
  <2>1. Slots(type) = {A_T, A_A, A_B}
    BY <1>3 DEF Slots
  <2>2. Eq(A_T, 128) /\ Eq(A_A, 128) /\ Eq(A_B, 128)
    BY <1>1, <1>2, <2>1
  <2>3. Pack(type, o, got) = PackRR(o, got[A_T], got[A_A], got[A_B])
    BY <1>3 DEF Pack
  <2>4. Pack(type, o, want) = PackRR(o, want[A_T], want[A_A], want[A_B])
    BY <1>3 DEF Pack
  <2> QED
    BY <2>1, <2>2, <2>3, <2>4, SameRR DEF Eq
<1>4. CASE type = "RI7"
  <2>1. Slots(type) = {A_T, A_A, A_S7}
    BY <1>4 DEF Slots
  <2>2. Eq(A_T, 128) /\ Eq(A_A, 128) /\ Eq(A_S7, 128)
    BY <1>1, <1>2, <1>4, <2>1
  <2>3. Pack(type, o, got) = PackRI7(o, got[A_T], got[A_A], got[A_S7])
    BY <1>4 DEF Pack
  <2>4. Pack(type, o, want) = PackRI7(o, want[A_T], want[A_A], want[A_S7])
    BY <1>4 DEF Pack
  <2> QED
    BY <2>1, <2>2, <2>3, <2>4, SameRI7 DEF Eq
<1>5. CASE type = "RI8"
  <2>1. Slots(type) = {A_T, A_A, A_S7}
    BY <1>5 DEF Slots
  <2>2. /\ Eq(A_T, 128) /\ Eq(A_A, 128) /\ Eq(A_S7, 256)
        /\ Ints(A_T) /\ Ints(A_A) /\ Ints(A_S7)
    BY <1>1, <1>2, <1>5, <2>1
  <2>3. Pack(type, o, got) = PackRI8(o, got[A_T], got[A_A], got[A_S7])
    BY <1>5 DEF Pack, A_S7, A_U7A
  <2>4. Pack(type, o, want) = PackRI8(o, want[A_T], want[A_A], want[A_S7])
    BY <1>5 DEF Pack, A_S7, A_U7A
  <2> QED
    BY <2>1, <2>2, <2>3, <2>4, SameRI8 DEF Eq
<1>6. CASE type = "RI10"
  <2>1. Slots(type) = {A_T, A_A, A_S10}
    BY <1>6 DEF Slots
  <2>2. /\ Eq(A_T, 128) /\ Eq(A_A, 128) /\ Eq(A_S10, 1024)
        /\ Ints(A_T) /\ Ints(A_A) /\ Ints(A_S10)
    BY <1>1, <1>2, <2>1
  <2>3. Pack(type, o, got) = PackRI10(o, got[A_T], got[A_A], got[A_S10])
    BY <1>6 DEF Pack
  <2>4. Pack(type, o, want) = PackRI10(o, want[A_T], want[A_A], want[A_S10])
    BY <1>6 DEF Pack
  <2> QED
    BY <2>1, <2>2, <2>3, <2>4, SameRI10 DEF Eq
<1>7. CASE type = "RI16"
  <2>1. Slots(type) = {A_T, A_S16}
    BY <1>7 DEF Slots
  <2>2. Eq(A_T, 128) /\ Eq(A_S16, 65536) /\ Ints(A_T) /\ Ints(A_S16)
    BY <1>1, <1>2, <2>1
  <2>3. Pack(type, o, got) = PackRI16(o, got[A_T], got[A_S16])
    BY <1>7 DEF Pack
  <2>4. Pack(type, o, want) = PackRI16(o, want[A_T], want[A_S16])
    BY <1>7 DEF Pack
  <2> QED
    BY <2>1, <2>2, <2>3, <2>4, SameRI16 DEF Eq
<1>8. CASE type = "RI18"
  <2>1. Slots(type) = {A_T, A_U18}
    BY <1>8 DEF Slots
  <2>2. Eq(A_T, 128) /\ Eq(A_U18, 262144) /\ Ints(A_T) /\ Ints(A_U18)
    BY <1>1, <1>2, <2>1
  <2>3. Pack(type, o, got) = PackRI18(o, got[A_T], got[A_U18])
    BY <1>8 DEF Pack
  <2>4. Pack(type, o, want) = PackRI18(o, want[A_T], want[A_U18])
    BY <1>8 DEF Pack
  <2> QED
    BY <2>1, <2>2, <2>3, <2>4, SameRI18 DEF Eq
<1> QED
  BY <1>3, <1>4, <1>5, <1>6, <1>7, <1>8 DEF PlainFormats

-----------------------------------------------------------------------------

(* How operands are read, once the aliases are resolved: as they are       *)
(* meant, or as 0 from an alias on that is used twice; and after the last  *)
(* one, that again.                                                        *)
ReadAs(c, tokens) ==
  /\ \A i \in 1 .. Len(tokens) : ReadValue(c, i) \in {0, ValueOf(tokens[i])}
  /\ (\A i \in 1 .. Len(tokens) : ReadValue(c, i) = ValueOf(tokens[i]))
       <=> ~AliasTwice(tokens)
  /\ Len(tokens) >= 1 => ReadValue(c, 1) = ValueOf(tokens[1])
  /\ Len(tokens) >= 2 /\ IsNumber(tokens[2]) =>
       ReadValue(c, 2) = ValueOf(tokens[2])
  /\ \A i \in Nat :
       i > Len(tokens) =>
         ReadValue(c, i) = IF tokens = <<>> THEN 0
                                            ELSE ReadValue(c, Len(tokens))

(* An operand of an input is a number or one of the aliases the assembler  *)
(* knows.                                                                  *)
LEMMA OperandFacts ==
  ASSUME NEW t \in Operand
  PROVE  /\ t \in Token /\ t.name \in {"", "LR", "SP"}
         /\ t.name = "LR" => t.value = 0
         /\ ValueOf(t) \in Int /\ Meant(t) = ValueOf(t)
<1>1. CASE t = Name("LR")
  BY <1>1 DEF Name, Token, ValueOf, Meant
<1>2. CASE t = Name("SP")
  BY <1>2 DEF Name, Token, ValueOf, Meant
<1>3. CASE t \in [name : {""}, value : Int]
  BY <1>3 DEF Token, ValueOf, Meant
<1> QED
  BY <1>1, <1>2, <1>3 DEF Operand

(* The reading ends at the same name, however many arguments there are.    *)
LEMMA PastTheEnd ==
  ASSUME NEW c \in Seq(Token), NEW i \in Nat, i > Len(c)
  PROVE  ReadValue(c, i) = IF c = <<>> THEN 0 ELSE ReadValue(c, Len(c))
<1>0. Len(c) \in Nat
  OBVIOUS
<1>1. CASE c = <<>>
  <2>1. Len(c) = 0
    BY <1>1
  <2> QED
    BY <1>1, <2>1 DEF ReadValue
<1>2. CASE c # <<>>
  <2>1. Len(c) # 0
    BY <1>2, EmptySeq
  <2>2. Ended(c, i) <=> Ended(c, Len(c))
    BY <1>0 DEF Ended
  <2> QED
    BY <1>0, <1>2, <2>1, <2>2 DEF ReadValue
<1> QED
  BY <1>1, <1>2

(* The operands of a line are read as ReadAs says.                         *)
LEMMA OperandsRead ==
  ASSUME NEW tokens \in Seq(Operand), NEW c, IsResolved(c, tokens)
  PROVE  ReadAs(c, tokens)
<1> DEFINE n == Len(tokens)
<1>1. n \in Nat /\ \A i \in 1 .. n : tokens[i] \in Operand
  OBVIOUS
<1>2. tokens \in Seq(Token)
  <2>1. \A t \in Operand : t \in Token
    BY OperandFacts
  <2> QED
    BY <2>1, SeqMonotonic
<1>3. \A i \in 1 .. n : /\ tokens[i].name \in {"", "LR", "SP"}
                        /\ ValueOf(tokens[i]) \in Int
                        /\ Meant(tokens[i]) = ValueOf(tokens[i])
  BY <1>1, OperandFacts
<1>4. Written0(tokens)
  BY <1>1, OperandFacts DEF Written0
<1>5. \A i \in 1 .. n :
        ReadValue(c, i) = IF Ended(c, i) THEN 0 ELSE ValueOf(tokens[i])
  BY <1>2, <1>3, <1>4, ValueRead
<1> DEFINE Right(k) == \A i \in 1 .. k : ReadValue(c, i) = ValueOf(tokens[i])
<1>6. ASSUME NEW k \in 0 .. n
      PROVE  Right(k) <=> ~AliasTwice(SubSeq(tokens, 1, k))
  <2>1. \A i \in 1 .. k : i \in 1 .. n
    BY <1>1
  <2>2. (\A i \in 1 .. k : ReadValue(c, i) = Meant(tokens[i])) <=>
           /\ \A i \in 1 .. k : tokens[i].name # "SR"
           /\ ~AliasTwice(SubSeq(tokens, 1, k))
    BY <1>2, <1>4, ReadRight
  <2>3. \A i \in 1 .. k : /\ tokens[i].name # "SR"
                          /\ Meant(tokens[i]) = ValueOf(tokens[i])
    BY <1>3, <2>1
  <2> QED
    BY <2>2, <2>3
<1>7. Right(n) <=> ~AliasTwice(tokens)
  <2>1. SubSeq(tokens, 1, n) = tokens
    BY <1>1
  <2>2. n \in 0 .. n
    BY <1>1
  <2>3. Right(n) <=> ~AliasTwice(SubSeq(tokens, 1, n))
    BY <1>6, <2>2, Zenon
  <2> QED
    BY <2>1, <2>3, Zenon
<1>8. n >= 1 => ReadValue(c, 1) = ValueOf(tokens[1])
  <2>1. SUFFICES ASSUME n >= 1 PROVE Right(1)
    OBVIOUS
  <2>2. ~AliasTwice(SubSeq(tokens, 1, 1))
    <3>1. DOMAIN SubSeq(tokens, 1, 1) = 1 .. 1
      BY <1>1, <2>1
    <3> QED
      BY <3>1 DEF AliasTwice
  <2> QED
    BY <1>1, <1>6, <2>1, <2>2
<1>9. n >= 2 /\ IsNumber(tokens[2]) => ReadValue(c, 2) = ValueOf(tokens[2])
  <2>1. SUFFICES ASSUME n >= 2, IsNumber(tokens[2]) PROVE Right(2)
    OBVIOUS
  <2> DEFINE both == SubSeq(tokens, 1, 2)
  <2>2. DOMAIN both = 1 .. 2 /\ both[1] = tokens[1] /\ both[2] = tokens[2]
    BY <1>1, <2>1
  <2>3. both[2].name = ""
    BY <2>1, <2>2 DEF IsNumber
  <2>4. ~AliasTwice(both)
    <3>1. ASSUME NEW i \in 1 .. 2, NEW j \in 1 .. 2, i < j PROVE j = 2
      BY <3>1
    <3> HIDE DEF both
    <3> QED
      BY <2>2, <2>3, <3>1 DEF AliasTwice
  <2> QED
    BY <1>1, <1>6, <2>1, <2>4
<1>10. ASSUME NEW i \in Nat, i > n
       PROVE  ReadValue(c, i) = IF tokens = <<>> THEN 0 ELSE ReadValue(c, n)
  <2>1. c \in Seq(Token) /\ Len(c) = n
    BY DEF IsResolved
  <2>2. c = <<>> <=> tokens = <<>>
    BY <2>1, EmptySeq
  <2> QED
    BY <1>10, <2>1, <2>2, PastTheEnd
<1> QED
  BY <1>5, <1>7, <1>8, <1>9, <1>10 DEF ReadAs

(* What the assembler makes of an input of any mnemonic but mtspr.         *)
LEMMA InputAssembled ==
  ASSUME NEW input \in Inputs, input.mnemonic # Mtspr, Len(input.operands) <= 4
  PROVE  LET m == input.mnemonic
         IN \E c \in Seq(Token) :
              /\ Len(c) = Len(input.operands)
              /\ IsResolved(c, input.operands)
              /\ ReadAs(c, input.operands)
              /\ Assemble(Written(input), TRUE)
                   = Pack(m[1], m[2], ReadArguments(c, ArgLists[m[2]]))
<1> DEFINE m == input.mnemonic
           o == m[2]
           tokens == input.operands
<1>1. m \in Mnemonic /\ tokens \in Seq(Operand)
  BY InputsAssumption
<1>2. tokens \in Seq(Token)
  <2>1. \A t \in Operand : t \in Token
    BY OperandFacts
  <2> QED
    BY <1>1, <2>1, SeqMonotonic
<1>3. m = <<m[1], o>> /\ o \in Opcode
  BY <1>1, TableAssumption
<1>4. Mnemonics[o] = m
  BY <1>1, FormsAssumption
<1>5. RowsOf[o] # <<>>
  <2>1. SUFFICES ASSUME RowsOf[o] = <<>> PROVE FALSE
    OBVIOUS
  <2>2. Mnemonics[o] = NoMnemonic
    BY <1>3, <2>1 DEF Mnemonics
  <2> QED
    BY <1>1, <1>4, <2>2, MarksAssumption
<1>6. Types[o] = m[1]
  <2>1. m = <<Types[o], o>>
    BY <1>3, <1>4, <1>5, MnemonicIs
  <2> QED
    BY <1>3, <2>1
<1>7. Written(input) = Line(m, tokens)
  <2>1. [i \in 1 .. Len(tokens) |-> tokens[i]] = tokens
    BY <1>1
  <2> QED
    BY <2>1 DEF Written
<1>8. PICK c \in Seq(Token) :
        /\ IsResolved(c, tokens)
        /\ Assemble(Line(m, tokens), TRUE)
             = Pack(m[1], o, ReadArguments(c, ArgLists[o]))
  BY <1>2, <1>3, <1>4, <1>5, <1>6, AssembledAs
<1>9. Len(c) = Len(tokens) /\ ReadAs(c, tokens)
  BY <1>1, <1>8, OperandsRead DEF IsResolved
<1> QED
  BY <1>7, <1>8, <1>9

-----------------------------------------------------------------------------

(* The operand of a kind is the one at the place the list gives it.        *)
LEMMA OperandAt ==
  ASSUME NEW input, NEW k, NEW i \in DOMAIN input.args, input.args[i] = k,
         \A j \in DOMAIN input.args : input.args[j] = k => j = i
  PROVE  OperandOf(input, k) = ValueOf(input.operands[Place(input.args, i)])
<1> DEFINE at == {j \in DOMAIN input.args : input.args[j] = k}
<1>1. at = {i}
  OBVIOUS
<1>2. (CHOOSE j \in {i} : TRUE) = i
  OBVIOUS
<1> QED
  BY <1>1, <1>2, Zenon DEF OperandOf

(* A kind the list does not ask for is 0.                                  *)
LEMMA OperandNone ==
  ASSUME NEW input, NEW k, \A j \in DOMAIN input.args : input.args[j] # k
  PROVE  OperandOf(input, k) = 0
<1>1. {j \in DOMAIN input.args : input.args[j] = k} = {}
  OBVIOUS
<1> QED
  BY <1>1, Zenon DEF OperandOf

(* The operands of an input by their kinds. *)
Wanted(input) == [k \in Kind |-> OperandOf(input, k)]

(* The pictured word of a plain format is packed from its operands as they *)
(* are.                                                                    *)
LEMMA PicturedPlain ==
  ASSUME NEW input, input.mnemonic[1] \in PlainFormats,
         \A i \in DOMAIN input.args : input.args[i] \notin {A_S14, A_U14, A_S18}
  PROVE  Pictured(input)
           = Pack(input.mnemonic[1], input.mnemonic[2], Wanted(input))
<1> DEFINE type == input.mnemonic[1]
           o == input.mnemonic[2]
           W == Wanted(input)
<1>1. ~Has(input, A_S14) /\ ~Has(input, A_U14) /\ ~Has(input, A_S18)
  BY DEF Has, ToSet
<1>2. /\ W[A_T] = OperandOf(input, A_T) /\ W[A_A] = OperandOf(input, A_A)
      /\ W[A_B] = OperandOf(input, A_B) /\ W[A_S7] = OperandOf(input, A_S7)
      /\ W[A_S10] = OperandOf(input, A_S10)
      /\ W[A_S16] = OperandOf(input, A_S16)
      /\ W[A_U18] = OperandOf(input, A_U18)
  BY DEF Wanted, Kind, A_T, A_A, A_B, A_S7, A_S10, A_S16, A_U18
<1>3. A_U7A = A_S7
  BY DEF A_U7A, A_S7
<1> HIDE DEF W
<1>4. CASE type = "RR"
  <2>1. Pack(type, o, W) = PackRR(o, W[A_T], W[A_A], W[A_B])
    BY <1>3, <1>4 DEF Pack
  <2>2. Pictured(input)
          = PackRR(o, OperandOf(input, A_T), OperandOf(input, A_A), OperandOf(input, A_B))
    BY <1>1, <1>4, Zenon DEF Pictured
  <2> QED
    BY <1>2, <2>1, <2>2 DEF W
<1>5. CASE type = "RI7"
  <2>1. Pack(type, o, W) = PackRI7(o, W[A_T], W[A_A], W[A_S7])
    BY <1>3, <1>5 DEF Pack
  <2>2. Pictured(input)
          = PackRI7(o, OperandOf(input, A_T), OperandOf(input, A_A), OperandOf(input, A_S7))
    BY <1>1, <1>5, Zenon DEF Pictured
  <2> QED
    BY <1>2, <2>1, <2>2 DEF W
<1>6. CASE type = "RI8"
  <2>1. Pack(type, o, W) = PackRI8(o, W[A_T], W[A_A], W[A_S7])
    BY <1>3, <1>6 DEF Pack
  <2>2. Pictured(input)
          = PackRI8(o, OperandOf(input, A_T), OperandOf(input, A_A), OperandOf(input, A_S7))
    BY <1>1, <1>6, Zenon DEF Pictured
  <2> QED
    BY <1>2, <2>1, <2>2 DEF W
<1>7. CASE type = "RI10"
  <2>1. Pack(type, o, W) = PackRI10(o, W[A_T], W[A_A], W[A_S10])
    BY <1>3, <1>7 DEF Pack
  <2>2. Pictured(input)
          = PackRI10(o, OperandOf(input, A_T), OperandOf(input, A_A), OperandOf(input, A_S10))
    BY <1>1, <1>7, Zenon DEF Pictured
  <2> QED
    BY <1>2, <2>1, <2>2 DEF W
<1>8. CASE type = "RI16"
  <2>1. Pack(type, o, W) = PackRI16(o, W[A_T], W[A_S16])
    BY <1>3, <1>8 DEF Pack
  <2>2. Pictured(input)
          = PackRI16(o, OperandOf(input, A_T), OperandOf(input, A_S16))
    BY <1>1, <1>8, Zenon DEF Pictured
  <2> QED
    BY <1>2, <2>1, <2>2 DEF W
<1>9. CASE type = "RI18"
  <2>1. Pack(type, o, W) = PackRI18(o, W[A_T], W[A_U18])
    BY <1>3, <1>9 DEF Pack
  <2>2. Pictured(input)
          = PackRI18(o, OperandOf(input, A_T), OperandOf(input, A_U18))
    BY <1>1, <1>9, Zenon DEF Pictured
  <2> QED
    BY <1>2, <2>1, <2>2 DEF W
<1> QED
  BY <1>4, <1>5, <1>6, <1>7, <1>8, <1>9 DEF PlainFormats, W

(* Of the cases of Garbled, those a plain format can be in.                *)
LEMMA GarbledPlain ==
  ASSUME NEW input, input.mnemonic \notin {Mtspr, Syscall},
         input.mnemonic[1] \in PlainFormats
  PROVE  Garbled(input) <=>
           \/ \E kind \in SecondList(input.mnemonic[2]) : OperandOf(input, kind) # 0
           \/ AliasTwice(input.operands)
<1>1. input.mnemonic[1] \notin {"RRR", "LBT", "LBTI"}
  BY DEF PlainFormats
<1> QED
  BY <1>1, Zenon DEF Garbled

(* AssemblesPictured of one input. *)
Right(input) ==
  Assemble(Written(input), TRUE) = Pictured(input) <=> ~Garbled(input)

(* The slots after the one list of an opcode. *)
LEMMA OneListFills ==
  ASSUME NEW c \in Seq(Token), NEW list \in Seq(Kind), Len(list) \in 0 .. 4,
         Apart(list)
  PROVE  /\ ReadArguments(c, <<list>>) \in [Kind -> Int]
         /\ Filled(ReadArguments(c, <<list>>), Zeros, list, c)
<1> DEFINE st == [args |-> Zeros, rest |-> c, temp |-> 0]
<1>1. ReadArguments(c, <<list>>) = ReadList(st, list).args
  BY OneList DEF ReadArguments, Zeros, Kind
<1>2. st \in State /\ st.rest = c /\ st.args = Zeros
  BY DEF State, Zeros
<1> HIDE DEF st
<1>3. /\ ReadList(st, list) \in State
      /\ Filled(ReadList(st, list).args, st.args, list, c)
  BY <1>2, ListFills
<1> QED
  BY <1>1, <1>2, <1>3 DEF State

(* The kinds that are put in their own slot only. *)
LEMMA PlainKinds ==
  ASSUME NEW type, NEW k \in Slots(type)
  PROVE  /\ k \in Kind /\ k \notin {A_P, A_S14, A_U14, A_S18}
         /\ Stores(k) = {k} /\ \A x : Scaled(k, k, x) = x
<1>1. k \in {0, 1, 2, 7, 10, 16, 18}
  <2>1. k \in {A_T, A_A, A_B, A_S7, A_S10, A_S16, A_U18}
    BY Zenon DEF Slots
  <2> QED
    BY <2>1 DEF A_T, A_A, A_B, A_S7, A_S10, A_S16, A_U18
<1>2. k \in Kind /\ k # A_P /\ k # A_S14 /\ k # A_U14 /\ k # A_S18
  BY <1>1 DEF Kind, A_P, A_S14, A_U14, A_S18
<1>3. Stores(k) = {k}
  BY <1>2, Zenon DEF Stores
<1> QED
  BY <1>2, <1>3 DEF Scaled

-----------------------------------------------------------------------------

Within(x, values) ==
  values \in Nat /\ x \in Int /\ -values < x /\ x < values

(* A register operand is a number of seven bits or an alias.               *)
LEMMA FitsRegister ==
  ASSUME NEW token, NEW type, NEW kind, Fits(token, type, kind)
  PROVE  kind \in {A_T, A_A, A_B, A_C} =>
           (IsNumber(token) => token.value \in 0 .. 127)
  BY SMT DEF Fits

(* An operand that is no register is a number.                             *)
LEMMA FitsNumber ==
  ASSUME NEW token, NEW type, NEW kind, Fits(token, type, kind)
  PROVE  kind \notin {A_T, A_A, A_B, A_C} => IsNumber(token)
  BY SMT DEF Fits

(* The value of a number is itself, and that of an alias is register 0 or  *)
(* 1.                                                                      *)
LEMMA OperandValue ==
  ASSUME NEW token \in Operand
  PROVE  /\ ValueOf(token) \in Int
         /\ IsNumber(token) => ValueOf(token) = token.value
         /\ ~IsNumber(token) => ValueOf(token) \in 0 .. 1
<1>1. CASE token = Name("LR")
  BY <1>1 DEF Name, ValueOf, IsNumber
<1>2. CASE token = Name("SP")
  BY <1>2 DEF Name, ValueOf, IsNumber
<1>3. CASE token \in [name : {""}, value : Int]
  BY <1>3 DEF ValueOf, IsNumber
<1> QED
  BY <1>1, <1>2, <1>3 DEF Operand

(* An operand fits the field it is written for.                            *)
LEMMA FitsField ==
  ASSUME NEW token \in Operand, NEW type \in PlainFormats,
         NEW kind \in Slots(type), Fits(token, type, kind)
  PROVE  Within(ValueOf(token), FieldValues(type, kind))
<1> DEFINE v == FieldValues(type, kind)
<1>1. kind \in {A_T, A_A, A_B, A_S7, A_S10, A_S16, A_U18}
  BY Zenon DEF Slots
<1>2. v \in Nat /\ v >= 128
  BY <1>1 DEF FieldValues, A_T, A_A, A_B, A_S7, A_S10, A_S16, A_U18
<1>3. /\ ValueOf(token) \in Int
      /\ IsNumber(token) => ValueOf(token) = token.value
      /\ ~IsNumber(token) => ValueOf(token) \in 0 .. 1
  BY OperandValue
<1>4. CASE kind \in {A_T, A_A, A_B}
  <2>1. IsNumber(token) => token.value \in 0 .. 127
    <3>1. kind \in {A_T, A_A, A_B, A_C}
      BY <1>4
    <3> QED
      BY <3>1, FitsRegister
  <2> HIDE DEF v
  <2> QED
    BY <1>2, <1>3, <2>1 DEF Within, v
<1>5. CASE kind \in {A_S7, A_S10, A_S16, A_U18}
  <2>1. kind \notin {A_T, A_A, A_B, A_C}
    BY <1>5 DEF A_T, A_A, A_B, A_C, A_S7, A_S10, A_S16, A_U18
  <2>2. IsNumber(token) /\ -v < token.value /\ token.value < v
    BY <1>5, <2>1 DEF Fits
  <2> QED
    BY <1>2, <1>3, <2>2 DEF Within
<1> QED
  BY <1>1, <1>4, <1>5

(* The mnemonic of an input names an opcode.                               *)
LEMMA InputOpcode ==
  ASSUME NEW input \in Inputs
  PROVE  /\ input.mnemonic \in Mnemonic /\ input.mnemonic[2] \in Opcode
         /\ input.mnemonic[2] \in Nat
<1>1. input.mnemonic \in Mnemonic
  BY InputsAssumption
<1>2. input.mnemonic[2] \in Opcode
  BY <1>1, TableAssumption
<1>3. \A x \in Opcode : x \in Nat
  BY DEF Opcode
<1> QED
  BY <1>1, <1>2, <1>3

(* Arguments with slots of their own, of which a format is put together.   *)
Plain(list, type) ==
  /\ list \in Seq(Kind) /\ Len(list) <= 4
  /\ \A i \in 1 .. Len(list) : list[i] \in Slots(type)
  /\ \A i, j \in 1 .. Len(list) : list[i] = list[j] => i = j

(* What an input of plain arguments wants in the slots. *)
LEMMA PlainWanted ==
  ASSUME NEW input \in Inputs, input.mnemonic[1] \in PlainFormats,
         Plain(input.args, input.mnemonic[1])
  PROVE  LET type == input.mnemonic[1]
             args == input.args
             ops == input.operands
             W == Wanted(input)
         IN /\ Len(ops) = Len(args)
            /\ \A i \in 1 .. Len(args) :
                 /\ W[args[i]] = ValueOf(ops[i])
                 /\ Within(ValueOf(ops[i]), FieldValues(type, args[i]))
            /\ \A k \in Slots(type) :
                 (\A i \in 1 .. Len(args) : args[i] # k) => W[k] = 0
            /\ Pictured(input) = Pack(type, input.mnemonic[2], W)
<1> DEFINE type == input.mnemonic[1]
           args == input.args
           ops == input.operands
           n == Len(args)
           W == Wanted(input)
<1>1. n \in Nat /\ DOMAIN args = 1 .. n
  BY DEF Plain
<1>2. \A i \in 1 .. n : args[i] \in Slots(type)
  BY DEF Plain
<1>3. \A i \in 1 .. n : /\ args[i] \in Kind
                        /\ args[i] \notin {A_P, A_S14, A_U14, A_S18}
  BY <1>2, PlainKinds
<1>4. \A i \in 0 .. n : Place(args, i) = i
  <2>1. ASSUME NEW i \in 0 .. n PROVE ~ \E j \in 1 .. i : args[j] = A_P
    <3>1. \A j \in 1 .. i : j \in 1 .. n
      BY <1>1
    <3> QED
      BY <1>3, <3>1
  <2> QED
    BY <2>1 DEF Place
<1>5. /\ ops \in Seq(Operand) /\ Len(ops) = Place(args, n)
      /\ \A i \in 1 .. n :
           args[i] # A_P => Fits(ops[Place(args, i)], type, args[i])
  BY <1>1, InputsAssumption
<1>6. Len(ops) = n
  BY <1>1, <1>4, <1>5
<1>7. ASSUME NEW i \in 1 .. n
      PROVE  /\ W[args[i]] = ValueOf(ops[i])
             /\ Within(ValueOf(ops[i]), FieldValues(type, args[i]))
  <2>1. Place(args, i) = i
    BY <1>1, <1>4
  <2>2. \A j \in 1 .. n : args[j] = args[i] => j = i
    BY DEF Plain
  <2>3. OperandOf(input, args[i]) = ValueOf(ops[i])
    BY <1>1, <2>1, <2>2, OperandAt
  <2>4. ops[i] \in Operand
    BY <1>5, <1>6
  <2>5. Fits(ops[i], type, args[i])
    BY <1>3, <1>5, <2>1
  <2> QED
    BY <1>2, <1>3, <2>3, <2>4, <2>5, FitsField DEF Wanted
<1>8. ASSUME NEW k \in Slots(type), \A i \in 1 .. n : args[i] # k
      PROVE  W[k] = 0
  <2>1. OperandOf(input, k) = 0
    BY <1>1, <1>8, OperandNone
  <2> QED
    BY <2>1, PlainKinds DEF Wanted
<1>9. Pictured(input) = Pack(type, input.mnemonic[2], W)
  BY <1>1, <1>3, PicturedPlain
<1> QED
  BY <1>6, <1>7, <1>8, <1>9

(* What reading a plain list puts in the slots. *)
LEMMA PlainFilled ==
  ASSUME NEW type, NEW list, Plain(list, type), NEW args, NEW old, NEW c,
         Filled(args, old, list, c)
  PROVE  /\ \A i \in 1 .. Len(list) : args[list[i]] = ReadValue(c, i)
         /\ \A k \in Kind :
              (\A i \in 1 .. Len(list) : list[i] # k) => args[k] = old[k]
<1>1. \A i \in 1 .. Len(list) :
        /\ list[i] \in Kind /\ Stores(list[i]) = {list[i]}
        /\ \A x : Scaled(list[i], list[i], x) = x
  BY PlainKinds DEF Plain
<1>2. ASSUME NEW i \in 1 .. Len(list)
      PROVE  args[list[i]] = ReadValue(c, i)
  <2>1. list[i] \in Stores(list[i])
    BY <1>1
  <2>2. args[list[i]] = Scaled(list[i], list[i], ReadValue(c, i))
    BY <1>1, <2>1, Zenon DEF Filled
  <2> QED
    BY <1>1, <2>2
<1>3. ASSUME NEW k \in Kind, \A i \in 1 .. Len(list) : list[i] # k
      PROVE  args[k] = old[k]
  <2>1. \A i \in 1 .. Len(list) : k \notin Stores(list[i])
    BY <1>1, <1>3
  <2> QED
    BY <2>1, Zenon DEF Filled
<1> QED
  BY <1>2, <1>3

(* A plain list names each slot once.                                      *)
LEMMA PlainApart ==
  ASSUME NEW type, NEW list, Plain(list, type)
  PROVE  Apart(list) /\ list \in Seq(Kind) /\ Len(list) \in 0 .. 4
<1>1. \A i \in 1 .. Len(list) : Stores(list[i]) = {list[i]}
  BY PlainKinds DEF Plain
<1>2. Apart(list)
  <2>1. \A i, j \in 1 .. Len(list) : list[i] = list[j] => i = j
    BY DEF Plain
  <2> QED
    BY <1>1, <2>1 DEF Apart
<1>3. list \in Seq(Kind) /\ Len(list) \in 0 .. 4
  BY Lengths DEF Plain
<1> QED
  BY <1>2, <1>3

(* Instructions with one list of plain arguments are assembled right but   *)
(* for an alias used twice.                                                *)
LEMMA PlainForm ==
  ASSUME NEW input \in Inputs, input.mnemonic \notin {Mtspr, Syscall},
         input.mnemonic[1] \in PlainFormats,
         ArgLists[input.mnemonic[2]] = <<input.args>>,
         Plain(input.args, input.mnemonic[1])
  PROVE  Right(input)
<1> DEFINE type == input.mnemonic[1]
           o == input.mnemonic[2]
           args == input.args
           ops == input.operands
           n == Len(args)
           W == Wanted(input)
<1>1. /\ Len(ops) = n
      /\ \A i \in 1 .. n :
           /\ W[args[i]] = ValueOf(ops[i])
           /\ Within(ValueOf(ops[i]), FieldValues(type, args[i]))
      /\ \A k \in Slots(type) : (\A i \in 1 .. n : args[i] # k) => W[k] = 0
      /\ Pictured(input) = Pack(type, o, W)
  BY PlainWanted
<1>2. Apart(args) /\ args \in Seq(Kind) /\ n \in 0 .. 4
  BY PlainApart
<1>3. PICK c \in Seq(Token) :
        /\ ReadAs(c, ops)
        /\ Assemble(Written(input), TRUE)
             = Pack(type, o, ReadArguments(c, <<args>>))
  <2>1. Len(ops) <= 4 /\ input.mnemonic # Mtspr
    BY <1>1, <1>2
  <2> QED
    BY <2>1, InputAssembled
<1> DEFINE got == ReadArguments(c, <<args>>)
<1>4. /\ \A i \in 1 .. n : got[args[i]] = ReadValue(c, i)
      /\ \A k \in Kind : (\A i \in 1 .. n : args[i] # k) => got[k] = 0
  <2>1. Filled(got, Zeros, args, c)
    BY <1>2, OneListFills
  <2> HIDE DEF got
  <2>2. /\ \A i \in 1 .. n : got[args[i]] = ReadValue(c, i)
        /\ \A k \in Kind : (\A i \in 1 .. n : args[i] # k) => got[k] = Zeros[k]
    BY <2>1, PlainFilled
  <2> QED
    BY <2>2 DEF Zeros
<1> HIDE DEF got, W, type, o, args, n, ops
<1>5. /\ \A i \in 1 .. n : ReadValue(c, i) \in {0, ValueOf(ops[i])}
      /\ (\A i \in 1 .. n : ReadValue(c, i) = ValueOf(ops[i]))
           <=> ~AliasTwice(ops)
  BY <1>1, <1>3 DEF ReadAs
<1>6. \A k \in Slots(type) : Near(got[k], W[k], FieldValues(type, k))
  <2> SUFFICES ASSUME NEW k \in Slots(type)
               PROVE  Near(got[k], W[k], FieldValues(type, k))
    OBVIOUS
  <2>1. CASE \E i \in 1 .. n : args[i] = k
    <3>1. PICK i \in 1 .. n : args[i] = k
      BY <2>1
    <3>2. /\ got[k] \in {0, W[k]}
          /\ Within(W[k], FieldValues(type, k))
      BY <1>1, <1>4, <1>5, <3>1
    <3> DEFINE v == FieldValues(type, k)
    <3> HIDE DEF v
    <3>3. Within(W[k], v) /\ got[k] \in {0, W[k]} => Near(got[k], W[k], v)
      BY DEF Within, Near
    <3> QED
      BY <3>2, <3>3 DEF v
  <2>2. CASE \A i \in 1 .. n : args[i] # k
    <3>1. got[k] = 0 /\ W[k] = 0
      BY <1>1, <1>4, <2>2, PlainKinds
    <3> QED
      BY <3>1 DEF Near
  <2> QED
    BY <2>1, <2>2
<1>7. Pack(type, o, got) = Pack(type, o, W)
        <=> \A k \in Slots(type) : got[k] = W[k]
  <2>1. o \in Nat /\ type \in PlainFormats
    BY InputOpcode DEF o, type
  <2> QED
    BY <1>6, <2>1, SamePack
<1>8. (\A k \in Slots(type) : got[k] = W[k])
        <=> \A i \in 1 .. n : ReadValue(c, i) = ValueOf(ops[i])
  <2>1. \A i \in 1 .. n : args[i] \in Slots(type)
    BY DEF Plain, args, n, type
  <2>2. \A k \in Slots(type) :
          \/ \E i \in 1 .. n : args[i] = k
          \/ got[k] = 0 /\ W[k] = 0
    BY <1>1, <1>4, PlainKinds
  <2> QED
    BY <1>1, <1>4, <2>1, <2>2
<1>9. Garbled(input) <=> AliasTwice(ops)
  <2>1. SecondList(o) = {}
    <3>1. Len(ArgLists[o]) = 1
      BY DEF o, args
    <3> QED
      BY <3>1 DEF SecondList
  <2> QED
    BY <2>1, GarbledPlain DEF o, ops
<1> QED
  BY <1>1, <1>3, <1>5, <1>7, <1>8, <1>9 DEF Right, got, type, o, args, ops

-----------------------------------------------------------------------------

BothLists(b, l1, l2) == FoldLeft(ReadList, b, <<l1, l2>>)

(* With two lists of arguments the line is read twice, the second time     *)
(* from where the first stopped.                                           *)
LEMMA TwoLists ==
  ASSUME NEW b, NEW l1, NEW l2
  PROVE  BothLists(b, l1, l2) = ReadList(ReadList(b, l1), l2)
<1> DEFINE D == {1, 2}
           lists == <<l1, l2>>
           iter == CHOOSE iter : iter = ListTurn(iter, b, lists, D)
           r1 == ReadList(b, l1)
           r2 == ReadList(b, l2)
           r12 == ReadList(r1, l2)
           G == [s \in SUBSET D |-> IF s = {} THEN b ELSE
                   IF s = {1} THEN r1 ELSE IF s = {2} THEN r2 ELSE r12]
<1>1. DOMAIN lists = D
  OBVIOUS
<1>2. BothLists(b, l1, l2) = iter[D]
  BY <1>1, Zenon DEF BothLists, FoldLeft, MapThenFoldSet, ListTurn
<1>3. \A s : s \in SUBSET D <=> s = {} \/ s = {1} \/ s = {2} \/ s = D
  <2>1. ASSUME NEW s \in SUBSET D
        PROVE  s = {} \/ s = {1} \/ s = {2} \/ s = D
    <3>1. CASE 1 \in s /\ 2 \in s
      BY <3>1
    <3>2. CASE 1 \in s /\ 2 \notin s
      BY <3>2
    <3>3. CASE 1 \notin s /\ 2 \in s
      BY <3>3
    <3>4. CASE 1 \notin s /\ 2 \notin s
      BY <3>4
    <3> QED
      BY <3>1, <3>2, <3>3, <3>4
  <2> QED
    BY <2>1
<1>4. /\ {} \in SUBSET D /\ {1} \in SUBSET D /\ {2} \in SUBSET D
      /\ D \in SUBSET D
      /\ D # {} /\ D # {1} /\ D # {2} /\ {1} # {} /\ {2} # {} /\ {2} # {1}
      /\ Max({1}) = 1 /\ Max({2}) = 2 /\ Max(D) = 2
      /\ {1} \ {1} = {} /\ {2} \ {2} = {} /\ D \ {2} = {1}
      /\ lists[1] = l1 /\ lists[2] = l2
  BY MaxOfTwo
<1> HIDE DEF lists, D
<1>5. G = ListTurn(G, b, lists, D)
  <2>1. G[{}] = b /\ G[{1}] = r1 /\ G[{2}] = r2 /\ G[D] = r12
    BY <1>4, Zenon
  <2>2. G = [s \in SUBSET D |-> G[s]]
    BY SMT
  <2> HIDE DEF G
  <2>3. ASSUME NEW s \in SUBSET D
        PROVE  G[s] = IF s = {} THEN b ELSE ReadList(G[s \ {Max(s)}], lists[Max(s)])
    <3>1. CASE s = {}
      BY <2>1, <3>1, Zenon
    <3>2. CASE s = {1}
      BY <1>4, <2>1, <3>2
    <3>3. CASE s = {2}
      BY <1>4, <2>1, <3>3
    <3>4. CASE s = D
      BY <1>4, <2>1, <3>4
    <3> QED
      BY <1>3, <3>1, <3>2, <3>3, <3>4
  <2> QED
    BY <2>2, <2>3, Zenon DEF ListTurn
<1>6. iter = ListTurn(iter, b, lists, D)
  BY <1>5, Zenon
<1> HIDE DEF iter
<1>7. ASSUME NEW s \in SUBSET D
      PROVE  iter[s] = IF s = {} THEN b
                       ELSE ReadList(iter[s \ {Max(s)}], lists[Max(s)])
  <2> DEFINE turned == ListTurn(iter, b, lists, D)
  <2>1. turned[s] = IF s = {} THEN b
                    ELSE ReadList(iter[s \ {Max(s)}], lists[Max(s)])
    BY Zenon DEF ListTurn
  <2> HIDE DEF turned
  <2>2. iter[s] = turned[s]
    BY <1>6 DEF turned
  <2> QED
    BY <2>1, <2>2
<1>8. iter[{}] = b
  BY <1>4, <1>7, Zenon
<1>9. iter[{1}] = ReadList(iter[{}], l1)
  BY <1>4, <1>7
<1>10. iter[D] = ReadList(iter[{1}], l2)
  BY <1>4, <1>7
<1> QED
  BY <1>2, <1>8, <1>9, <1>10 DEF lists

(* The slots after the two lists of an opcode.                             *)
LEMMA TwoListsFill ==
  ASSUME NEW c \in Seq(Token),
         NEW l1 \in Seq(Kind), Len(l1) \in 0 .. 4, Apart(l1),
         NEW l2 \in Seq(Kind), Len(l2) \in 0 .. 4, Apart(l2)
  PROVE  \E mid \in [Kind -> Int], rest \in Seq(Token) :
           /\ IsLeft(rest, c, Len(l1))
           /\ Filled(mid, Zeros, l1, c)
           /\ Filled(ReadArguments(c, <<l1, l2>>), mid, l2, rest)
           /\ ReadArguments(c, <<l1, l2>>) \in [Kind -> Int]
<1> DEFINE st == [args |-> Zeros, rest |-> c, temp |-> 0]
           s1 == ReadList(st, l1)
           s2 == ReadList(s1, l2)
<1>1. ReadArguments(c, <<l1, l2>>) = s2.args
  <2>1. ReadArguments(c, <<l1, l2>>) = BothLists(st, l1, l2).args
    BY Zenon DEF ReadArguments, BothLists, Zeros, Kind
  <2> HIDE DEF st
  <2> QED
    BY <2>1, TwoLists
<1>2. st \in State /\ st.rest = c /\ st.args = Zeros
  BY DEF State, Zeros
<1> HIDE DEF st
<1>3. s1 \in State /\ IsLeft(s1.rest, c, Len(l1)) /\ Filled(s1.args, Zeros, l1, c)
  BY <1>2, ListFills
<1> HIDE DEF s1
<1>4. s1.rest \in Seq(Token) /\ s1.args \in [Kind -> Int]
  BY <1>3 DEF State
<1>5. s2 \in State /\ Filled(s2.args, s1.args, l2, s1.rest)
  BY <1>3, <1>4, ListFills
<1>6. s2.args \in [Kind -> Int]
  BY <1>5 DEF State
<1> QED
  BY <1>1, <1>3, <1>4, <1>5, <1>6

-----------------------------------------------------------------------------

(* Nothing is read from a line that is used up.                            *)
LEMMA NoneLeft ==
  ASSUME NEW i \in Nat
  PROVE  ReadValue(<<>>, i) = 0
<1>1. Len(<<>>) = 0
  OBVIOUS
<1> QED
  BY <1>1 DEF ReadValue

(* What a second list of plain arguments does to the slots when the first  *)
(* one has used the line up.                                               *)
Emptied(got, c, l1, l2) ==
  /\ \A i \in 1 .. Len(l1) :
       (\A j \in 1 .. Len(l2) : l2[j] # l1[i]) => got[l1[i]] = ReadValue(c, i)
  /\ \A j \in 1 .. Len(l2) : got[l2[j]] = 0
  /\ \A k \in Kind :
       /\ \A i \in 1 .. Len(l1) : l1[i] # k
       /\ \A j \in 1 .. Len(l2) : l2[j] # k
       => got[k] = 0

(* A second list finds the line used up: every slot it names is 0.         *)
LEMMA SecondFilled ==
  ASSUME NEW type, NEW c \in Seq(Token),
         NEW l1, Plain(l1, type), NEW l2, Plain(l2, type),
         Len(c) <= Len(l1) \/ l2 = <<>>
  PROVE  Emptied(ReadArguments(c, <<l1, l2>>), c, l1, l2)
<1> DEFINE got == ReadArguments(c, <<l1, l2>>)
<1>1. /\ l1 \in Seq(Kind) /\ Len(l1) \in 0 .. 4 /\ Apart(l1)
      /\ l2 \in Seq(Kind) /\ Len(l2) \in 0 .. 4 /\ Apart(l2)
  BY PlainApart
<1>2. PICK mid \in [Kind -> Int], rest \in Seq(Token) :
        /\ IsLeft(rest, c, Len(l1))
        /\ Filled(mid, Zeros, l1, c)
        /\ Filled(got, mid, l2, rest)
  BY <1>1, TwoListsFill
<1> HIDE DEF got
<1>3. /\ \A i \in 1 .. Len(l1) : mid[l1[i]] = ReadValue(c, i)
      /\ \A k \in Kind :
           (\A i \in 1 .. Len(l1) : l1[i] # k) => mid[k] = Zeros[k]
  BY <1>2, PlainFilled
<1>4. /\ \A j \in 1 .. Len(l2) : got[l2[j]] = ReadValue(rest, j)
      /\ \A k \in Kind : (\A j \in 1 .. Len(l2) : l2[j] # k) => got[k] = mid[k]
  BY <1>2, PlainFilled
<1>5. ASSUME NEW j \in 1 .. Len(l2) PROVE got[l2[j]] = 0
  <2>1. Len(c) <= Len(l1)
    <3>1. l2 # <<>>
      BY <1>5
    <3> QED
      BY <3>1
  <2>2. rest = <<>>
    BY <1>1, <1>2, <2>1 DEF IsLeft
  <2> QED
    BY <1>4, <2>2, NoneLeft
<1>6. \A i \in 1 .. Len(l1) : l1[i] \in Kind
  BY <1>1
<1>7. \A k \in Kind : Zeros[k] = 0
  BY DEF Zeros
<1> QED
  BY <1>3, <1>4, <1>5, <1>6, <1>7 DEF Emptied, got

(* Instructions that can be written without their one operand.             *)
LEMMA EmptySecond ==
  ASSUME NEW input \in Inputs, input.mnemonic \notin {Mtspr, Syscall},
         input.mnemonic[1] \in PlainFormats,
         NEW list, Plain(list, input.mnemonic[1]), Len(list) = 1,
         ArgLists[input.mnemonic[2]] = <<list, <<>>>>,
         input.args \in {list, <<>>}
  PROVE  Right(input)
<1> DEFINE type == input.mnemonic[1]
           o == input.mnemonic[2]
           args == input.args
           ops == input.operands
           n == Len(args)
           W == Wanted(input)
<1>0. Plain(<<>>, type)
  <2>1. <<>> \in Seq(Kind) /\ Len(<<>>) = 0
    OBVIOUS
  <2> QED
    BY <2>1 DEF Plain
<1>1. /\ Len(ops) = n
      /\ \A i \in 1 .. n :
           /\ W[args[i]] = ValueOf(ops[i])
           /\ Within(ValueOf(ops[i]), FieldValues(type, args[i]))
      /\ \A k \in Slots(type) : (\A i \in 1 .. n : args[i] # k) => W[k] = 0
      /\ Pictured(input) = Pack(type, o, W)
  BY <1>0, PlainWanted
<1>2. PICK c \in Seq(Token) :
        /\ Len(c) = n
        /\ ReadAs(c, ops)
        /\ Assemble(Written(input), TRUE)
             = Pack(type, o, ReadArguments(c, <<list, <<>>>>))
  <2>1. Len(ops) <= 4 /\ input.mnemonic # Mtspr
    BY <1>1
  <2> QED
    BY <1>1, <2>1, InputAssembled
<1> DEFINE got == ReadArguments(c, <<list, <<>>>>)
<1>3. /\ got[list[1]] = ReadValue(c, 1)
      /\ \A k \in Slots(type) : k # list[1] => got[k] = 0
  <2>1. Emptied(got, c, list, <<>>)
    BY <1>0, SecondFilled
  <2> HIDE DEF got
  <2>2. Len(<<>>) = 0
    OBVIOUS
  <2> QED
    BY <2>1, <2>2, PlainKinds DEF Emptied
<1> HIDE DEF got, W
<1>4. ~AliasTwice(ops) /\ \A k \in Slots(type) : got[k] = W[k] /\ W[k] \in Int
  <2>1. CASE args = list
    <3>1. n = 1 /\ 1 \in 1 .. n /\ args[1] = list[1]
      <4>1. n = 1 /\ args[1] = list[1]
        BY <2>1
      <4> HIDE DEF n, args
      <4> QED
        BY <4>1
    <3>2. ReadValue(c, 1) = ValueOf(ops[1]) /\ ~AliasTwice(ops)
      BY <1>1, <1>2, <3>1 DEF ReadAs
    <3>3. W[list[1]] = ValueOf(ops[1]) /\ ValueOf(ops[1]) \in Int
      <4> HIDE DEF n, args, ops
      <4> QED
        BY <1>1, <3>1 DEF Within
    <3>4. \A k \in Slots(type) : k # list[1] => W[k] = 0
      <4> SUFFICES ASSUME NEW k \in Slots(type), k # list[1] PROVE W[k] = 0
        OBVIOUS
      <4>1. \A i \in 1 .. n : args[i] # k
        BY <3>1
      <4> QED
        BY <1>1, <4>1
    <3> QED
      BY <1>3, <3>2, <3>3, <3>4
  <2>2. CASE args = <<>>
    <3>1. n = 0
      BY <2>2
    <3>2. ops = <<>>
      <4>1. ops \in Seq(Operand)
        BY InputsAssumption
      <4> QED
        BY <1>1, <3>1, <4>1, EmptySeq
    <3>3. ReadValue(c, 1) = 0 /\ ~AliasTwice(ops)
      BY <1>1, <1>2, <3>1, <3>2 DEF ReadAs
    <3>4. \A k \in Slots(type) : W[k] = 0
      BY <1>1, <3>1
    <3> QED
      BY <1>3, <3>3, <3>4
  <2> QED
    BY <2>1, <2>2
<1>5. Pack(type, o, got) = Pack(type, o, W)
  <2>1. \A k \in Slots(type) : Near(got[k], W[k], FieldValues(type, k))
    BY <1>4 DEF Near
  <2>2. o \in Nat
    BY InputOpcode
  <2> QED
    BY <1>4, <2>1, <2>2, SamePack
<1>6. ~Garbled(input)
  <2>1. SecondList(o) = {}
    <3>1. ArgLists[o][2] = <<>> /\ ToSet(<<>>) = {}
      BY DEF ToSet
    <3> QED
      BY <3>1 DEF SecondList
  <2> QED
    BY <1>4, <2>1, GarbledPlain
<1> QED
  BY <1>1, <1>2, <1>5, <1>6 DEF Right, got

(* Instructions with a second list of all arguments but the target: the    *)
(* second list, read when the line is used up, empties their slots.        *)
LEMMA LostSecond ==
  ASSUME NEW input \in Inputs, input.mnemonic \notin {Mtspr, Syscall},
         input.mnemonic[1] \in PlainFormats,
         NEW l1, Plain(l1, input.mnemonic[1]), l1[1] = A_T,
         NEW l2, Plain(l2, input.mnemonic[1]), Len(l2) >= 1, l2[1] = A_A,
         Len(l1) = Len(l2) + 1, \A i \in 1 .. Len(l2) : l2[i] = l1[i + 1],
         ArgLists[input.mnemonic[2]] = <<l1, l2>>,
         input.args \in {l1, l2}
  PROVE  Right(input)
<1> DEFINE type == input.mnemonic[1]
           o == input.mnemonic[2]
           args == input.args
           ops == input.operands
           n == Len(args)
           m == Len(l2)
           W == Wanted(input)
<1>0. Plain(args, type)
  OBVIOUS
<1>1. /\ Len(ops) = n
      /\ \A i \in 1 .. n :
           /\ W[args[i]] = ValueOf(ops[i])
           /\ Within(ValueOf(ops[i]), FieldValues(type, args[i]))
      /\ \A k \in Slots(type) : (\A i \in 1 .. n : args[i] # k) => W[k] = 0
      /\ Pictured(input) = Pack(type, o, W)
  BY <1>0, PlainWanted
<1>2. /\ m \in 1 .. 3 /\ Len(l1) = m + 1
      /\ (n = m + 1 /\ args = l1) \/ (n = m /\ args = l2)
  <2>1. Len(l1) \in 0 .. 4 /\ Len(l2) \in 0 .. 4
    BY PlainApart
  <2>2. Len(l1) = m + 1 /\ m >= 1
    OBVIOUS
  <2>3. (n = Len(l1) /\ args = l1) \/ (n = m /\ args = l2)
    <3>1. args = l1 \/ args = l2
      OBVIOUS
    <3> HIDE DEF args
    <3> QED
      BY <3>1
  <2> HIDE DEF m, n, args
  <2> QED
    BY <2>1, <2>2, <2>3 DEF m
<1>3. PICK c \in Seq(Token) :
        /\ Len(c) = n
        /\ ReadAs(c, ops)
        /\ Assemble(Written(input), TRUE)
             = Pack(type, o, ReadArguments(c, <<l1, l2>>))
  <2>1. Len(ops) <= 4 /\ input.mnemonic # Mtspr
    <3>1. n <= 4
      BY <1>0 DEF Plain
    <3> QED
      BY <1>1, <3>1
  <2> QED
    BY <1>1, <2>1, InputAssembled
<1> DEFINE got == ReadArguments(c, <<l1, l2>>)
<1>4. Emptied(got, c, l1, l2)
  <2>1. Len(c) <= Len(l1)
    <3> HIDE DEF n, m, args
    <3> QED
      BY <1>2, <1>3
  <2> QED
    BY <2>1, SecondFilled
<1>5. \A j \in 1 .. m : l2[j] \in Slots(type) /\ l2[j] # A_T
  <2>1. \A j \in 1 .. m : l2[j] \in Slots(type)
    BY DEF Plain
  <2>2. ASSUME NEW j \in 1 .. m, l2[j] = A_T PROVE FALSE
    <3>1. l1[j + 1] = l1[1] /\ j + 1 \in 1 .. Len(l1) /\ 1 \in 1 .. Len(l1)
      BY <1>2, <2>2
    <3>2. j + 1 = 1
      BY <3>1 DEF Plain
    <3> QED
      BY <3>2
  <2> QED
    BY <2>1, <2>2
<1>6. A_T \in Slots(type)
  <2>1. 1 \in 1 .. Len(l1)
    BY <1>2
  <2> QED
    BY <2>1 DEF Plain
<1>7. \A k \in Slots(type) : k = A_T \/ \E j \in 1 .. m : k = l2[j]
                            \/ \A i \in 1 .. Len(l1) : l1[i] # k
  <2>1. \A i \in 1 .. Len(l1) : i = 1 \/ (i - 1 \in 1 .. m /\ l1[i] = l2[i - 1])
    <3>1. \A i \in 1 .. Len(l1) : i = 1 \/ (i - 1 \in 1 .. m /\ (i - 1) + 1 = i)
      <4> HIDE DEF m
      <4> QED
        BY <1>2
    <3>2. \A j \in 1 .. m : l2[j] = l1[j + 1]
      OBVIOUS
    <3> HIDE DEF m
    <3>3. ASSUME NEW i \in 1 .. Len(l1), i # 1 PROVE l1[i] = l2[i - 1]
      <4>1. i - 1 \in 1 .. m /\ (i - 1) + 1 = i
        BY <3>1, <3>3
      <4>2. l2[i - 1] = l1[(i - 1) + 1]
        BY <3>2, <4>1
      <4> QED
        BY <4>1, <4>2
    <3> QED
      BY <3>1, <3>3
  <2> QED
    BY <2>1
<1>8. /\ got[A_T] = ValueOf(ops[1])
      /\ \A j \in 1 .. m : got[l2[j]] = 0
      /\ \A k \in Slots(type) :
           k # A_T /\ (\A j \in 1 .. m : l2[j] # k) => got[k] = 0 /\ W[k] = 0
  <2> HIDE DEF got
  <2>1. got[A_T] = ValueOf(ops[1])
    <3>1. 1 \in 1 .. Len(l1) /\ n >= 1
      BY <1>2
    <3>2. ReadValue(c, 1) = ValueOf(ops[1])
      BY <1>1, <1>3, <3>1 DEF ReadAs
    <3> QED
      BY <1>4, <1>5, <3>1, <3>2 DEF Emptied
  <2>2. \A j \in 1 .. m : got[l2[j]] = 0
    BY <1>4 DEF Emptied
  <2>3. ASSUME NEW k \in Slots(type), k # A_T, \A j \in 1 .. m : l2[j] # k
        PROVE  got[k] = 0 /\ W[k] = 0
    <3>1. \A i \in 1 .. Len(l1) : l1[i] # k
      BY <1>7, <2>3
    <3>2. \A i \in 1 .. n : args[i] # k
      BY <1>2, <2>3, <3>1
    <3> QED
      BY <1>1, <1>4, <2>3, <3>1, <3>2, PlainKinds DEF Emptied
  <2> QED
    BY <2>1, <2>2, <2>3
<1> DEFINE Lost == \E j \in 1 .. m : W[l2[j]] # 0
<1>9. \A j \in 1 .. m : Within(W[l2[j]], FieldValues(type, l2[j]))
  <2>1. CASE args = l1
    <3>1. ASSUME NEW j \in 1 .. m
          PROVE  j + 1 \in 1 .. n /\ l2[j] = args[j + 1]
      BY <1>2, <2>1
    <3> QED
      BY <1>1, <3>1
  <2>2. CASE args = l2
    BY <1>1, <1>2, <2>2
  <2> QED
    BY <2>1, <2>2
<1>10. /\ Within(ValueOf(ops[1]), FieldValues(type, A_T))
       /\ \/ W[A_T] = ValueOf(ops[1])
          \/ W[A_T] = 0 /\ W[l2[1]] = ValueOf(ops[1])
  <2>0. 1 \in 1 .. n
    BY <1>2
  <2>1. CASE args = l1
    BY <1>1, <2>0, <2>1
  <2>2. CASE args = l2
    <3>1. FieldValues(type, A_A) = 128 /\ FieldValues(type, A_T) = 128
      BY DEF FieldValues, A_T, A_A, A_S7, A_S10, A_S16, A_U18
    <3>2. /\ W[A_A] = ValueOf(ops[1])
          /\ Within(ValueOf(ops[1]), FieldValues(type, A_A))
      BY <1>1, <2>0, <2>2
    <3>3. W[A_T] = 0
      <4>1. \A i \in 1 .. n : args[i] # A_T
        BY <1>5, <2>2
      <4> QED
        BY <1>1, <1>6, <4>1
    <3> QED
      BY <3>1, <3>2, <3>3
  <2> QED
    BY <2>1, <2>2
<1> HIDE DEF got, W
<1>11. Pack(type, o, got) = Pack(type, o, W)
         <=> \A k \in Slots(type) : got[k] = W[k]
  <2>1. \A x, v : Within(x, v) => Near(x, 0, v) /\ Near(0, x, v) /\ Near(x, x, v)
    BY DEF Within, Near
  <2>2. \A k \in Slots(type) : Near(got[k], W[k], FieldValues(type, k))
    <3> SUFFICES ASSUME NEW k \in Slots(type)
                 PROVE  Near(got[k], W[k], FieldValues(type, k))
      OBVIOUS
    <3>1. CASE k = A_T
      BY <1>8, <1>10, <2>1, <3>1
    <3>2. CASE \E j \in 1 .. m : l2[j] = k
      BY <1>8, <1>9, <2>1, <3>2
    <3>3. CASE k # A_T /\ \A j \in 1 .. m : l2[j] # k
      <4>1. got[k] = 0 /\ W[k] = 0
        BY <1>8, <3>3
      <4> QED
        BY <4>1 DEF Near
    <3> QED
      BY <3>1, <3>2, <3>3
  <2>3. o \in Nat
    BY InputOpcode
  <2> QED
    BY <2>2, <2>3, SamePack
<1>12. (\A k \in Slots(type) : got[k] = W[k]) <=> ~Lost
  <2>1. 1 \in 1 .. m
    BY <1>2
  <2>2. ASSUME ~Lost PROVE \A k \in Slots(type) : got[k] = W[k]
    <3>1. \A j \in 1 .. m : W[l2[j]] = 0
      BY <2>2
    <3>2. got[A_T] = W[A_T]
      BY <1>8, <1>10, <2>1, <3>1
    <3> QED
      BY <1>8, <3>1, <3>2
  <2>3. ASSUME \A k \in Slots(type) : got[k] = W[k] PROVE ~Lost
    BY <1>5, <1>8, <2>3
  <2> QED
    BY <2>2, <2>3
<1>13. AliasTwice(ops) => Lost
  <2> SUFFICES ASSUME AliasTwice(ops) PROVE Lost
    OBVIOUS
  <2>1. PICK i \in 1 .. n : ReadValue(c, i) # ValueOf(ops[i])
    BY <1>1, <1>3 DEF ReadAs
  <2>2. ValueOf(ops[i]) # 0
    BY <1>1, <1>3, <2>1 DEF ReadAs
  <2>3. W[args[i]] # 0
    BY <1>1, <2>2
  <2>4. CASE args = l1
    <3>1. i # 1
      BY <1>1, <1>2, <1>3, <2>1 DEF ReadAs
    <3>2. i - 1 \in 1 .. m /\ i = (i - 1) + 1
      BY <1>2, <2>4, <3>1
    <3>3. args[i] = l2[i - 1]
      BY <2>4, <3>2
    <3> QED
      BY <2>3, <3>2, <3>3
  <2>5. CASE args = l2
    BY <1>2, <2>3, <2>5
  <2> QED
    BY <2>4, <2>5
<1>14. Garbled(input) <=> Lost
  <2>1. SecondList(o) = {l2[j] : j \in 1 .. m}
    <3>1. ArgLists[o][2] = l2 /\ Len(ArgLists[o]) = 2
      OBVIOUS
    <3>2. DOMAIN l2 = 1 .. m
      BY DEF Plain
    <3> QED
      BY <3>1, <3>2 DEF SecondList, ToSet
  <2>2. \A j \in 1 .. m : W[l2[j]] = OperandOf(input, l2[j])
    BY <1>5, PlainKinds DEF W, Wanted
  <2>3. (\E kind \in SecondList(o) : OperandOf(input, kind) # 0) <=> Lost
    BY <2>1, <2>2
  <2> QED
    BY <1>13, <2>3, GarbledPlain
<1> QED
  BY <1>1, <1>3, <1>11, <1>12, <1>14 DEF Right, got

-----------------------------------------------------------------------------

(* The slots of the kinds the special forms use, and the scale of two of   *)
(* them.                                                                   *)
LEMMA StoresOf ==
  /\ \A k \in {0, 1, 2, 3, 7, 19, 20} :
       Stores(k) = {k} /\ \A x : Scaled(k, k, x) = x
  /\ Stores(5) = {}
  /\ Stores(21) = {21, 16} /\ \A x : Scaled(21, 16, x) = x \div 4
  /\ Stores(14) = {14, 10} /\ \A x : Scaled(14, 10, x) = x \div 16
<1>0. A_P = 5 /\ A_S18 = 21 /\ A_S14 = 14 /\ A_S16 = 16 /\ A_S10 = 10
  BY DEF A_P, A_S18, A_S14, A_S16, A_S10
<1>1. ASSUME NEW k \in {0, 1, 2, 3, 7, 19, 20} PROVE Stores(k) = {k}
  <2>1. k # A_P /\ k # A_S18 /\ k # A_S14
    BY <1>0
  <2> QED
    BY <2>1, Zenon DEF Stores
<1>2. \A k, x : Scaled(k, k, x) = x
  BY DEF Scaled
<1>3. A_P # A_S18 /\ A_P # A_S14 /\ A_S18 # A_S14
  BY <1>0
<1>4. Stores(A_P) = {} /\ Stores(A_S18) = {A_S18, A_S16}
  BY <1>3, Zenon DEF Stores
<1>5. Stores(A_S14) = {A_S14, A_S10}
  BY <1>3, Zenon DEF Stores
<1>6. /\ \A x : Scaled(21, 16, x) = x \div 4
      /\ \A x : Scaled(14, 10, x) = x \div 16
  BY <1>0 DEF Scaled
<1> QED
  BY <1>0, <1>1, <1>2, <1>4, <1>5, <1>6

(* A register operand is within seven bits.                                *)
LEMMA RegisterField ==
  ASSUME NEW token \in Operand, NEW type, NEW kind,
         kind \in {A_T, A_A, A_B, A_C}, Fits(token, type, kind)
  PROVE  Within(ValueOf(token), 128)
<1>1. IsNumber(token) => token.value \in 0 .. 127
  BY FitsRegister
<1>2. /\ ValueOf(token) \in Int
      /\ IsNumber(token) => ValueOf(token) = token.value
      /\ ~IsNumber(token) => ValueOf(token) \in 0 .. 1
  BY OperandValue
<1> QED
  BY <1>1, <1>2 DEF Within

(* Packed hints with a register are equal when their offsets are.          *)
LEMMA SameLBT ==
  ASSUME NEW o \in Nat, NEW p \in Int, NEW p1 \in Int, NEW r \in Int
  PROVE  PackLBT(o, p, r) = PackLBT(o, p1, r) <=> Cut(p, 512) = Cut(p1, 512)
<1> DEFINE f == OpField(o, 16)
           u == Cut(r, 65536) \div 16384
           h == Cut(p, 512) \div 128
           h1 == Cut(p1, 512) \div 128
<1>1. f \in Int /\ u \in Int /\ h \in Int /\ h1 \in Int
  BY DEF OpField, Cut
<1> HIDE DEF f, u, h, h1
<1>2. f + 4 * h + u = f + 4 * h1 + u <=> h = h1
  BY <1>1
<1>3. PackLBT(o, p, r) = PackLBT(o, p1, r)
        <=> f + 4 * h + u = f + 4 * h1 + u /\ Cut(p, 128) = Cut(p1, 128)
  BY SameWord DEF PackLBT, f, u, h, h1
<1> QED
  BY <1>2, <1>3, CutParts DEF h, h1

(* Packed hints with an address are equal when offsets and addresses are.  *)
LEMMA SameLBTI ==
  ASSUME NEW o, NEW p \in Int, NEW p1 \in Int, NEW q, NEW q1
  PROVE  PackLBTI(o, p, q) = PackLBTI(o, p1, q1)
           <=> Cut(p, 512) = Cut(p1, 512) /\ Cut(q, 128) = Cut(q1, 128)
<1>1. PackLBTI(o, p, q) = PackLBTI(o, p1, q1)
        <=> /\ Cut(p, 512) \div 128 = Cut(p1, 512) \div 128
            /\ Cut(q, 128) = Cut(q1, 128) /\ Cut(p, 128) = Cut(p1, 128)
  BY SameWord DEF PackLBTI
<1> QED
  BY <1>1, CutParts

-----------------------------------------------------------------------------

(* An address in parentheses: its register is read at the end of the line, *)
(* for A_P, and once more after it.                                        *)
Displaced(k) == <<A_T, k, A_P, A_A>>

(* The three operands of a displacement form, $rt,i($ra).                  *)
LEMMA DisplacedWanted ==
  ASSUME NEW input \in Inputs, NEW k \in {A_S7, A_S14},
         input.args = Displaced(k)
  PROVE  LET ops == input.operands
         IN /\ Len(ops) = 3
            /\ OperandOf(input, A_T) = ValueOf(ops[1])
            /\ OperandOf(input, k) = ValueOf(ops[2])
            /\ OperandOf(input, A_A) = ValueOf(ops[3])
            /\ IsNumber(ops[2])
            /\ Within(ValueOf(ops[3]), 128)
            /\ \A i \in 1 .. 3 : ValueOf(ops[i]) \in Int
<1> DEFINE args == input.args
           ops == input.operands
<1>1. /\ Len(args) = 4 /\ DOMAIN args = 1 .. 4
      /\ args[1] = A_T /\ args[2] = k /\ args[3] = A_P /\ args[4] = A_A
  BY DEF Displaced
<1>2. /\ A_T = 0 /\ A_A = 1 /\ A_P = 5 /\ k \in {7, 14}
  BY DEF A_T, A_A, A_P, A_S7, A_S14
<1>3. Place(args, 1) = 1 /\ Place(args, 2) = 2 /\ Place(args, 4) = 3
  <2>1. \A j \in 1 .. 2 : args[j] # A_P
    BY <1>1, <1>2
  <2>2. 3 \in 1 .. 4 /\ \A j \in 1 .. 1 : j \in 1 .. 2
    OBVIOUS
  <2> HIDE DEF args
  <2> QED
    BY <1>1, <2>1, <2>2 DEF Place
<1>4. /\ ops \in Seq(Operand) /\ Len(ops) = Place(args, Len(args))
      /\ \A i \in DOMAIN args : args[i] # A_P =>
           Fits(ops[Place(args, i)], input.mnemonic[1], args[i])
  BY InputsAssumption
<1> HIDE DEF args, ops
<1>5. Len(ops) = 3
  BY <1>1, <1>3, <1>4
<1>6. OperandOf(input, A_T) = ValueOf(ops[1])
  <2>1. \A j \in DOMAIN args : args[j] = A_T => j = 1
    BY <1>1, <1>2
  <2> QED
    BY <1>1, <1>3, <2>1, OperandAt DEF args, ops
<1>7. OperandOf(input, k) = ValueOf(ops[2])
  <2>1. \A j \in DOMAIN args : args[j] = k => j = 2
    BY <1>1, <1>2
  <2> QED
    BY <1>1, <1>3, <2>1, OperandAt DEF args, ops
<1>8. OperandOf(input, A_A) = ValueOf(ops[3])
  <2>1. \A j \in DOMAIN args : args[j] = A_A => j = 4
    BY <1>1, <1>2
  <2> QED
    BY <1>1, <1>3, <2>1, OperandAt DEF args, ops
<1>9. /\ Fits(ops[2], input.mnemonic[1], k)
      /\ Fits(ops[3], input.mnemonic[1], A_A)
  BY <1>1, <1>2, <1>3, <1>4
<1>10. IsNumber(ops[2])
  <2>1. k \notin {A_T, A_A, A_B, A_C}
    BY <1>2 DEF A_T, A_A, A_B, A_C
  <2> QED
    BY <1>9, <2>1, FitsNumber
<1>11. \A i \in 1 .. 3 : ops[i] \in Operand
  BY <1>4, <1>5
<1>12. Within(ValueOf(ops[3]), 128)
  BY <1>9, <1>11, RegisterField
<1>13. \A i \in 1 .. 3 : ValueOf(ops[i]) \in Int
  BY <1>11, OperandValue
<1> QED
  BY <1>5, <1>6, <1>7, <1>8, <1>10, <1>12, <1>13 DEF ops

(* What the assembler stores of them: A_P of the list reads the register,  *)
(* and RA is then read at the end of the line.                             *)
LEMMA DisplacedFilled ==
  ASSUME NEW c \in Seq(Token), Len(c) = 3, NEW k \in {A_S7, A_S14}
  PROVE  LET got == ReadArguments(c, <<Displaced(k)>>)
         IN /\ got[A_T] = ReadValue(c, 1) /\ got[A_A] = ReadValue(c, 4)
            /\ k = A_S7 => got[A_S7] = ReadValue(c, 2)
            /\ k = A_S14 => got[A_S10] = ReadValue(c, 2) \div 16
<1> DEFINE list == Displaced(k)
           got == ReadArguments(c, <<list>>)
<1>1. /\ list \in Seq(Kind) /\ Len(list) = 4
      /\ list[1] = 0 /\ list[2] = k /\ list[3] = 5 /\ list[4] = 1
      /\ k \in {7, 14}
  BY DEF Displaced, Kind, A_T, A_A, A_P, A_S7, A_S14
<1> HIDE DEF list
<1>2. /\ Stores(list[1]) = {0} /\ Stores(list[3]) = {} /\ Stores(list[4]) = {1}
      /\ k = 7 => Stores(list[2]) = {7}
      /\ k = 14 => Stores(list[2]) = {14, 10}
  BY <1>1, StoresOf
<1>3. Apart(list)
  <2>1. \A i \in 1 .. 4 : i \in {1, 2, 3, 4}
    OBVIOUS
  <2> QED
    BY <1>1, <1>2, <2>1 DEF Apart
<1>4. \A i \in 1 .. 4 : \A p \in Stores(list[i]) :
        p \in Kind => got[p] = Scaled(list[i], p, ReadValue(c, i))
  <2>1. Filled(got, Zeros, list, c)
    BY <1>1, <1>3, OneListFills
  <2> HIDE DEF got
  <2> QED
    BY <1>1, <2>1, Zenon DEF Filled
<1> HIDE DEF got
<1>5. got[0] = ReadValue(c, 1) /\ got[1] = ReadValue(c, 4)
  <2>1. 0 \in Kind /\ 1 \in Kind /\ 1 \in 1 .. 4 /\ 4 \in 1 .. 4
    BY DEF Kind
  <2>2. got[0] = Scaled(0, 0, ReadValue(c, 1)) /\ got[1] = Scaled(1, 1, ReadValue(c, 4))
    BY <1>1, <1>2, <1>4, <2>1
  <2> QED
    BY <2>2, StoresOf
<1>6. CASE k = 7
  <2>1. 7 \in Kind /\ 2 \in 1 .. 4
    BY DEF Kind
  <2>2. got[7] = Scaled(7, 7, ReadValue(c, 2))
    BY <1>1, <1>2, <1>4, <1>6, <2>1
  <2> QED
    BY <1>5, <1>6, <2>2, StoresOf DEF A_T, A_A, A_S7, A_S14, got, list
<1>7. CASE k = 14
  <2>1. 10 \in Kind /\ 2 \in 1 .. 4
    BY DEF Kind
  <2>2. got[10] = Scaled(14, 10, ReadValue(c, 2))
    BY <1>1, <1>2, <1>4, <1>7, <2>1
  <2> QED
    BY <1>5, <1>7, <2>2, StoresOf DEF A_T, A_A, A_S7, A_S14, A_S10, got, list
<1> QED
  BY <1>1, <1>6, <1>7

(* Those instructions are assembled right but for an alias used twice.     *)
LEMMA DisplacedForm ==
  ASSUME NEW input \in Inputs, input.mnemonic \notin {Mtspr, Syscall},
         NEW k,
         \/ input.mnemonic[1] = "RI7" /\ k = A_S7
         \/ input.mnemonic[1] = "RI10" /\ k = A_S14,
         input.args = Displaced(k),
         ArgLists[input.mnemonic[2]] = <<input.args>>
  PROVE  Right(input)
<1> DEFINE type == input.mnemonic[1]
           o == input.mnemonic[2]
           ops == input.operands
           W(i) == ValueOf(ops[i])
<1>0. k \in {A_S7, A_S14}
  OBVIOUS
<1>1. /\ Len(ops) = 3
      /\ OperandOf(input, A_T) = W(1) /\ OperandOf(input, k) = W(2)
      /\ OperandOf(input, A_A) = W(3)
      /\ IsNumber(ops[2]) /\ Within(W(3), 128) /\ \A i \in 1 .. 3 : W(i) \in Int
  BY <1>0, DisplacedWanted
<1>2. PICK c \in Seq(Token) :
        /\ Len(c) = 3
        /\ ReadAs(c, ops)
        /\ Assemble(Written(input), TRUE)
             = Pack(type, o, ReadArguments(c, <<Displaced(k)>>))
  <2>1. Len(ops) <= 4 /\ input.mnemonic # Mtspr
    BY <1>1
  <2>2. ArgLists[o] = <<Displaced(k)>>
    OBVIOUS
  <2> QED
    BY <1>1, <2>1, <2>2, InputAssembled
<1> DEFINE got == ReadArguments(c, <<Displaced(k)>>)
<1>3. ReadValue(c, 1) = W(1) /\ ReadValue(c, 2) = W(2)
  BY <1>1, <1>2 DEF ReadAs
<1>4. ReadValue(c, 4) = ReadValue(c, 3)
  <2>1. ops # <<>> /\ 4 \in Nat /\ 4 > Len(ops)
    BY <1>1
  <2> QED
    BY <1>1, <1>2, <2>1 DEF ReadAs
<1>5. /\ ReadValue(c, 3) \in {0, W(3)}
      /\ ReadValue(c, 3) = W(3) <=> ~AliasTwice(ops)
  <2>1. 3 \in 1 .. 3 /\ \A i \in 1 .. 3 : i \in {1, 2, 3}
    OBVIOUS
  <2> QED
    BY <1>1, <1>2, <1>3, <2>1 DEF ReadAs
<1>6. /\ got[A_T] = W(1) /\ got[A_A] = ReadValue(c, 3)
      /\ k = A_S7 => got[A_S7] = W(2)
      /\ k = A_S14 => got[A_S10] = W(2) \div 16
  BY <1>0, <1>2, <1>3, <1>4, DisplacedFilled
<1> HIDE DEF got, W
<1>7. Cut(ReadValue(c, 3), 128) = Cut(W(3), 128) <=> ReadValue(c, 3) = W(3)
  <2>1. Near(ReadValue(c, 3), W(3), 128)
    BY <1>1, <1>5 DEF Near, Within
  <2> QED
    BY <2>1, NearCut
<1>8. Pack(type, o, got) = Pictured(input) <=> ReadValue(c, 3) = W(3)
  <2>1. DOMAIN input.args = 1 .. 4 /\ input.args[2] = k
    BY DEF Displaced
  <2>2. CASE type = "RI7" /\ k = A_S7
    <3>1. Pack(type, o, got) = PackRI7(o, got[A_T], got[A_A], got[A_S7])
      BY <2>2 DEF Pack
    <3>2. Pictured(input)
            = PackRI7(o, OperandOf(input, A_T), OperandOf(input, A_A),
                      OperandOf(input, A_S7))
      BY <2>2, Zenon DEF Pictured
    <3> QED
      BY <1>1, <1>6, <1>7, <2>2, <3>1, <3>2, SameRI7
  <2>3. CASE type = "RI10" /\ k = A_S14
    <3>1. Pack(type, o, got) = PackRI10(o, got[A_T], got[A_A], got[A_S10])
      BY <2>3 DEF Pack
    <3>2. Has(input, A_S14)
      BY <2>1, <2>3 DEF Has, ToSet
    <3>3. Pictured(input)
            = PackRI10(o, OperandOf(input, A_T), OperandOf(input, A_A),
                       OperandOf(input, A_S14) \div 16)
      BY <2>3, <3>2, Zenon DEF Pictured
    <3>4. W(2) \div 16 \in Int /\ ReadValue(c, 3) \in Int /\ o \in Nat
      BY <1>1, <1>5, InputOpcode
    <3> QED
      BY <1>1, <1>6, <1>7, <2>3, <3>1, <3>3, <3>4, SameRI10
  <2> QED
    BY <2>2, <2>3
<1>9. Garbled(input) <=> AliasTwice(ops)
  <2>1. SecondList(o) = {}
    <3>1. Len(ArgLists[o]) = 1
      OBVIOUS
    <3> QED
      BY <3>1 DEF SecondList
  <2>2. type \in PlainFormats
    BY DEF PlainFormats
  <2> QED
    BY <2>1, <2>2, GarbledPlain
<1> QED
  BY <1>2, <1>5, <1>8, <1>9 DEF Right, got

-----------------------------------------------------------------------------

(* What an input of one or two arguments, none of them A_P, wants.         *)
LEMMA ShortWanted ==
  ASSUME NEW input \in Inputs, NEW list \in Seq(Kind), input.args = list,
         Len(list) \in 1 .. 2, \A i \in 1 .. Len(list) : list[i] # A_P,
         Len(list) = 2 => list[1] # list[2]
  PROVE  LET ops == input.operands
             type == input.mnemonic[1]
         IN /\ ops \in Seq(Operand) /\ Len(ops) = Len(list)
            /\ \A i \in 1 .. Len(list) :
                 /\ ops[i] \in Operand /\ ValueOf(ops[i]) \in Int
                 /\ OperandOf(input, list[i]) = ValueOf(ops[i])
                 /\ Fits(ops[i], type, list[i])
            /\ \A k : (\A i \in 1 .. Len(list) : list[i] # k)
                         => OperandOf(input, k) = 0
<1> DEFINE ops == input.operands
           n == Len(list)
<1>1. n \in 1 .. 2 /\ DOMAIN list = 1 .. n
  OBVIOUS
<1>2. \A i \in 1 .. n : Place(list, i) = i
  <2>1. ASSUME NEW i \in 1 .. n PROVE ~ \E j \in 1 .. i : list[j] = A_P
    BY <1>1
  <2> QED
    BY <2>1 DEF Place
<1>3. /\ ops \in Seq(Operand) /\ Len(ops) = Place(list, Len(list))
      /\ \A i \in DOMAIN list : list[i] # A_P =>
           Fits(ops[Place(list, i)], input.mnemonic[1], list[i])
  BY InputsAssumption
<1>4. Len(ops) = n /\ n \in 1 .. n
  BY <1>1, <1>2, <1>3
<1>5. ASSUME NEW i \in 1 .. n
      PROVE  /\ ops[i] \in Operand /\ ValueOf(ops[i]) \in Int
             /\ OperandOf(input, list[i]) = ValueOf(ops[i])
             /\ Fits(ops[i], input.mnemonic[1], list[i])
  <2>1. \A j \in DOMAIN list : list[j] = list[i] => j = i
    BY <1>1
  <2>2. OperandOf(input, list[i]) = ValueOf(ops[i])
    BY <1>1, <1>2, <2>1, OperandAt
  <2>3. ops[i] \in Operand
    BY <1>3, <1>4
  <2> QED
    BY <1>1, <1>2, <1>3, <2>2, <2>3, OperandValue
<1>6. ASSUME NEW k, \A i \in 1 .. n : list[i] # k
      PROVE  OperandOf(input, k) = 0
  BY <1>1, <1>6, OperandNone
<1> QED
  BY <1>3, <1>4, <1>5, <1>6

(* A branch target: its distance in bytes is put in the slot of A_S18, and *)
(* in words in that of the immediate.                                      *)
LEMMA TargetFilled ==
  ASSUME NEW c \in Seq(Token), NEW k \in {A_T, A_S11}
  PROVE  /\ LET got == ReadArguments(c, << <<A_S18>> >>)
            IN got[A_S16] = ReadValue(c, 1) \div 4 /\ got[A_T] = 0
         /\ LET got == ReadArguments(c, << <<k, A_S18>> >>)
            IN got[A_S16] = ReadValue(c, 2) \div 4 /\ got[k] = ReadValue(c, 1)
<1>0. k \in {0, 19} /\ A_S18 = 21 /\ A_S16 = 16 /\ A_T = 0
  BY DEF A_T, A_S11, A_S18, A_S16
<1>1. /\ 0 \in Kind /\ 16 \in Kind /\ 19 \in Kind /\ 21 \in Kind
      /\ 1 \in 1 .. 1 /\ 1 \in 1 .. 2 /\ 2 \in 1 .. 2
      /\ \A i \in 1 .. 1 : i = 1
      /\ \A i \in 1 .. 2 : i = 1 \/ i = 2
  BY DEF Kind
<1>2. LET got == ReadArguments(c, << <<21>> >>)
      IN got[16] = ReadValue(c, 1) \div 4 /\ got[0] = 0
  <2> DEFINE list == <<21>>
             got == ReadArguments(c, <<list>>)
  <2>1. list \in Seq(Kind) /\ Len(list) = 1 /\ list[1] = 21
    BY <1>1
  <2> HIDE DEF list
  <2>2. Apart(list)
    BY <1>1, <2>1 DEF Apart
  <2>3. Filled(got, Zeros, list, c)
    BY <2>1, <2>2, OneListFills
  <2> HIDE DEF got
  <2>4. got[16] = Scaled(21, 16, ReadValue(c, 1))
    BY <1>1, <2>1, <2>3, StoresOf DEF Filled
  <2>5. got[0] = Zeros[0]
    BY <1>1, <2>1, <2>3, StoresOf DEF Filled
  <2> QED
    BY <1>1, <2>4, <2>5, StoresOf DEF got, list, Zeros
<1>3. LET got == ReadArguments(c, << <<k, 21>> >>)
      IN got[16] = ReadValue(c, 2) \div 4 /\ got[k] = ReadValue(c, 1)
  <2> DEFINE list == <<k, 21>>
             got == ReadArguments(c, <<list>>)
  <2>1. list \in Seq(Kind) /\ Len(list) = 2 /\ list[1] = k /\ list[2] = 21
    BY <1>0, <1>1
  <2> HIDE DEF list
  <2>2. Stores(k) = {k} /\ Stores(21) = {21, 16}
    BY <1>0, StoresOf
  <2>3. Apart(list)
    BY <1>0, <1>1, <2>1, <2>2 DEF Apart
  <2>4. Filled(got, Zeros, list, c)
    BY <2>1, <2>3, OneListFills
  <2> HIDE DEF got
  <2>5. got[16] = Scaled(21, 16, ReadValue(c, 2))
    BY <1>1, <2>1, <2>2, <2>4 DEF Filled
  <2>6. got[k] = Scaled(k, k, ReadValue(c, 1))
    BY <1>0, <1>1, <2>1, <2>2, <2>4 DEF Filled
  <2> QED
    BY <1>0, <2>5, <2>6, StoresOf DEF got, list
<1> QED
  BY <1>0, <1>2, <1>3

-----------------------------------------------------------------------------

(* A line of one operand, or of two of which the second is a number, is    *)
(* read as it is meant.                                                    *)
LEMMA ShortRead ==
  ASSUME NEW c, NEW ops, ReadAs(c, ops), Len(ops) \in 1 .. 2,
         Len(ops) = 2 => IsNumber(ops[2])
  PROVE  /\ \A i \in 1 .. Len(ops) : ReadValue(c, i) = ValueOf(ops[i])
         /\ ~AliasTwice(ops)
<1> DEFINE n == Len(ops)
<1>1. /\ n >= 1 => ReadValue(c, 1) = ValueOf(ops[1])
      /\ n >= 2 /\ IsNumber(ops[2]) => ReadValue(c, 2) = ValueOf(ops[2])
      /\ (\A i \in 1 .. n : ReadValue(c, i) = ValueOf(ops[i]))
           <=> ~AliasTwice(ops)
  BY DEF ReadAs
<1>2. n \in 1 .. 2 /\ (n = 2 => IsNumber(ops[2]))
  OBVIOUS
<1> HIDE DEF n
<1>3. ASSUME NEW i \in 1 .. n PROVE ReadValue(c, i) = ValueOf(ops[i])
  <2>1. n >= 1 /\ (i = 1 \/ (i = 2 /\ n >= 2 /\ n = 2))
    BY <1>2
  <2> QED
    BY <1>1, <1>2, <2>1
<1> QED
  BY <1>1, <1>3 DEF n

(* Branches to an address, with or without a register: they are assembled  *)
(* right.                                                                  *)
LEMMA BranchForm ==
  ASSUME NEW input \in Inputs, input.mnemonic \notin {Mtspr, Syscall},
         input.mnemonic[1] = "RI16",
         input.args \in {<<A_S18>>, <<A_T, A_S18>>},
         ArgLists[input.mnemonic[2]] = <<input.args>>
  PROVE  Right(input)
<1> DEFINE list == input.args
           o == input.mnemonic[2]
           ops == input.operands
           n == Len(list)
           W(i) == ValueOf(ops[i])
<1>0. /\ A_T = 0 /\ A_S18 = 21 /\ A_P = 5 /\ A_S18 # A_T
      /\ A_S18 \notin {A_T, A_A, A_B, A_C}
  BY DEF A_T, A_A, A_B, A_C, A_S18, A_P
<1>1. \/ list = <<A_S18>> /\ n = 1 /\ list[1] = A_S18
      \/ list = <<A_T, A_S18>> /\ n = 2 /\ list[1] = A_T /\ list[2] = A_S18
  <2>1. CASE list = <<A_S18>>
    BY <2>1
  <2>2. CASE list = <<A_T, A_S18>>
    BY <2>2
  <2> QED
    BY <2>1, <2>2
<1>2. /\ list \in Seq(Kind) /\ n \in 1 .. 2
      /\ \A i \in 1 .. n : list[i] # A_P
      /\ n = 2 => list[1] # list[2]
  <2>1. A_T \in Kind /\ A_S18 \in Kind
    BY <1>0 DEF Kind
  <2>2. list \in Seq(Kind)
    <3>1. <<A_S18>> \in Seq(Kind) /\ <<A_T, A_S18>> \in Seq(Kind)
      BY <2>1
    <3> QED
      BY <1>1, <3>1, Zenon
  <2> HIDE DEF list, n
  <2>3. n \in 1 .. 2 /\ \A i \in 1 .. n : i = 1 \/ i = 2
    BY <1>1
  <2>4. \A i \in 1 .. n : list[i] \in {A_T, A_S18}
    BY <1>1, <2>3
  <2> QED
    BY <1>0, <1>1, <2>2, <2>3, <2>4
<1>3. /\ ops \in Seq(Operand) /\ Len(ops) = n
      /\ \A i \in 1 .. n :
           /\ ops[i] \in Operand /\ W(i) \in Int
           /\ OperandOf(input, list[i]) = W(i)
           /\ Fits(ops[i], "RI16", list[i])
      /\ \A k : (\A i \in 1 .. n : list[i] # k) => OperandOf(input, k) = 0
  BY <1>2, ShortWanted
<1>4. PICK c \in Seq(Token) :
        /\ ReadAs(c, ops)
        /\ Assemble(Written(input), TRUE)
             = Pack("RI16", o, ReadArguments(c, <<list>>))
  <2>1. Len(ops) <= 4 /\ input.mnemonic # Mtspr
    BY <1>2, <1>3
  <2> QED
    BY <2>1, InputAssembled
<1> HIDE DEF list, n, W
<1>5. (\A i \in 1 .. n : ReadValue(c, i) = W(i)) /\ ~AliasTwice(ops)
  <2>1. Len(ops) \in 1 .. 2
    BY <1>2, <1>3
  <2>2. Len(ops) = 2 => IsNumber(ops[2])
    <3> SUFFICES ASSUME n = 2 PROVE IsNumber(ops[2])
      BY <1>3
    <3>1. Fits(ops[2], "RI16", A_S18)
      BY <1>1, <1>3
    <3> QED
      BY <1>0, <3>1, FitsNumber
  <2> QED
    BY <1>3, <1>4, <2>1, <2>2, ShortRead DEF W
<1> DEFINE got == ReadArguments(c, <<list>>)
<1>6. /\ got[A_T] = OperandOf(input, A_T)
      /\ got[A_S16] = OperandOf(input, A_S18) \div 4
  <2>1. CASE list = <<A_S18>> /\ n = 1 /\ list[1] = A_S18
    <3>1. got[A_S16] = ReadValue(c, 1) \div 4 /\ got[A_T] = 0
      BY <2>1, TargetFilled
    <3>2. 1 \in 1 .. n /\ \A i \in 1 .. n : list[i] # A_T
      BY <1>0, <2>1
    <3>3. OperandOf(input, A_T) = 0 /\ OperandOf(input, A_S18) = ReadValue(c, 1)
      BY <1>3, <1>5, <2>1, <3>2
    <3> QED
      BY <3>1, <3>3
  <2>2. CASE list = <<A_T, A_S18>> /\ n = 2 /\ list[1] = A_T /\ list[2] = A_S18
    <3>1. got[A_S16] = ReadValue(c, 2) \div 4 /\ got[A_T] = ReadValue(c, 1)
      BY <2>2, TargetFilled
    <3>2. 1 \in 1 .. n /\ 2 \in 1 .. n
      BY <2>2
    <3>3. /\ OperandOf(input, A_T) = ReadValue(c, 1)
          /\ OperandOf(input, A_S18) = ReadValue(c, 2)
      BY <1>3, <1>5, <2>2, <3>2
    <3> QED
      BY <3>1, <3>3
  <2> QED
    BY <1>1, <2>1, <2>2
<1> HIDE DEF got
<1>7. Has(input, A_S18)
  <2>1. \E i \in DOMAIN list : list[i] = A_S18
    BY <1>1
  <2> QED
    BY <2>1 DEF Has, ToSet, list
<1>8. Pack("RI16", o, got) = PackRI16(o, got[A_T], got[A_S16])
  BY DEF Pack
<1>9. Pictured(input)
        = PackRI16(o, OperandOf(input, A_T), OperandOf(input, A_S18) \div 4)
  BY <1>7, Zenon DEF Pictured
<1>10. ~Garbled(input)
  <2>1. SecondList(o) = {}
    <3>1. Len(ArgLists[o]) = 1
      OBVIOUS
    <3> QED
      BY <3>1 DEF SecondList
  <2>2. input.mnemonic[1] \in PlainFormats
    BY DEF PlainFormats
  <2> QED
    BY <1>5, <2>1, <2>2, GarbledPlain
<1> QED
  BY <1>4, <1>6, <1>8, <1>9, <1>10 DEF Right, got

-----------------------------------------------------------------------------

(* The two operands of a hint.                                             *)
LEMMA HintWanted ==
  ASSUME NEW input \in Inputs, NEW k \in {A_A, A_S18},
         input.args = <<A_S11, k>>
  PROVE  LET ops == input.operands
         IN /\ Len(ops) = 2 /\ IsNumber(ops[1]) /\ ops[2] \in Operand
            /\ Fits(ops[2], input.mnemonic[1], k)
            /\ OperandOf(input, A_S11) = ValueOf(ops[1])
            /\ OperandOf(input, k) = ValueOf(ops[2])
            /\ ValueOf(ops[1]) \in Int /\ ValueOf(ops[2]) \in Int
<1> DEFINE list == input.args
           ops == input.operands
<1>0. /\ A_S11 = 19 /\ A_P = 5 /\ k \in {1, 21}
      /\ A_S11 \notin {A_T, A_A, A_B, A_C}
  BY DEF A_T, A_A, A_B, A_C, A_S11, A_S18, A_P
<1>1. list \in Seq(Kind) /\ Len(list) = 2 /\ list[1] = A_S11 /\ list[2] = k
  <2>1. A_S11 \in Kind /\ k \in Kind
    BY <1>0 DEF Kind
  <2>2. <<A_S11, k>> \in Seq(Kind)
    BY <2>1
  <2> QED
    BY <2>2
<1> HIDE DEF list
<1>2. /\ Len(list) \in 1 .. 2 /\ list[1] # list[2]
      /\ \A i \in 1 .. Len(list) : list[i] # A_P
      /\ 1 \in 1 .. 2 /\ 2 \in 1 .. 2
  <2>1. \A i \in 1 .. 2 : i = 1 \/ i = 2
    OBVIOUS
  <2> QED
    BY <1>0, <1>1, <2>1
<1>3. /\ Len(ops) = 2
      /\ \A i \in 1 .. 2 :
           /\ ops[i] \in Operand /\ ValueOf(ops[i]) \in Int
           /\ OperandOf(input, list[i]) = ValueOf(ops[i])
           /\ Fits(ops[i], input.mnemonic[1], list[i])
  BY <1>1, <1>2, ShortWanted DEF list
<1>4. IsNumber(ops[1])
  <2>1. Fits(ops[1], input.mnemonic[1], A_S11)
    BY <1>1, <1>2, <1>3
  <2> QED
    BY <1>0, <2>1, FitsNumber
<1> QED
  BY <1>1, <1>2, <1>3, <1>4

(* A branch hint's offset is put in a slot of its own. *)
LEMMA HintFilled ==
  ASSUME NEW c \in Seq(Token)
  PROVE  LET got == ReadArguments(c, << <<A_S11, A_A>> >>)
         IN got[A_S11I] = ReadValue(c, 1) /\ got[A_S16] = 0
<1> DEFINE list == <<A_S11, A_A>>
           got == ReadArguments(c, <<list>>)
<1>0. A_S11 = 19 /\ A_S11I = 19 /\ A_A = 1 /\ A_S16 = 16
  BY DEF A_S11, A_S11I, A_A, A_S16
<1>1. /\ 1 \in Kind /\ 16 \in Kind /\ 19 \in Kind
      /\ 1 \in 1 .. 2 /\ \A i \in 1 .. 2 : i = 1 \/ i = 2
  BY DEF Kind
<1>2. list \in Seq(Kind) /\ Len(list) = 2 /\ list[1] = 19 /\ list[2] = 1
  BY <1>0, <1>1
<1> HIDE DEF list
<1>3. Stores(19) = {19} /\ Stores(1) = {1}
  BY StoresOf
<1>4. Apart(list)
  BY <1>1, <1>2, <1>3 DEF Apart
<1>5. Filled(got, Zeros, list, c)
  BY <1>2, <1>4, OneListFills
<1> HIDE DEF got
<1>6. got[19] = Scaled(19, 19, ReadValue(c, 1))
  BY <1>1, <1>2, <1>3, <1>5 DEF Filled
<1>7. got[16] = Zeros[16]
  BY <1>1, <1>2, <1>3, <1>5 DEF Filled
<1> QED
  BY <1>0, <1>1, <1>6, <1>7, StoresOf DEF got, list, Zeros

(* Hints for a branch to an address: the offset of the branch is put in    *)
(* bytes where words belong.                                               *)
LEMMA HintForm ==
  ASSUME NEW input \in Inputs, input.mnemonic \notin {Mtspr, Syscall},
         input.mnemonic[1] = "LBT", input.args = <<A_S11, A_S18>>,
         ArgLists[input.mnemonic[2]] = << <<A_S11, A_S18>> >>
  PROVE  Right(input)
<1> DEFINE o == input.mnemonic[2]
           ops == input.operands
           x == ValueOf(ops[1])
           y == ValueOf(ops[2])
<1>0. A_S18 \notin {A_T, A_A, A_B, A_C}
  BY DEF A_T, A_A, A_B, A_C, A_S18
<1>1. /\ Len(ops) = 2
      /\ Fits(ops[2], input.mnemonic[1], A_S18)
      /\ OperandOf(input, A_S11) = x /\ OperandOf(input, A_S18) = y
      /\ x \in Int /\ y \in Int
  BY HintWanted
<1>2. PICK c \in Seq(Token) :
        /\ ReadAs(c, ops)
        /\ Assemble(Written(input), TRUE)
             = Pack("LBT", o, ReadArguments(c, << <<A_S11, A_S18>> >>))
  <2>1. Len(ops) <= 4 /\ input.mnemonic # Mtspr
    BY <1>1
  <2> QED
    BY <2>1, InputAssembled
<1>3. ReadValue(c, 1) = x /\ ReadValue(c, 2) = y /\ ~AliasTwice(ops)
  <2>1. IsNumber(ops[2])
    BY <1>0, <1>1, FitsNumber
  <2>2. Len(ops) \in 1 .. 2 /\ 1 \in 1 .. 2 /\ 2 \in 1 .. 2
    BY <1>1
  <2> QED
    BY <1>1, <1>2, <2>1, <2>2, ShortRead
<1> DEFINE got == ReadArguments(c, << <<A_S11, A_S18>> >>)
<1>4. got[A_S11] = x /\ got[A_S16] = y \div 4
  BY <1>3, TargetFilled
<1> HIDE DEF got, x, y
<1>5. Pack("LBT", o, got) = PackLBT(o, x, y \div 4)
  BY <1>4 DEF Pack
<1>6. Pictured(input) = PackLBT(o, x \div 4, y \div 4)
  BY <1>1, Zenon DEF Pictured
<1>7. PackLBT(o, x, y \div 4) = PackLBT(o, x \div 4, y \div 4)
        <=> Cut(x, 512) = Cut(x \div 4, 512)
  <2>1. o \in Nat /\ x \div 4 \in Int /\ y \div 4 \in Int
    BY <1>1, InputOpcode
  <2> QED
    BY <1>1, <2>1, SameLBT
<1>8. Garbled(input) <=> Cut(x, 512) # Cut(x \div 4, 512)
  <2>1. SecondList(o) = {}
    <3>1. Len(ArgLists[o]) = 1
      OBVIOUS
    <3> QED
      BY <3>1 DEF SecondList
  <2>2. /\ input.mnemonic[1] \in {"LBT", "LBTI"}
        /\ input.mnemonic[1] # "RRR" /\ input.mnemonic[1] # "LBTI"
    OBVIOUS
  <2>3. Garbled(input)
          <=> Cut(OperandOf(input, A_S11), 512)
                # Cut(OperandOf(input, A_S11) \div 4, 512)
    BY <1>3, <2>1, <2>2, Zenon DEF Garbled
  <2> QED
    BY <1>1, <2>3
<1> QED
  BY <1>2, <1>5, <1>6, <1>7, <1>8 DEF Right, got

(* Hints for a branch to a register: as well, and the register is lost.    *)
LEMMA RegisterHintForm ==
  ASSUME NEW input \in Inputs, input.mnemonic \notin {Mtspr, Syscall},
         input.mnemonic[1] = "LBTI", input.args = <<A_S11, A_A>>,
         ArgLists[input.mnemonic[2]] = << <<A_S11, A_A>> >>
  PROVE  Right(input)
<1> DEFINE o == input.mnemonic[2]
           ops == input.operands
           x == ValueOf(ops[1])
           y == ValueOf(ops[2])
<1>1. /\ Len(ops) = 2 /\ IsNumber(ops[1]) /\ ops[2] \in Operand
      /\ Fits(ops[2], input.mnemonic[1], A_A)
      /\ OperandOf(input, A_S11) = x /\ OperandOf(input, A_A) = y
      /\ x \in Int /\ y \in Int
  BY HintWanted
<1>2. PICK c \in Seq(Token) :
        /\ ReadAs(c, ops)
        /\ Assemble(Written(input), TRUE)
             = Pack("LBTI", o, ReadArguments(c, << <<A_S11, A_A>> >>))
  <2>1. Len(ops) <= 4 /\ input.mnemonic # Mtspr
    BY <1>1
  <2> QED
    BY <2>1, InputAssembled
<1>3. ReadValue(c, 1) = x
  BY <1>1, <1>2 DEF ReadAs
<1>4. ~AliasTwice(ops)
  <2>1. SUFFICES ASSUME NEW i \in DOMAIN ops, NEW j \in DOMAIN ops, i < j,
                        ops[i].name = ops[j].name, ops[j].name \in {"SP", "LR"}
                 PROVE  FALSE
    BY Zenon DEF AliasTwice
  <2>2. ops \in Seq(Operand)
    BY InputsAssumption
  <2>3. i = 1
    BY <1>1, <2>1, <2>2
  <2> QED
    BY <1>1, <2>1, <2>3 DEF IsNumber
<1> DEFINE got == ReadArguments(c, << <<A_S11, A_A>> >>)
<1>5. got[A_S11I] = x /\ got[A_S16] = 0
  BY <1>3, HintFilled
<1> HIDE DEF got, x, y
<1>6. Pack("LBTI", o, got) = PackLBTI(o, x, 0)
  BY <1>5 DEF Pack
<1>7. Pictured(input) = PackLBTI(o, x \div 4, y)
  BY <1>1, Zenon DEF Pictured
<1>8. PackLBTI(o, x, 0) = PackLBTI(o, x \div 4, y)
        <=> Cut(x, 512) = Cut(x \div 4, 512) /\ Cut(0, 128) = Cut(y, 128)
  <2>1. x \div 4 \in Int
    BY <1>1
  <2> QED
    BY <1>1, <2>1, SameLBTI
<1>9. Cut(0, 128) = Cut(y, 128) <=> y = 0
  <2>1. Within(y, 128)
    BY <1>1, RegisterField DEF y
  <2>2. Near(0, y, 128)
    BY <2>1 DEF Within, Near
  <2> QED
    BY <2>2, NearCut
<1>10. Garbled(input) <=> Cut(x, 512) # Cut(x \div 4, 512) \/ y # 0
  <2>1. SecondList(o) = {}
    <3>1. Len(ArgLists[o]) = 1
      OBVIOUS
    <3> QED
      BY <3>1 DEF SecondList
  <2> QED
    BY <1>1, <1>4, <2>1, Zenon DEF Garbled
<1> QED
  BY <1>2, <1>6, <1>7, <1>8, <1>9, <1>10 DEF Right, got

-----------------------------------------------------------------------------

(* A register operand is its own low seven bits.                           *)
LEMMA RegisterValue ==
  ASSUME NEW token \in Operand, NEW type, NEW kind,
         kind \in {A_T, A_A, A_B, A_C}, Fits(token, type, kind)
  PROVE  ValueOf(token) \in 0 .. 127 /\ Cut(ValueOf(token), 128) = ValueOf(token)
<1>1. IsNumber(token) => token.value \in 0 .. 127
  BY FitsRegister
<1>2. /\ ValueOf(token) \in Int
      /\ IsNumber(token) => ValueOf(token) = token.value
      /\ ~IsNumber(token) => ValueOf(token) \in 0 .. 1
  BY OperandValue
<1>3. ValueOf(token) \in 0 .. 127
  BY <1>1, <1>2
<1>4. \A x \in 0 .. 127 : Cut(x, 128) = x
  BY DEF Cut
<1> QED
  BY <1>3, <1>4

Sources == <<A_C, A_A, A_B, A_T>>

(* The four registers of an RRR instruction.                               *)
LEMMA SourcesWanted ==
  ASSUME NEW input \in Inputs, input.args = Sources
  PROVE  LET ops == input.operands
             W(i) == ValueOf(ops[i])
         IN /\ Len(ops) = 4
            /\ \A i \in 1 .. 4 : W(i) \in 0 .. 127 /\ Cut(W(i), 128) = W(i)
            /\ OperandOf(input, A_C) = W(1) /\ OperandOf(input, A_A) = W(2)
            /\ OperandOf(input, A_B) = W(3) /\ OperandOf(input, A_T) = W(4)
<1> DEFINE args == input.args
           ops == input.operands
<1>1. /\ Len(args) = 4 /\ DOMAIN args = 1 .. 4
      /\ args[1] = A_C /\ args[2] = A_A /\ args[3] = A_B /\ args[4] = A_T
  BY DEF Sources
<1>2. /\ A_T = 0 /\ A_A = 1 /\ A_B = 2 /\ A_C = 3 /\ A_P = 5
      /\ 4 \in 1 .. 4 /\ \A i \in 1 .. 4 : i \in {1, 2, 3, 4}
  BY DEF A_T, A_A, A_B, A_C, A_P
<1> HIDE DEF args
<1>3. ASSUME NEW i \in 1 .. 4
      PROVE  /\ Place(args, i) = i /\ args[i] # A_P
             /\ args[i] \in {A_T, A_A, A_B, A_C}
             /\ \A j \in DOMAIN args : args[j] = args[i] => j = i
  <2>1. \A j \in 1 .. 4 : args[j] # A_P
    BY <1>1, <1>2
  <2>2. \A j \in 1 .. i : j \in 1 .. 4
    OBVIOUS
  <2>3. Place(args, i) = i
    BY <2>1, <2>2 DEF Place
  <2>4. args[i] \in {A_T, A_A, A_B, A_C}
    BY <1>1, <1>2
  <2>5. \A j \in 1 .. 4 : args[j] = args[i] => j = i
    BY <1>1, <1>2
  <2> QED
    BY <1>1, <2>1, <2>3, <2>4, <2>5
<1>4. /\ ops \in Seq(Operand) /\ Len(ops) = 4
      /\ \A i \in 1 .. 4 : Fits(ops[i], input.mnemonic[1], args[i])
  <2>1. /\ ops \in Seq(Operand) /\ Len(ops) = Place(args, Len(args))
        /\ \A i \in DOMAIN args : args[i] # A_P =>
             Fits(ops[Place(args, i)], input.mnemonic[1], args[i])
    BY InputsAssumption DEF args
  <2> QED
    BY <1>1, <1>2, <1>3, <2>1
<1>5. ASSUME NEW i \in 1 .. 4
      PROVE  /\ ValueOf(ops[i]) \in 0 .. 127
             /\ Cut(ValueOf(ops[i]), 128) = ValueOf(ops[i])
             /\ OperandOf(input, args[i]) = ValueOf(ops[i])
  <2>1. ops[i] \in Operand
    BY <1>4
  <2>2. OperandOf(input, args[i]) = ValueOf(ops[i])
    BY <1>1, <1>3, OperandAt DEF args
  <2>3. args[i] \in {A_T, A_A, A_B, A_C} /\ Fits(ops[i], input.mnemonic[1], args[i])
    BY <1>3, <1>4
  <2>4. /\ ValueOf(ops[i]) \in 0 .. 127
        /\ Cut(ValueOf(ops[i]), 128) = ValueOf(ops[i])
    BY <2>1, <2>3, RegisterValue, Zenon
  <2> QED
    BY <2>2, <2>4
<1>6. /\ OperandOf(input, args[1]) = ValueOf(ops[1])
      /\ OperandOf(input, args[2]) = ValueOf(ops[2])
      /\ OperandOf(input, args[3]) = ValueOf(ops[3])
      /\ OperandOf(input, args[4]) = ValueOf(ops[4])
  <2>1. 1 \in 1 .. 4 /\ 2 \in 1 .. 4 /\ 3 \in 1 .. 4 /\ 4 \in 1 .. 4
    OBVIOUS
  <2> QED
    BY <1>5, <2>1
<1> QED
  BY <1>1, <1>4, <1>5, <1>6

(* The assembler stores them in the order they are written.                *)
LEMMA SourcesFilled ==
  ASSUME NEW c \in Seq(Token)
  PROVE  LET got == ReadArguments(c, <<Sources>>)
         IN /\ got[A_C] = ReadValue(c, 1) /\ got[A_A] = ReadValue(c, 2)
            /\ got[A_B] = ReadValue(c, 3) /\ got[A_T] = ReadValue(c, 4)
<1> DEFINE list == Sources
           got == ReadArguments(c, <<list>>)
<1>0. A_T = 0 /\ A_A = 1 /\ A_B = 2 /\ A_C = 3
  BY DEF A_T, A_A, A_B, A_C
<1>1. /\ {0, 1, 2, 3} \subseteq Kind
      /\ 1 \in 1 .. 4 /\ 2 \in 1 .. 4 /\ 3 \in 1 .. 4 /\ 4 \in 1 .. 4
      /\ \A i \in 1 .. 4 : i \in {1, 2, 3, 4}
  BY DEF Kind
<1>2. /\ list \in Seq(Kind) /\ Len(list) = 4
      /\ list[1] = 3 /\ list[2] = 1 /\ list[3] = 2 /\ list[4] = 0
  BY <1>0, <1>1 DEF Sources
<1> HIDE DEF list
<1>3. \A i \in 1 .. 4 : Stores(list[i]) = {list[i]} /\ list[i] \in {0, 1, 2, 3}
  BY <1>1, <1>2, StoresOf
<1>4. Apart(list)
  BY <1>1, <1>2, <1>3 DEF Apart
<1>5. Filled(got, Zeros, list, c)
  BY <1>2, <1>4, OneListFills
<1> HIDE DEF got
<1>6. ASSUME NEW i \in 1 .. 4 PROVE got[list[i]] = ReadValue(c, i)
  <2>1. got[list[i]] = Scaled(list[i], list[i], ReadValue(c, i))
    BY <1>1, <1>2, <1>3, <1>5 DEF Filled
  <2> QED
    BY <1>3, <2>1 DEF Scaled
<1> QED
  BY <1>0, <1>1, <1>2, <1>6 DEF got, list

(* Instructions of three sources: the target and the third source change   *)
(* places.                                                                 *)
LEMMA SourcesForm ==
  ASSUME NEW input \in Inputs, input.mnemonic \notin {Mtspr, Syscall},
         input.mnemonic[1] = "RRR", input.args = Sources,
         ArgLists[input.mnemonic[2]] = <<Sources>>
  PROVE  Right(input)
<1> DEFINE o == input.mnemonic[2]
           ops == input.operands
           W(i) == ValueOf(ops[i])
<1>1. /\ Len(ops) = 4
      /\ \A i \in 1 .. 4 : W(i) \in 0 .. 127 /\ Cut(W(i), 128) = W(i)
      /\ OperandOf(input, A_C) = W(1) /\ OperandOf(input, A_A) = W(2)
      /\ OperandOf(input, A_B) = W(3) /\ OperandOf(input, A_T) = W(4)
  BY SourcesWanted
<1>2. PICK c \in Seq(Token) :
        /\ ReadAs(c, ops)
        /\ Assemble(Written(input), TRUE)
             = Pack("RRR", o, ReadArguments(c, <<Sources>>))
  <2>1. Len(ops) <= 4 /\ input.mnemonic # Mtspr
    BY <1>1
  <2> QED
    BY <2>1, InputAssembled
<1> DEFINE got == ReadArguments(c, <<Sources>>)
           v(i) == ReadValue(c, i)
<1>3. /\ v(1) = W(1) /\ \A i \in 1 .. 4 : v(i) \in {0, W(i)}
      /\ (\A i \in 1 .. 4 : v(i) = W(i)) <=> ~AliasTwice(ops)
  BY <1>1, <1>2 DEF ReadAs
<1>4. /\ got[A_C] = v(1) /\ got[A_A] = v(2)
      /\ got[A_B] = v(3) /\ got[A_T] = v(4)
  BY SourcesFilled
<1> HIDE DEF got, v, W
<1>5. \A i \in 1 .. 4 : v(i) \in Int /\ W(i) \in Int /\ Cut(v(i), 128) = v(i)
  <2>1. Cut(0, 128) = 0
    BY DEF Cut
  <2>2. ASSUME NEW i \in 1 .. 4
        PROVE  v(i) \in Int /\ W(i) \in Int /\ Cut(v(i), 128) = v(i)
    <3>1. v(i) = 0 \/ v(i) = W(i)
      BY <1>3
    <3>2. W(i) \in 0 .. 127 /\ Cut(W(i), 128) = W(i)
      BY <1>1
    <3>3. Cut(v(i), 128) = v(i)
      BY <2>1, <3>1, <3>2, Zenon
    <3>4. W(i) \in Int
      <4>1. \A x \in 0 .. 127 : x \in Int
        OBVIOUS
      <4> QED
        BY <3>2, <4>1, Zenon
    <3>5. v(i) \in Int
      BY <3>1, <3>4
    <3> QED
      BY <3>3, <3>4, <3>5
  <2> QED
    BY <2>2
<1>6. /\ 1 \in 1 .. 4 /\ 2 \in 1 .. 4 /\ 3 \in 1 .. 4 /\ 4 \in 1 .. 4
      /\ \A i \in 1 .. 4 : i \in {1, 2, 3, 4}
  OBVIOUS
<1>7. Pack("RRR", o, got) = PackRRR(o, v(4), v(2), v(3), v(1))
  BY <1>4 DEF Pack
<1>8. Pictured(input) = PackRRR(o, W(1), W(2), W(3), W(4))
  BY <1>1, Zenon DEF Pictured
<1>9. Pack("RRR", o, got) = Pictured(input)
        <=> v(4) = W(1) /\ v(2) = W(2) /\ v(3) = W(3) /\ v(1) = W(4)
  <2>1. o \in Nat
    BY InputOpcode
  <2>2. PackRRR(o, v(4), v(2), v(3), v(1)) = PackRRR(o, W(1), W(2), W(3), W(4))
          <=> /\ Cut(v(4), 128) = Cut(W(1), 128)
              /\ Cut(v(2), 128) = Cut(W(2), 128)
              /\ Cut(v(3), 128) = Cut(W(3), 128)
              /\ Cut(v(1), 128) = Cut(W(4), 128)
    BY <1>5, <1>6, <2>1, SameRRR
  <2> QED
    BY <1>1, <1>5, <1>6, <1>7, <1>8, <2>2
<1>10. Garbled(input) <=> W(1) # W(4) \/ AliasTwice(ops)
  <2>1. SecondList(o) = {}
    <3>1. Len(ArgLists[o]) = 1
      OBVIOUS
    <3> QED
      BY <3>1 DEF SecondList
  <2>2. input.mnemonic[1] \notin {"LBT", "LBTI"} /\ input.mnemonic[1] # "LBTI"
    OBVIOUS
  <2>3. Garbled(input) <=> OperandOf(input, A_C) # OperandOf(input, A_T)
                           \/ AliasTwice(ops)
    BY <2>1, <2>2, Zenon DEF Garbled
  <2> QED
    BY <1>1, <2>3
<1>11. (\A i \in 1 .. 4 : v(i) = W(i))
         <=> v(1) = W(1) /\ v(2) = W(2) /\ v(3) = W(3) /\ v(4) = W(4)
  BY <1>6
<1>12. Pack("RRR", o, got) = Pictured(input) <=> ~Garbled(input)
  BY <1>3, <1>9, <1>10, <1>11
<1> QED
  BY <1>2, <1>12 DEF Right, got

-----------------------------------------------------------------------------

(* The code of stop is read by its second list, into a slot of its own.    *)
LEMMA StopFilled ==
  ASSUME NEW c \in Seq(Token)
  PROVE  LET got == ReadArguments(c, << <<>>, <<A_U14>> >>)
         IN got[A_T] = 0 /\ got[A_A] = 0 /\ got[A_B] = 0
<1> DEFINE l1 == <<>>
           l2 == <<A_U14>>
           got == ReadArguments(c, <<l1, l2>>)
<1>0. A_T = 0 /\ A_A = 1 /\ A_B = 2 /\ A_U14 = 20
  BY DEF A_T, A_A, A_B, A_U14
<1>1. /\ {0, 1, 2, 20} \subseteq Kind
      /\ \A i \in 1 .. 1 : i = 1
      /\ \A i \in 1 .. 0 : FALSE
  BY DEF Kind
<1>2. /\ l1 \in Seq(Kind) /\ Len(l1) = 0
      /\ l2 \in Seq(Kind) /\ Len(l2) = 1 /\ l2[1] = 20
  BY <1>0, <1>1
<1> HIDE DEF l1, l2
<1>3. Stores(20) = {20}
  BY StoresOf
<1>4. Apart(l1) /\ Apart(l2)
  BY <1>1, <1>2 DEF Apart
<1>5. PICK mid \in [Kind -> Int], rest \in Seq(Token) :
        /\ IsLeft(rest, c, Len(l1))
        /\ Filled(mid, Zeros, l1, c)
        /\ Filled(got, mid, l2, rest)
        /\ got \in [Kind -> Int]
  <2>1. Len(l1) \in 0 .. 4 /\ Len(l2) \in 0 .. 4
    BY <1>2
  <2> QED
    BY <1>2, <1>4, <2>1, TwoListsFill, Zenon
<1> HIDE DEF got
<1>6. ASSUME NEW k \in {0, 1, 2} PROVE got[k] = 0
  <2>1. k \in Kind /\ k # 20
    BY <1>1
  <2>2. mid[k] = Zeros[k]
    BY <1>1, <1>2, <1>5, <2>1 DEF Filled
  <2>3. got[k] = mid[k]
    BY <1>1, <1>2, <1>3, <1>5, <2>1 DEF Filled
  <2> QED
    BY <2>1, <2>2, <2>3 DEF Zeros
<1> QED
  BY <1>0, <1>6 DEF got, l1, l2

(* The operand of stop is one of the codes.                                *)
LEMMA FitsCode ==
  ASSUME NEW token, NEW type, NEW kind, Fits(token, type, kind)
  PROVE  kind = A_U14 => token.value \in Codes
  BY Zenon DEF Fits

(* The code of stop lies across two fields of the word.                    *)
LEMMA StopWanted ==
  ASSUME NEW input \in Inputs, input.mnemonic[1] = "RR",
         input.args \in {<<>>, <<A_U14>>}
  PROVE  LET code == OperandOf(input, A_U14)
         IN /\ code \in Codes /\ Len(input.operands) \in 0 .. 1
            /\ Pictured(input)
                 = PackRR(input.mnemonic[2], code % 128, code \div 128, 0)
<1> DEFINE o == input.mnemonic[2]
           list == input.args
           ops == input.operands
           code == OperandOf(input, A_U14)
<1>0. /\ A_T = 0 /\ A_A = 1 /\ A_B = 2 /\ A_U14 = 20 /\ A_P = 5
      /\ A_U14 \notin {A_T, A_A, A_B, A_C}
  BY DEF A_T, A_A, A_B, A_C, A_U14, A_P
<1>1. CASE list = <<>>
  <2>1. Plain(list, "RR") /\ Len(list) = 0 /\ DOMAIN list = {}
    <3>1. <<>> \in Seq(Kind) /\ Len(<<>>) = 0 /\ DOMAIN <<>> = {}
      OBVIOUS
    <3> QED
      BY <1>1, <3>1 DEF Plain
  <2>2. /\ Len(ops) = 0
        /\ \A k \in Slots("RR") : Wanted(input)[k] = 0
        /\ Pictured(input) = Pack("RR", o, Wanted(input))
    <3>1. input.mnemonic[1] \in PlainFormats
      BY DEF PlainFormats
    <3> QED
      BY <2>1, <3>1, PlainWanted
  <2>3. code = 0 /\ code \in Codes /\ Len(ops) \in 0 .. 1
    BY <2>1, <2>2, OperandNone DEF Codes
  <2>4. Pack("RR", o, Wanted(input)) = PackRR(o, 0, 0, 0)
    <3>1. Slots("RR") = {A_T, A_A, A_B}
      BY DEF Slots
    <3> DEFINE w == Wanted(input)
    <3> HIDE DEF w
    <3>2. w[A_T] = 0 /\ w[A_A] = 0 /\ w[A_B] = 0
      BY <2>2, <3>1 DEF w
    <3>3. Pack("RR", o, w) = PackRR(o, w[A_T], w[A_A], w[A_B])
      BY DEF Pack
    <3> QED
      BY <3>2, <3>3 DEF w
  <2>5. 0 % 128 = 0 /\ 0 \div 128 = 0
    OBVIOUS
  <2> QED
    BY <2>2, <2>3, <2>4, <2>5
<1>2. CASE list = <<A_U14>>
  <2>1. /\ list \in Seq(Kind) /\ Len(list) = 1 /\ list[1] = A_U14
        /\ DOMAIN list = 1 .. 1
    <3>1. A_U14 \in Kind
      BY <1>0 DEF Kind
    <3>2. <<A_U14>> \in Seq(Kind)
      BY <3>1
    <3> QED
      BY <1>2, <3>2
  <2>2. 1 \in 1 .. 1 /\ \A i \in 1 .. 1 : i = 1
    OBVIOUS
  <2> HIDE DEF list
  <2>3. /\ Len(ops) = 1
        /\ ops[1] \in Operand /\ code = ValueOf(ops[1])
        /\ Fits(ops[1], "RR", A_U14)
        /\ OperandOf(input, A_B) = 0
    <3>1. /\ Len(list) \in 1 .. 2 /\ Len(list) # 2
          /\ \A i \in 1 .. Len(list) : list[i] # A_P /\ list[i] # A_B
      BY <1>0, <2>1, <2>2
    <3> QED
      BY <2>1, <2>2, <3>1, ShortWanted DEF list
  <2>4. IsNumber(ops[1]) /\ ops[1].value \in Codes
    BY <1>0, <2>3, FitsCode, FitsNumber
  <2>5. code \in Codes
    BY <2>3, <2>4, OperandValue, Zenon
  <2>6. Has(input, A_U14)
    BY <2>1 DEF Has, ToSet, list
  <2>7. Pictured(input) = PackRR(o, code % 128, code \div 128, 0)
    BY <2>6, Zenon DEF Pictured
  <2>8. Len(ops) \in 0 .. 1
    BY <2>3
  <2> QED
    BY <2>5, <2>7, <2>8, Zenon
<1> QED
  BY <1>1, <1>2, Zenon

(* stop, whose code is lost. *)
LEMMA StopForm ==
  ASSUME NEW input \in Inputs, input.mnemonic \notin {Mtspr, Syscall},
         input.mnemonic[1] = "RR",
         input.args \in {<<>>, <<A_U14>>},
         ArgLists[input.mnemonic[2]] = << <<>>, <<A_U14>> >>
  PROVE  Right(input)
<1> DEFINE o == input.mnemonic[2]
           ops == input.operands
           code == OperandOf(input, A_U14)
<1>1. /\ code \in Codes /\ Len(ops) \in 0 .. 1
      /\ Pictured(input) = PackRR(o, code % 128, code \div 128, 0)
  BY StopWanted, Zenon
<1>2. PICK c \in Seq(Token) :
        Assemble(Written(input), TRUE)
          = Pack("RR", o, ReadArguments(c, << <<>>, <<A_U14>> >>))
  <2>1. Len(ops) \in 0 .. 1 /\ input.mnemonic # Mtspr
    BY <1>1, Zenon
  <2>2. \A n \in 0 .. 1 : n <= 4
    OBVIOUS
  <2>3. Len(ops) <= 4
    BY <2>1, <2>2, Zenon
  <2> QED
    BY <2>1, <2>3, InputAssembled
<1> DEFINE got == ReadArguments(c, << <<>>, <<A_U14>> >>)
<1>3. got[A_T] = 0 /\ got[A_A] = 0 /\ got[A_B] = 0
  BY StopFilled
<1> HIDE DEF got, code
<1>4. Pack("RR", o, got) = PackRR(o, 0, 0, 0)
  BY <1>3 DEF Pack
<1>5. PackRR(o, 0, 0, 0) = PackRR(o, code % 128, code \div 128, 0) <=> code = 0
  <2>1. /\ Cut(0, 128) = 0 /\ Cut(code % 128, 128) = code % 128
        /\ Cut(code \div 128, 128) = code \div 128
    <3>1. ASSUME NEW x \in Int, 0 <= x, x <= 16383
          PROVE  x % 128 \in 0 .. 127 /\ x \div 128 \in 0 .. 127
      BY <3>1, SMT
    <3>2. code % 128 \in 0 .. 127 /\ code \div 128 \in 0 .. 127
      <4>1. code \in Int /\ 0 <= code /\ code <= 16383
        BY <1>1 DEF Codes
      <4> QED
        BY <3>1, <4>1
    <3>3. \A x \in 0 .. 127 : Cut(x, 128) = x
      BY SMT DEF Cut
    <3> DEFINE p == code % 128
               q == code \div 128
    <3> HIDE DEF p, q
    <3>4. 0 \in 0 .. 127 /\ p \in 0 .. 127 /\ q \in 0 .. 127
      BY <3>2 DEF p, q
    <3>5. Cut(0, 128) = 0 /\ Cut(p, 128) = p /\ Cut(q, 128) = q
      BY <3>3, <3>4, Zenon
    <3> QED
      BY <3>5 DEF p, q
  <2>2. 0 = code % 128 /\ 0 = code \div 128 <=> code = 0
    BY <1>1 DEF Codes
  <2>3. PackRR(o, 0, 0, 0) = PackRR(o, code % 128, code \div 128, 0)
          <=> /\ Cut(0, 128) = Cut(code % 128, 128)
              /\ Cut(0, 128) = Cut(code \div 128, 128)
    BY SameRR
  <2> QED
    BY <2>1, <2>2, <2>3
<1>6. Garbled(input) <=> code # 0
  <2>1. SecondList(o) = {A_U14}
    <3>1. Len(ArgLists[o]) > 1 /\ ArgLists[o][2] = <<A_U14>>
      OBVIOUS
    <3>2. ToSet(<<A_U14>>) = {A_U14}
      BY DEF ToSet
    <3> QED
      BY <3>1, <3>2 DEF SecondList
  <2>2. ~AliasTwice(ops)
    <3>1. ops \in Seq(Operand)
      BY InputsAssumption
    <3>2. \A i, j \in DOMAIN ops : ~(i < j)
      BY <1>1, <3>1
    <3> QED
      BY <3>2, Zenon DEF AliasTwice
  <2>3. input.mnemonic[1] \in PlainFormats
    BY DEF PlainFormats
  <2> QED
    BY <2>1, <2>2, <2>3, GarbledPlain DEF code
<1> QED
  BY <1>1, <1>2, <1>4, <1>5, <1>6, Zenon DEF Right, got, code

-----------------------------------------------------------------------------

(* What is left of three operands by a list of two arguments is read by    *)
(* every argument of the second list.                                      *)
LEMMA OneLeft ==
  ASSUME NEW c \in Seq(Token), Len(c) = 3, NEW rest, IsLeft(rest, c, 2),
         IsNumber(c[3]), NEW i \in Nat, i >= 1
  PROVE  ReadValue(rest, i) = IF Ended(c, 2) THEN 0 ELSE c[3].value
<1>1. CASE Ended(c, 2)
  <2>1. rest = <<>>
    BY <1>1 DEF IsLeft
  <2> QED
    BY <1>1, <2>1, NoneLeft
<1>2. CASE ~Ended(c, 2)
  <2>1. Len(rest) = 1 /\ rest[1] = c[3]
    <3>1. Len(rest) = 3 - 2 /\ \A j \in 1 .. 3 - 2 : rest[j] = c[j + 2]
      BY <1>2 DEF IsLeft
    <3>2. Len(rest) = 1 /\ 1 \in 1 .. 3 - 2
      BY <3>1
    <3>3. rest[1] = c[1 + 2]
      BY <3>1, <3>2
    <3> QED
      BY <3>2, <3>3
  <2>2. ~Ended(rest, i)
    <3>1. \A j \in 1 .. 1 : j = 1
      OBVIOUS
    <3> QED
      BY <2>1, <3>1 DEF Ended
  <2>3. (IF i <= Len(rest) THEN i ELSE Len(rest)) = 1
    BY <2>1
  <2>4. i # 0 /\ Len(rest) # 0
    BY <2>1
  <2>5. ReadValue(rest, i) = rest[1].value
    BY <2>2, <2>3, <2>4, Zenon DEF ReadValue
  <2> QED
    BY <1>2, <2>1, <2>5
<1> QED
  BY <1>1, <1>2

Leading == <<A_A, A_T>>
Trailing == <<A_T, A_A, A_S7>>

(* Both lists of syscall are plain.                                        *)
LEMMA TrailingPlain == Plain(Trailing, "RI7") /\ Plain(Leading, "RI7")
<1>1. A_T = 0 /\ A_A = 1 /\ A_S7 = 7
  BY DEF A_T, A_A, A_S7
<1>2. Slots("RI7") = {0, 1, 7}
  BY <1>1 DEF Slots
<1>3. 0 \in Kind /\ 1 \in Kind /\ 7 \in Kind
  BY DEF Kind
<1>4. /\ Trailing \in Seq(Kind) /\ Len(Trailing) = 3
      /\ Trailing[1] = 0 /\ Trailing[2] = 1 /\ Trailing[3] = 7
  BY <1>1, <1>3 DEF Trailing
<1>5. /\ Leading \in Seq(Kind) /\ Len(Leading) = 2
      /\ Leading[1] = 1 /\ Leading[2] = 0
  BY <1>1, <1>3 DEF Leading
<1>6. /\ \A i \in 1 .. 3 : i \in {1, 2, 3}
      /\ \A i \in 1 .. 2 : i \in {1, 2}
  OBVIOUS
<1>7. Plain(Trailing, "RI7")
  <2>1. \A i \in 1 .. 3 : Trailing[i] \in {0, 1, 7}
    BY <1>4, <1>6
  <2>2. \A i, j \in 1 .. 3 : Trailing[i] = Trailing[j] => i = j
    BY <1>4, <1>6
  <2> QED
    BY <1>2, <1>4, <2>1, <2>2 DEF Plain
<1>8. Plain(Leading, "RI7")
  <2>1. \A i \in 1 .. 2 : Leading[i] \in {0, 1, 7}
    BY <1>5, <1>6
  <2>2. \A i, j \in 1 .. 2 : Leading[i] = Leading[j] => i = j
    BY <1>5, <1>6
  <2> QED
    BY <1>2, <1>5, <2>1, <2>2 DEF Plain
<1> QED
  BY <1>7, <1>8

(* The second list of syscall gives its three slots what is left of the    *)
(* operands.                                                               *)
LEMMA SyscallFilled ==
  ASSUME NEW c \in Seq(Token), Len(c) = 3, IsNumber(c[3])
  PROVE  LET got == ReadArguments(c, <<Leading, Trailing>>)
             left == IF Ended(c, 2) THEN 0 ELSE c[3].value
         IN got[A_T] = left /\ got[A_A] = left /\ got[A_S7] = left
<1> DEFINE got == ReadArguments(c, <<Leading, Trailing>>)
           left == IF Ended(c, 2) THEN 0 ELSE c[3].value
<1>1. /\ Leading \in Seq(Kind) /\ Len(Leading) \in 0 .. 4 /\ Apart(Leading)
      /\ Trailing \in Seq(Kind) /\ Len(Trailing) \in 0 .. 4 /\ Apart(Trailing)
  BY TrailingPlain, PlainApart
<1>2. PICK mid \in [Kind -> Int], rest \in Seq(Token) :
        /\ IsLeft(rest, c, Len(Leading))
        /\ Filled(mid, Zeros, Leading, c)
        /\ Filled(got, mid, Trailing, rest)
        /\ got \in [Kind -> Int]
  BY <1>1, TwoListsFill, Zenon
<1> HIDE DEF got
<1>3. \A i \in 1 .. Len(Trailing) : got[Trailing[i]] = ReadValue(rest, i)
  BY <1>2, TrailingPlain, PlainFilled
<1>4. Len(Leading) = 2
  BY DEF Leading
<1>5. /\ ReadValue(rest, 1) = left /\ ReadValue(rest, 2) = left
      /\ ReadValue(rest, 3) = left
  <2>1. IsLeft(rest, c, 2)
    BY <1>2, <1>4
  <2>2. ASSUME NEW i \in Nat, i >= 1 PROVE ReadValue(rest, i) = left
    BY <2>1, <2>2, OneLeft, Zenon
  <2>3. 1 \in Nat /\ 1 >= 1 /\ 2 \in Nat /\ 2 >= 1 /\ 3 \in Nat /\ 3 >= 1
    OBVIOUS
  <2> QED
    BY <2>2, <2>3, Zenon
<1> HIDE DEF left
<1>6. /\ 1 \in 1 .. Len(Trailing) /\ 2 \in 1 .. Len(Trailing)
      /\ 3 \in 1 .. Len(Trailing)
      /\ Trailing[1] = A_T /\ Trailing[2] = A_A /\ Trailing[3] = A_S7
  BY DEF Trailing
<1> QED
  BY <1>3, <1>5, <1>6 DEF got, left

-----------------------------------------------------------------------------

(* syscall is an RI7 row and not the one of mtspr.                         *)
LEMMA SyscallType == Syscall[1] = "RI7" /\ Syscall # Mtspr
<1>1. Syscall[1] = "RI7" /\ Mtspr[1] = "RR"
  BY Zenon DEF Syscall, Mtspr
<1> QED
  BY <1>1

(* Which of three operands, the third one a number, end the reading.       *)
LEMMA SameAlias ==
  ASSUME NEW ops \in Seq(Operand), Len(ops) = 3, IsNumber(ops[3]),
         NEW c, IsResolved(c, ops)
  PROVE  LET same == ops[1].name = ops[2].name /\ ~IsNumber(ops[1])
         IN /\ c[3] = ops[3]
            /\ Ended(c, 2) <=> same
            /\ AliasTwice(ops)
                 <=> same /\ (ops[1].name = "SP" \/ ValueOf(ops[3]) # 0)
<1> DEFINE same == ops[1].name = ops[2].name /\ ~IsNumber(ops[1])
<1>1. /\ c \in Seq(Token) /\ Len(c) = 3
      /\ \A i \in 1 .. 3 : c[i] = IF IsFirst(ops, "LR", i) THEN Num(0)
                                  ELSE IF IsFirst(ops, "SP", i) THEN Num(1)
                                  ELSE ops[i]
  BY Zenon DEF IsResolved
<1>2. ops \in Seq(Token)
  <2>1. \A t \in Operand : t \in Token
    BY OperandFacts
  <2> QED
    BY <2>1, SeqMonotonic
<1>3. \A i \in 1 .. 3 : ops[i].name \in {"", "LR", "SP"}
  <2>1. \A i \in 1 .. 3 : ops[i] \in Operand
    OBVIOUS
  <2> QED
    BY <2>1, OperandFacts
<1>4. 1 \in 1 .. 3 /\ 2 \in 1 .. 3 /\ 3 \in 1 .. 3
  OBVIOUS
<1>5. ops[3].name = ""
  BY DEF IsNumber
<1>6. c[3] = ops[3]
  <2>1. ~IsFirst(ops, "LR", 3) /\ ~IsFirst(ops, "SP", 3)
    BY <1>5 DEF IsFirst
  <2> QED
    BY <1>1, <1>4, <2>1, Zenon
<1>7. IsNumber(c[1])
  <2>1. ~ \E j \in 1 .. 1 - 1 : ops[j].name = ops[1].name
    OBVIOUS
  <2>2. ops[1].name # "SR"
    BY <1>3, <1>4
  <2> QED
    BY <1>2, <1>4, <2>1, <2>2, StillName
<1>8. ~IsNumber(c[2]) <=> same
  <2>1. (\E j \in 1 .. 2 - 1 : ops[j].name = ops[2].name)
          <=> ops[1].name = ops[2].name
    OBVIOUS
  <2>2. ~IsNumber(c[2]) <=>
          \/ ops[2].name = "SR"
          \/ /\ ops[2].name \in {"LR", "SP"}
             /\ \E j \in 1 .. 2 - 1 : ops[j].name = ops[2].name
    BY <1>2, <1>4, StillName
  <2>3. ops[2].name # "SR" /\ (ops[2].name \in {"LR", "SP"} <=> ops[2].name # "")
    BY <1>3, <1>4
  <2>4. IsNumber(ops[1]) <=> ops[1].name = ""
    BY DEF IsNumber
  <2> QED
    BY <2>1, <2>2, <2>3, <2>4
<1>9. Ended(c, 2) <=> same
  <2>1. Ended(c, 2) <=> ~IsNumber(c[1]) \/ ~IsNumber(c[2])
    <3>1. \A j \in 1 .. 3 : j <= 2 <=> j = 1 \/ j = 2
      OBVIOUS
    <3> QED
      BY <1>1, <1>4, <3>1 DEF Ended
  <2> QED
    BY <1>7, <1>8, <2>1
<1>10. AliasTwice(ops)
         <=> /\ ops[1].name = ops[2].name
             /\ \/ ops[2].name = "SP"
                \/ ops[2].name = "LR" /\ ValueOf(ops[3]) # 0
  <2>1. /\ DOMAIN ops = 1 .. 3 /\ Len(ops) = 3
        /\ \A k \in 2 + 1 .. 3 : k = 3
        /\ 3 \in 2 + 1 .. 3 /\ 1 < 2
    OBVIOUS
  <2>2. ASSUME NEW i \in 1 .. 3, NEW j \in 1 .. 3, i < j,
               ops[j].name \in {"SP", "LR"}
        PROVE  i = 1 /\ j = 2
    <3>1. ops[3].name \notin {"SP", "LR"}
      BY <1>5
    <3>2. j # 3
      BY <2>2, <3>1
    <3> QED
      BY <2>2, <3>2
  <2> QED
    BY <1>4, <2>1, <2>2 DEF AliasTwice
<1>11. /\ IsNumber(ops[1]) <=> ops[1].name = ""
       /\ ops[1].name \in {"", "LR", "SP"}
  BY <1>3, <1>4 DEF IsNumber
<1>12. AliasTwice(ops)
         <=> same /\ (ops[1].name = "SP" \/ ValueOf(ops[3]) # 0)
  <2> DEFINE a == ops[1].name
             b == ops[2].name
  <2>1. AliasTwice(ops) <=> a = b /\ (b = "SP" \/ (b = "LR" /\ ValueOf(ops[3]) # 0))
    BY <1>10, Zenon
  <2>2. same <=> a = b /\ a # ""
    BY <1>11
  <2>3. a = "" \/ a = "LR" \/ a = "SP"
    BY <1>11
  <2>4. "" # "SP" /\ "" # "LR" /\ "LR" # "SP"
    OBVIOUS
  <2> HIDE DEF a, b, same
  <2>5. AliasTwice(ops) <=> same /\ (a = "SP" \/ ValueOf(ops[3]) # 0)
    BY <2>1, <2>2, <2>3, <2>4, Zenon
  <2> QED
    BY <2>5 DEF a
<1> QED
  BY <1>6, <1>9, <1>12

(* syscall is assembled right only when its three operands are the same.   *)
LEMMA SyscallForm ==
  ASSUME NEW input \in Inputs, input.mnemonic = Syscall
  PROVE  Right(input)
<1> DEFINE o == input.mnemonic[2]
           ops == input.operands
           W(i) == ValueOf(ops[i])
<1>1. input.mnemonic[1] = "RI7" /\ input.mnemonic # Mtspr
  BY SyscallType
<1>2. input.args = Trailing /\ ArgLists[o] = <<Leading, Trailing>>
  <2>1. input.args \in ArgsOf(Syscall)
    BY InputsAssumption
  <2> QED
    BY <2>1, FormsAssumption DEF Trailing, Leading
<1>3. /\ Len(Trailing) = 3 /\ Trailing[1] = A_T
      /\ Trailing[2] = A_A /\ Trailing[3] = A_S7
      /\ 1 \in 1 .. 3 /\ 2 \in 1 .. 3 /\ 3 \in 1 .. 3
  BY DEF Trailing
<1>4. Plain(Trailing, "RI7") /\ "RI7" \in PlainFormats
  BY TrailingPlain DEF PlainFormats
<1>5. /\ Len(ops) = 3
      /\ \A i \in 1 .. 3 :
           /\ Wanted(input)[Trailing[i]] = W(i)
           /\ Within(W(i), FieldValues("RI7", Trailing[i]))
      /\ Pictured(input) = Pack("RI7", o, Wanted(input))
  BY <1>1, <1>2, <1>3, <1>4, PlainWanted
<1>6. /\ ops \in Seq(Operand)
      /\ \A i \in 1 .. 3 : Fits(ops[i], "RI7", Trailing[i])
  <2>1. \A j \in 1 .. 3 : Trailing[j] \in Slots("RI7")
    BY <1>3, <1>4 DEF Plain
  <2>2. \A j \in 1 .. 3 : Trailing[j] # A_P
    BY <2>1, <1>4, PlainKinds
  <2>3. \A i \in 1 .. 3 : Place(Trailing, i) = i
    <3>1. ASSUME NEW i \in 1 .. 3 PROVE ~ \E j \in 1 .. i : Trailing[j] = A_P
      <4>1. \A j \in 1 .. i : j \in 1 .. 3
        OBVIOUS
      <4> QED
        BY <2>2, <4>1
    <3> QED
      BY <3>1 DEF Place
  <2>4. DOMAIN Trailing = 1 .. 3
    BY DEF Trailing
  <2>5. /\ ops \in Seq(Operand)
        /\ \A i \in DOMAIN input.args : input.args[i] # A_P =>
             Fits(ops[Place(input.args, i)], input.mnemonic[1], input.args[i])
    BY InputsAssumption
  <2>6. \A i \in DOMAIN Trailing : Trailing[i] # A_P =>
          Fits(ops[Place(Trailing, i)], "RI7", Trailing[i])
    BY <1>1, <1>2, <2>5
  <2>7. ASSUME NEW i \in 1 .. 3 PROVE Fits(ops[i], "RI7", Trailing[i])
    <3>1. Fits(ops[Place(Trailing, i)], "RI7", Trailing[i])
      BY <2>2, <2>4, <2>6
    <3> QED
      BY <2>3, <3>1
  <2> QED
    BY <2>5, <2>7
<1>7. PICK c \in Seq(Token) :
        /\ Len(c) = Len(ops)
        /\ IsResolved(c, ops)
        /\ Assemble(Written(input), TRUE)
             = Pack("RI7", o, ReadArguments(c, <<Leading, Trailing>>))
  <2>1. Len(ops) <= 4 /\ input.mnemonic # Mtspr
    BY <1>1, <1>5
  <2> QED
    BY <1>1, <1>2, <2>1, InputAssembled
<1> DEFINE got == ReadArguments(c, <<Leading, Trailing>>)
           same == ops[1].name = ops[2].name /\ ~IsNumber(ops[1])
           left == IF same THEN 0 ELSE W(3)
<1>8. IsNumber(ops[3])
  <2>1. Fits(ops[3], "RI7", A_S7) /\ A_S7 \notin {A_T, A_A, A_B, A_C}
    BY <1>3, <1>6 DEF A_T, A_A, A_B, A_C, A_S7
  <2> QED
    BY <2>1, FitsNumber
<1>9. /\ c[3] = ops[3]
      /\ Ended(c, 2) <=> same
      /\ AliasTwice(ops) <=> same /\ (ops[1].name = "SP" \/ W(3) # 0)
  BY <1>5, <1>6, <1>7, <1>8, SameAlias
<1>10. ops[1] \in Operand /\ ops[2] \in Operand /\ ops[3] \in Operand
  BY <1>3, <1>5, <1>6
<1>11. got[A_T] = left /\ got[A_A] = left /\ got[A_S7] = left
  <2>1. ops[3].value = W(3)
    BY <1>8, <1>10, OperandValue
  <2>2. LET x == IF Ended(c, 2) THEN 0 ELSE c[3].value
        IN got[A_T] = x /\ got[A_A] = x /\ got[A_S7] = x
    BY <1>5, <1>7, <1>8, <1>9, SyscallFilled
  <2> HIDE DEF got, same, W
  <2> QED
    BY <1>9, <2>1, <2>2
<1>12. /\ W(1) \in 0 .. 127 /\ Cut(W(1), 128) = W(1)
       /\ W(2) \in 0 .. 127 /\ Cut(W(2), 128) = W(2)
  <2>1. Fits(ops[1], "RI7", A_T) /\ Fits(ops[2], "RI7", A_A)
    BY <1>3, <1>6
  <2> QED
    BY <1>10, <2>1, RegisterValue
<1>13. Cut(0, 128) = Cut(W(3), 128) <=> W(3) = 0
  <2>1. FieldValues("RI7", A_S7) = 128
    BY DEF FieldValues, A_S7, A_S10, A_S16, A_U18
  <2>2. Within(W(3), 128)
    BY <1>3, <1>5, <2>1
  <2>3. Near(0, W(3), 128)
    BY <2>2 DEF Within, Near
  <2> QED
    BY <2>3, NearCut
<1>14. same => /\ W(1) = W(2)
               /\ \/ W(1) = 0 /\ ops[1].name # "SP"
                  \/ W(1) = 1 /\ ops[1].name = "SP"
  <2>1. /\ ops[1].name \in {"", "LR", "SP"}
        /\ ops[1].name = "LR" => ops[1].value = 0
        /\ ops[2].name = "LR" => ops[2].value = 0
    BY <1>10, OperandFacts
  <2>2. /\ ops[1].name = "SP" => W(1) = 1
        /\ ops[1].name # "SP" => W(1) = ops[1].value
        /\ ops[2].name = "SP" => W(2) = 1
        /\ ops[2].name # "SP" => W(2) = ops[2].value
    BY DEF ValueOf
  <2>3. same => ops[1].name = ops[2].name /\ ops[1].name # ""
    BY DEF IsNumber
  <2>4. "SP" # "LR"
    OBVIOUS
  <2> HIDE DEF same, W
  <2>5. CASE ops[1].name = "SP"
    BY <2>2, <2>3, <2>5
  <2>6. CASE ops[1].name = "LR"
    <3>1. ops[1].name # "SP"
      BY <2>6
    <3>2. W(1) = 0
      BY <2>1, <2>2, <2>6, <3>1, Zenon
    <3>3. same => ops[2].name = "LR" /\ ops[2].name # "SP"
      BY <2>3, <2>6, <3>1, Zenon
    <3>4. same => W(2) = 0
      BY <2>1, <2>2, <3>3, Zenon
    <3> QED
      BY <3>1, <3>2, <3>4, Zenon
  <2>7. CASE ops[1].name = ""
    BY <2>3, <2>7
  <2> QED
    BY <2>1, <2>5, <2>6, <2>7
<1>15. /\ OperandOf(input, A_T) = W(1) /\ OperandOf(input, A_A) = W(2)
       /\ OperandOf(input, A_S7) = W(3)
  <2>1. A_T \in Kind /\ A_A \in Kind /\ A_S7 \in Kind
    BY DEF Kind, A_T, A_A, A_S7
  <2>2. /\ Wanted(input)[A_T] = W(1) /\ Wanted(input)[A_A] = W(2)
        /\ Wanted(input)[A_S7] = W(3)
    BY <1>3, <1>5
  <2> QED
    BY <2>1, <2>2 DEF Wanted
<1>16. Garbled(input) <=> \/ ~(W(1) = W(2) /\ W(2) = Cut(W(3), 128))
                          \/ AliasTwice(ops)
  <2>1. /\ input.mnemonic[1] # "RRR" /\ input.mnemonic[1] # "LBTI"
        /\ input.mnemonic[1] \notin {"LBT", "LBTI"}
    BY <1>1
  <2>2. Garbled(input)
          <=> \/ ~(/\ OperandOf(input, A_T) = OperandOf(input, A_A)
                   /\ OperandOf(input, A_A) = Cut(OperandOf(input, A_S7), 128))
              \/ AliasTwice(ops)
    BY <1>1, <2>1, Zenon DEF Garbled
  <2> HIDE DEF W
  <2> QED
    BY <1>15, <2>2
<1> HIDE DEF got, same, W
<1>17. Pack("RI7", o, got) = PackRI7(o, left, left, left)
  BY <1>11 DEF Pack
<1>18. Pictured(input) = PackRI7(o, W(1), W(2), W(3))
  BY <1>1, <1>15, Zenon DEF Pictured
<1>19. Pack("RI7", o, got) = Pictured(input)
         <=> /\ Cut(left, 128) = W(1) /\ Cut(left, 128) = W(2)
             /\ Cut(left, 128) = Cut(W(3), 128)
  BY <1>12, <1>17, <1>18, SameRI7
<1>20. Pack("RI7", o, got) = Pictured(input) <=> ~Garbled(input)
  <2>1. CASE same
    <3>1. left = 0 /\ Cut(0, 128) = 0
      BY <2>1 DEF Cut
    <3> HIDE DEF left
    <3> QED
      BY <1>9, <1>13, <1>14, <1>16, <1>19, <2>1, <3>1
  <2>2. CASE ~same
    <3>1. left = W(3)
      BY <2>2
    <3> HIDE DEF left
    <3> QED
      BY <1>9, <1>16, <1>19, <2>2, <3>1
  <2> QED
    BY <2>1, <2>2
<1> QED
  BY <1>1, <1>7, <1>20 DEF Right, got

-----------------------------------------------------------------------------

(* mtspr is an RR row that shares the opcode of syscall.                   *)
LEMMA MtsprFields ==
  Mtspr # Lr /\ Mtspr[1] = "RR" /\ Mtspr[2] = Syscall[2] /\ Mtspr[2] # 0
<1>1. Mtspr[1] = "RR" /\ Lr[1] = "lr"
  BY Zenon DEF Mtspr, Lr
<1>2. "RR" # "lr"
  OBVIOUS
<1>3. Mtspr[2] = Syscall[2]
  BY Zenon DEF Mtspr, Syscall
<1>4. Mtspr[2] # 0
  BY SMT DEF Mtspr
<1> QED
  BY <1>1, <1>2, <1>3, <1>4, Zenon

(* No opcode has the mnemonic mtspr: the row of syscall has replaced it.   *)
LEMMA MtsprLost == FoundAs[Mtspr] = {}
<1>1. Mtspr \in Mnemonic /\ Syscall \in Mnemonic \ {Mtspr}
  BY FormsAssumption, SyscallType
<1>2. ASSUME NEW o \in Opcode, Mnemonics[Decoded[o]] = Mtspr PROVE FALSE
  <2> DEFINE p == Decoded[o]
  <2>1. p \in Opcode
    BY DecodedFrom
  <2> HIDE DEF p
  <2>2. RowsOf[p] # <<>>
    <3> SUFFICES ASSUME RowsOf[p] = <<>> PROVE FALSE
      OBVIOUS
    <3>1. Mnemonics[p] = NoMnemonic
      BY <2>1 DEF Mnemonics
    <3> QED
      BY <1>1, <1>2, <3>1, MarksAssumption DEF p
  <2>3. <<Types[p], p>> = Mtspr
    BY <1>2, <2>1, <2>2, MnemonicIs DEF p
  <2>4. p = Mtspr[2]
    BY <2>3
  <2>5. p = Syscall[2]
    BY <2>4, MtsprFields
  <2>6. Mnemonics[p] = Syscall
    BY <1>1, <2>5, FormsAssumption
  <2> QED
    BY <1>2, <2>6, SyscallType DEF p
<1>3. {o \in Opcode : Mnemonics[Decoded[o]] = Mtspr} = {}
  BY <1>2
<1>4. FoundAs[Mtspr]
        = LET same == {o \in Opcode : Mnemonics[Decoded[o]] = Mtspr}
          IN {o \in same : \A p \in same : o <= p}
  BY <1>1, Zenon DEF FoundAs
<1> QED
  BY <1>3, <1>4

(* mtspr is not found. *)
LEMMA MtsprForm ==
  ASSUME NEW input \in Inputs, input.mnemonic = Mtspr
  PROVE  Right(input)
<1> DEFINE ops == input.operands
           line == Line(Mtspr, ops)
           clean == spu_preprocess_resolve_aliases(line)
<1>1. ops \in Seq(Operand) /\ Len(ops) <= 4
  <2>1. input.args = <<A_S, A_T>>
    BY InputsAssumption, FormsAssumption
  <2>2. Len(input.args) = 2
    BY <2>1
  <2>3. ops \in Seq(Operand) /\ Len(ops) = Place(input.args, 2)
    BY <2>2, InputsAssumption
  <2>4. Place(input.args, 2) \in {1, 2}
    BY DEF Place
  <2> QED
    BY <2>3, <2>4
<1>2. ops \in Seq(Token)
  <2>1. \A t \in Operand : t \in Token
    BY OperandFacts
  <2> QED
    BY <1>1, <2>1, SeqMonotonic
<1>3. clean.mnemonic = Mtspr
  BY <1>1, <1>2, MtsprFields, Resolved
<1>4. Written(input) = line
  <2>1. [i \in 1 .. Len(ops) |-> ops[i]] = ops
    BY <1>1
  <2> QED
    BY <2>1 DEF Written
<1> HIDE DEF clean
<1>5. Assemble(line, TRUE) = NotAssembled
  BY <1>3, MtsprLost, Zenon DEF Assemble, clean
<1>6. NotAssembled.op = 0
  BY DEF NotAssembled, WordOf
<1>7. Pictured(input).op = Mtspr[2]
  <2>1. \A p, q, r : PackRR(Mtspr[2], p, q, r).op = Mtspr[2]
    BY DEF PackRR, WordOf
  <2>2. \E p, q, r : Pictured(input) = PackRR(Mtspr[2], p, q, r)
    <3>1. input.mnemonic[1] = "RR" /\ input.mnemonic[2] = Mtspr[2]
      BY MtsprFields
    <3> QED
      BY <3>1, Zenon DEF Pictured
  <2> QED
    BY <2>1, <2>2
<1>8. Garbled(input)
  BY Zenon DEF Garbled
<1> QED
  BY <1>4, <1>5, <1>6, <1>7, <1>8, MtsprFields DEF Right

(* A list of one slot of the format is plain.                              *)
LEMMA OnePlain ==
  ASSUME NEW type, NEW a \in Slots(type)
  PROVE  Plain(<<a>>, type) /\ Len(<<a>>) = 1
<1>1. a \in Kind
  BY PlainKinds
<1>2. <<a>> \in Seq(Kind) /\ Len(<<a>>) = 1
  BY <1>1
<1> QED
  BY <1>2 DEF Plain

(* So is one of two different slots.                                       *)
LEMMA TwoPlain ==
  ASSUME NEW type, NEW a \in Slots(type), NEW b \in Slots(type), a # b
  PROVE  Plain(<<a, b>>, type) /\ Len(<<a, b>>) = 2
<1> DEFINE list == <<a, b>>
<1>1. a \in Kind /\ b \in Kind
  BY PlainKinds
<1>2. list \in Seq(Kind) /\ Len(list) = 2 /\ list[1] = a /\ list[2] = b
  BY <1>1
<1>3. \A i \in 1 .. 2 : i = 1 \/ i = 2
  OBVIOUS
<1> HIDE DEF list
<1>4. Plain(list, type)
  BY <1>2, <1>3 DEF Plain
<1> QED
  BY <1>2, <1>4 DEF list

(* So is one of three different slots.                                     *)
LEMMA ThreePlain ==
  ASSUME NEW type, NEW a \in Slots(type), NEW b \in Slots(type),
         NEW d \in Slots(type), a # b, a # d, b # d
  PROVE  Plain(<<a, b, d>>, type) /\ Len(<<a, b, d>>) = 3
<1> DEFINE list == <<a, b, d>>
<1>1. a \in Kind /\ b \in Kind /\ d \in Kind
  BY PlainKinds
<1>2. /\ list \in Seq(Kind) /\ Len(list) = 3
      /\ list[1] = a /\ list[2] = b /\ list[3] = d
  BY <1>1
<1>3. \A i \in 1 .. 3 : i = 1 \/ i = 2 \/ i = 3
  OBVIOUS
<1> HIDE DEF list
<1>4. Plain(list, type)
  BY <1>2, <1>3 DEF Plain
<1> QED
  BY <1>2, <1>4 DEF list

(* So is the empty one.                                                    *)
LEMMA NonePlain ==
  ASSUME NEW type
  PROVE  Plain(<<>>, type)
<1>1. <<>> \in Seq(Kind) /\ Len(<<>>) = 0
  OBVIOUS
<1> QED
  BY <1>1 DEF Plain

(* The slots of the plain formats.                                         *)
LEMMA FieldSlots ==
  /\ Slots("RR") = {A_T, A_A, A_B}
  /\ Slots("RI7") = {A_T, A_A, A_S7} /\ Slots("RI8") = {A_T, A_A, A_S7}
  /\ Slots("RI10") = {A_T, A_A, A_S10}
  /\ Slots("RI16") = {A_T, A_S16} /\ Slots("RI18") = {A_T, A_U18}
  BY DEF Slots

(* The two lists of a pair.                                                *)
LEMMA SetOfLists ==
  ASSUME NEW a, NEW b
  PROVE  ToSet(<<a, b>>) = {a, b}
<1>1. \A i : i \in DOMAIN <<a, b>> <=> i = 1 \/ i = 2
  OBVIOUS
<1> QED
  BY <1>1 DEF ToSet

(* The one list of a single one.                                           *)
LEMMA OnlyList ==
  ASSUME NEW a, NEW b \in ToSet(<<a>>)
  PROVE  b = a
  BY DEF ToSet

-----------------------------------------------------------------------------

(* The lists of an input are among those of its format, and its arguments  *)
(* are one of them.                                                        *)
LEMMA InputLists ==
  ASSUME NEW input \in Inputs, input.mnemonic \notin {Mtspr, Syscall}
  PROVE  LET m == input.mnemonic
         IN /\ m[1] \in Format
            /\ ArgLists[m[2]] \in ListsOf(m[1])
            /\ input.args \in ToSet(ArgLists[m[2]])
<1> DEFINE m == input.mnemonic
<1>1. m \in Mnemonic /\ input.args \in ArgsOf(m)
  BY InputsAssumption
<1>2. ArgLists[m[2]] \in ListsOf(m[1]) /\ ArgsOf(m) = ToSet(ArgLists[m[2]])
  BY <1>1, FormsAssumption
<1>3. m[1] \in Format
  BY <1>1, TableAssumption
<1> QED
  BY <1>1, <1>2, <1>3

(* A row with one plain list assembles right.                              *)
LEMMA RightPlain ==
  ASSUME NEW input \in Inputs, input.mnemonic \notin {Mtspr, Syscall},
         input.mnemonic[1] \in PlainFormats,
         NEW list, Plain(list, input.mnemonic[1]),
         ArgLists[input.mnemonic[2]] = <<list>>
  PROVE  Right(input)
<1>1. input.args \in ToSet(<<list>>)
  BY InputLists
<1>2. input.args = list
  BY <1>1, OnlyList, Zenon
<1> QED
  BY <1>2, PlainForm

(* Every list of an RR row assembles to the pictured word, except where    *)
(* Garbled says.                                                           *)
LEMMA RightRR ==
  ASSUME NEW input \in Inputs, input.mnemonic \notin {Mtspr, Syscall},
         input.mnemonic[1] = "RR"
  PROVE  Right(input)
<1> DEFINE lists == ArgLists[input.mnemonic[2]]
<1>1. lists \in ListsOf("RR") /\ input.args \in ToSet(lists)
  BY InputLists
<1>2. "RR" \in PlainFormats
  BY DEF PlainFormats
<1>3. /\ A_T \in Slots("RR") /\ A_A \in Slots("RR") /\ A_B \in Slots("RR")
      /\ A_T # A_A /\ A_T # A_B /\ A_A # A_B
  BY FieldSlots DEF A_T, A_A, A_B
<1>4. /\ Plain(<<>>, "RR")
      /\ Plain(<<A_T>>, "RR") /\ Len(<<A_T>>) = 1
      /\ Plain(<<A_A>>, "RR") /\ Len(<<A_A>>) = 1
      /\ Plain(<<A_T, A_A>>, "RR") /\ Len(<<A_T, A_A>>) = 2
      /\ Plain(<<A_A, A_T>>, "RR")
      /\ Plain(<<A_A, A_B>>, "RR") /\ Len(<<A_A, A_B>>) = 2
      /\ Plain(<<A_T, A_A, A_B>>, "RR") /\ Len(<<A_T, A_A, A_B>>) = 3
  BY <1>3, NonePlain, OnePlain, TwoPlain, ThreePlain
<1>5. CASE \/ lists = << <<>> >> \/ lists = << <<A_T>> >> \/ lists = << <<A_A>> >>
           \/ lists = << <<A_T, A_A>> >> \/ lists = << <<A_A, A_T>> >>
           \/ lists = << <<A_T, A_A, A_B>> >>
  BY <1>2, <1>4, <1>5, RightPlain, Zenon
<1>6. CASE lists = << <<>>, <<A_U14>> >>
  <2>1. input.args \in {<<>>, <<A_U14>>}
    BY <1>1, <1>6, SetOfLists, Zenon
  <2> QED
    BY <1>6, <2>1, StopForm, Zenon
<1>7. CASE lists = << <<A_T>>, <<>> >>
  <2>1. input.args \in {<<A_T>>, <<>>}
    BY <1>1, <1>7, SetOfLists, Zenon
  <2> QED
    BY <1>2, <1>4, <1>7, <2>1, EmptySecond, Zenon
<1>8. CASE lists = << <<A_A>>, <<>> >>
  <2>1. input.args \in {<<A_A>>, <<>>}
    BY <1>1, <1>8, SetOfLists, Zenon
  <2> QED
    BY <1>2, <1>4, <1>8, <2>1, EmptySecond, Zenon
<1>9. CASE lists = << <<A_T, A_A>>, <<A_A>> >>
  <2>1. input.args \in {<<A_T, A_A>>, <<A_A>>}
    BY <1>1, <1>9, SetOfLists, Zenon
  <2> DEFINE l1 == <<A_T, A_A>>
             l2 == <<A_A>>
  <2>2. /\ l1[1] = A_T /\ l2[1] = A_A /\ Len(l2) >= 1 /\ Len(l1) = Len(l2) + 1
        /\ \A i \in 1 .. Len(l2) : l2[i] = l1[i + 1]
    OBVIOUS
  <2>3. Plain(l1, "RR") /\ Plain(l2, "RR")
    BY <1>4
  <2>4. lists = <<l1, l2>> /\ input.args \in {l1, l2}
    BY <1>9, <2>1
  <2> HIDE DEF l1, l2
  <2> QED
    BY <1>2, <2>2, <2>3, <2>4, LostSecond
<1>10. CASE lists = << <<A_T, A_A, A_B>>, <<A_A, A_B>> >>
  <2>1. input.args \in {<<A_T, A_A, A_B>>, <<A_A, A_B>>}
    BY <1>1, <1>10, SetOfLists, Zenon
  <2> DEFINE l1 == <<A_T, A_A, A_B>>
             l2 == <<A_A, A_B>>
  <2>2. /\ l1[1] = A_T /\ l2[1] = A_A /\ Len(l2) >= 1 /\ Len(l1) = Len(l2) + 1
        /\ \A i \in 1 .. Len(l2) : l2[i] = l1[i + 1]
    OBVIOUS
  <2>3. Plain(l1, "RR") /\ Plain(l2, "RR")
    BY <1>4
  <2>4. lists = <<l1, l2>> /\ input.args \in {l1, l2}
    BY <1>10, <2>1
  <2> HIDE DEF l1, l2
  <2> QED
    BY <1>2, <2>2, <2>3, <2>4, LostSecond
<1> HIDE DEF lists
<1>11. ListsOf("RR")
         = {<< <<>> >>, << <<A_T>> >>, << <<A_A>> >>, << <<A_T, A_A>> >>,
            << <<A_A, A_T>> >>, << <<A_T, A_A, A_B>> >>,
            << <<>>, <<A_U14>> >>, << <<A_T>>, <<>> >>, << <<A_A>>, <<>> >>,
            << <<A_T, A_A>>, <<A_A>> >>, << <<A_T, A_A, A_B>>, <<A_A, A_B>> >>}
  BY Zenon DEF ListsOf
<1> QED
  BY <1>1, <1>5, <1>6, <1>7, <1>8, <1>9, <1>10, <1>11, Zenon

(* The same of RI7 rows.                                                   *)
LEMMA RightRI7 ==
  ASSUME NEW input \in Inputs, input.mnemonic \notin {Mtspr, Syscall},
         input.mnemonic[1] = "RI7"
  PROVE  Right(input)
<1> DEFINE lists == ArgLists[input.mnemonic[2]]
<1>1. lists \in ListsOf("RI7") /\ input.args \in ToSet(lists)
  BY InputLists
<1>2. "RI7" \in PlainFormats
  BY DEF PlainFormats
<1>3. CASE lists = <<Trailing>>
  BY <1>2, <1>3, TrailingPlain, RightPlain
<1>4. CASE lists = <<Displaced(A_S7)>>
  <2>1. input.args = Displaced(A_S7)
    BY <1>1, <1>4, OnlyList, Zenon
  <2> QED
    BY <1>4, <2>1, DisplacedForm
<1>5. ListsOf("RI7") = {<<Trailing>>, <<Displaced(A_S7)>>}
  BY Zenon DEF ListsOf, Trailing, Displaced
<1> HIDE DEF lists
<1> QED
  BY <1>1, <1>3, <1>4, <1>5, Zenon

(* The same of RI8 rows.                                                   *)
LEMMA RightRI8 ==
  ASSUME NEW input \in Inputs, input.mnemonic \notin {Mtspr, Syscall},
         input.mnemonic[1] = "RI8"
  PROVE  Right(input)
<1> DEFINE lists == ArgLists[input.mnemonic[2]]
<1>1. lists \in ListsOf("RI8")
  BY InputLists
<1>2. "RI8" \in PlainFormats
  BY DEF PlainFormats
<1>3. Plain(<<A_T, A_A, A_S7>>, "RI8")
  <2>1. /\ A_T \in Slots("RI8") /\ A_A \in Slots("RI8") /\ A_S7 \in Slots("RI8")
        /\ A_T # A_A /\ A_T # A_S7 /\ A_A # A_S7
    BY FieldSlots DEF A_T, A_A, A_S7
  <2> QED
    BY <2>1, ThreePlain
<1>4. ListsOf("RI8") = {<< <<A_T, A_A, A_S7>> >>}
  BY Zenon DEF ListsOf
<1>5. lists = << <<A_T, A_A, A_S7>> >>
  BY <1>1, <1>4, Zenon
<1> QED
  BY <1>2, <1>3, <1>5, RightPlain, Zenon

(* The same of RI10 rows.                                                  *)
LEMMA RightRI10 ==
  ASSUME NEW input \in Inputs, input.mnemonic \notin {Mtspr, Syscall},
         input.mnemonic[1] = "RI10"
  PROVE  Right(input)
<1> DEFINE lists == ArgLists[input.mnemonic[2]]
           l1 == <<A_T, A_A, A_S10>>
           l2 == <<A_A, A_S10>>
<1>1. lists \in ListsOf("RI10") /\ input.args \in ToSet(lists)
  BY InputLists
<1>2. "RI10" \in PlainFormats
  BY DEF PlainFormats
<1>3. Plain(l1, "RI10") /\ Plain(l2, "RI10")
  <2>1. /\ A_T \in Slots("RI10") /\ A_A \in Slots("RI10")
        /\ A_S10 \in Slots("RI10")
        /\ A_T # A_A /\ A_T # A_S10 /\ A_A # A_S10
    BY FieldSlots DEF A_T, A_A, A_S10
  <2> QED
    BY <2>1, TwoPlain, ThreePlain
<1>4. CASE lists = <<l1>>
  BY <1>2, <1>3, <1>4, RightPlain
<1>5. CASE lists = <<Displaced(A_S14)>>
  <2>1. input.args = Displaced(A_S14)
    BY <1>1, <1>5, OnlyList, Zenon
  <2> QED
    BY <1>5, <2>1, DisplacedForm
<1>6. CASE lists = <<l1, l2>>
  <2>1. input.args \in {l1, l2}
    BY <1>1, <1>6, SetOfLists, Zenon
  <2>2. /\ l1[1] = A_T /\ l2[1] = A_A /\ Len(l2) >= 1 /\ Len(l1) = Len(l2) + 1
        /\ \A i \in 1 .. Len(l2) : l2[i] = l1[i + 1]
    OBVIOUS
  <2> HIDE DEF l1, l2
  <2> QED
    BY <1>2, <1>3, <1>6, <2>1, <2>2, LostSecond
<1>7. ListsOf("RI10") = {<<l1>>, <<Displaced(A_S14)>>, <<l1, l2>>}
  BY Zenon DEF ListsOf, Displaced
<1> HIDE DEF lists, l1, l2
<1> QED
  BY <1>1, <1>4, <1>5, <1>6, <1>7, Zenon

(* The same of RI16 rows.                                                  *)
LEMMA RightRI16 ==
  ASSUME NEW input \in Inputs, input.mnemonic \notin {Mtspr, Syscall},
         input.mnemonic[1] = "RI16"
  PROVE  Right(input)
<1> DEFINE lists == ArgLists[input.mnemonic[2]]
<1>1. lists \in ListsOf("RI16") /\ input.args \in ToSet(lists)
  BY InputLists
<1>2. "RI16" \in PlainFormats
  BY DEF PlainFormats
<1>3. Plain(<<A_T, A_S16>>, "RI16")
  <2>1. A_T \in Slots("RI16") /\ A_S16 \in Slots("RI16") /\ A_T # A_S16
    BY FieldSlots DEF A_T, A_S16
  <2> QED
    BY <2>1, TwoPlain
<1>4. CASE lists = << <<A_T, A_S16>> >>
  BY <1>2, <1>3, <1>4, RightPlain
<1>5. CASE lists = << <<A_S18>> >> \/ lists = << <<A_T, A_S18>> >>
  <2>1. /\ input.args \in {<<A_S18>>, <<A_T, A_S18>>}
        /\ lists = <<input.args>>
    BY <1>1, <1>5, OnlyList, Zenon
  <2> QED
    BY <2>1, BranchForm
<1>6. ListsOf("RI16") = {<< <<A_S18>> >>, << <<A_T, A_S16>> >>, << <<A_T, A_S18>> >>}
  BY Zenon DEF ListsOf
<1> HIDE DEF lists
<1> QED
  BY <1>1, <1>4, <1>5, <1>6, Zenon

(* The same of RI18 rows.                                                  *)
LEMMA RightRI18 ==
  ASSUME NEW input \in Inputs, input.mnemonic \notin {Mtspr, Syscall},
         input.mnemonic[1] = "RI18"
  PROVE  Right(input)
<1> DEFINE lists == ArgLists[input.mnemonic[2]]
<1>1. lists \in ListsOf("RI18")
  BY InputLists
<1>2. "RI18" \in PlainFormats
  BY DEF PlainFormats
<1>3. Plain(<<A_T, A_U18>>, "RI18")
  <2>1. A_T \in Slots("RI18") /\ A_U18 \in Slots("RI18") /\ A_T # A_U18
    BY FieldSlots DEF A_T, A_U18
  <2> QED
    BY <2>1, TwoPlain
<1>4. ListsOf("RI18") = {<< <<A_T, A_U18>> >>}
  BY Zenon DEF ListsOf
<1>5. lists = << <<A_T, A_U18>> >>
  BY <1>1, <1>4, Zenon
<1> QED
  BY <1>2, <1>3, <1>5, RightPlain, Zenon

(* The same of RRR rows and of hints.                                      *)
LEMMA RightOthers ==
  ASSUME NEW input \in Inputs, input.mnemonic \notin {Mtspr, Syscall},
         input.mnemonic[1] \in {"RRR", "LBT", "LBTI"}
  PROVE  Right(input)
<1> DEFINE lists == ArgLists[input.mnemonic[2]]
           type == input.mnemonic[1]
<1>1. lists \in ListsOf(type) /\ input.args \in ToSet(lists)
  BY InputLists
<1>2. CASE type = "RRR"
  <2>1. ListsOf("RRR") = {<<Sources>>}
    BY Zenon DEF ListsOf, Sources
  <2>2. lists = <<Sources>>
    BY <1>1, <1>2, <2>1, Zenon
  <2>3. input.args = Sources
    BY <1>1, <2>2, OnlyList, Zenon
  <2> QED
    BY <1>2, <2>2, <2>3, SourcesForm
<1>3. CASE type = "LBT"
  <2>1. ListsOf("LBT") = {<< <<A_S11, A_S18>> >>}
    BY Zenon DEF ListsOf
  <2>2. lists = << <<A_S11, A_S18>> >>
    BY <1>1, <1>3, <2>1, Zenon
  <2>3. input.args = <<A_S11, A_S18>>
    BY <1>1, <2>2, OnlyList, Zenon
  <2> QED
    BY <1>3, <2>2, <2>3, HintForm
<1>4. CASE type = "LBTI"
  <2>1. ListsOf("LBTI") = {<< <<A_S11, A_A>> >>}
    BY Zenon DEF ListsOf
  <2>2. lists = << <<A_S11, A_A>> >>
    BY <1>1, <1>4, <2>1, Zenon
  <2>3. input.args = <<A_S11, A_A>>
    BY <1>1, <2>2, OnlyList, Zenon
  <2> QED
    BY <1>4, <2>2, <2>3, RegisterHintForm
<1> QED
  BY <1>2, <1>3, <1>4

(* Every input. *)
LEMMA InputRight ==
  ASSUME NEW input \in Inputs
  PROVE  Right(input)
<1> DEFINE type == input.mnemonic[1]
<1>1. CASE input.mnemonic = Mtspr
  BY <1>1, MtsprForm
<1>2. CASE input.mnemonic = Syscall
  BY <1>2, SyscallForm
<1>3. CASE input.mnemonic \notin {Mtspr, Syscall}
  <2>1. type \in Format
    BY <1>3, InputLists
  <2> QED
    BY <1>3, <2>1, RightRR, RightRI7, RightRI8, RightRI10, RightRI16, RightRI18,
       RightOthers DEF Format
<1> QED
  BY <1>1, <1>2, <1>3

(* What spu_assemble returned for the text of an input is what it makes of *)
(* that text once the tables are built.                                    *)
TextOfTheInput ==
  /\ given # None => /\ given \in Inputs /\ word = None
                     /\ text = Written(given)
  /\ assembled # None => text # None /\ assembled = Assemble(text, TRUE)

(* Input and text of the state belong together in every order of calls.    *)
THEOREM InputInvariance == Spec => []TextOfTheInput
<1>1. Init => TextOfTheInput
  BY DEF Init, TextOfTheInput
<1>2. TextOfTheInput /\ [Next]_vars => TextOfTheInput'
  <2> SUFFICES ASSUME TextOfTheInput, [Next]_vars PROVE TextOfTheInput'
    OBVIOUS
  <2>1. CASE spu_assemble
    BY <2>1 DEF spu_assemble, TextOfTheInput
  <2>2. CASE spu_disassemble
    BY <2>2 DEF spu_disassemble, TextOfTheInput
  <2>3. CASE spu_decode_op_components
    BY <2>3 DEF spu_decode_op_components, TextOfTheInput
  <2>4. CASE PrintPseudo
    BY <2>4 DEF PrintPseudo, TextOfTheInput
  <2>5. CASE UNCHANGED vars
    BY <2>5 DEF vars, TextOfTheInput
  <2> QED
    BY <2>1, <2>2, <2>3, <2>4, <2>5 DEF Next
<1> QED
  BY <1>1, <1>2, PTL DEF Spec

(* A line is assembled to the word its picture gives it, except in exactly *)
(* the cases of Garbled.                                                   *)
THEOREM AssemblesPicturedCorrect == Spec => []AssemblesPictured
<1>1. TextOfTheInput => AssemblesPictured
  <2> SUFFICES ASSUME TextOfTheInput, assembled # None, given # None
               PROVE  assembled = Pictured(given) <=> ~Garbled(given)
    BY DEF AssemblesPictured
  <2>1. given \in Inputs /\ assembled = Assemble(Written(given), TRUE)
    BY DEF TextOfTheInput
  <2>2. Right(given)
    BY <2>1, InputRight
  <2> QED
    BY <2>1, <2>2 DEF Right
<1> QED
  BY <1>1, InputInvariance, PTL

-----------------------------------------------------------------------------

(* An entry of the table of templates. *)
IsEntry(o, form) ==
  \/ o \in {\h20c, \h208, \h204, \h194, \h184, \h104, \h118, \h110, \h108,
            \h100, \h198, \h188, \h00c} /\ form = {"RT", "IMM"}
  \/ o = \h210 /\ form = {"RT", "IMM18"}
  \/ o \in {\h304, \h3b4, \h3b0, \h3b6, \h3b2, \h1a0, \h120}
       /\ form = {"RT", "RA", "IMM"}
  \/ o \in {\h3b9, \h3b8, \h12b, \h12a, \h129, \h128, \h1a9}
       /\ form = {"RT", "RA"}
  \/ o \in {\h3c2, \h3ca, \h2c2, \h2ca, \h140, \h1c4, \h144}
       /\ form = {"RT", "RA", "RB"}
  \/ o \in {\h000, \h190, \h180} /\ form = {"IMM"}
  \/ o \in {\h002, \h003, \h398, \h001, \h201, \h1aa, \h1ab} /\ form = {}
  \/ o \in {\h3ba, \h1a8} /\ form = {"RA"}
  \/ o \in {\h00d, \h00f} /\ form = {"RT", "CA"}
  \/ o = \h10d /\ form = {"CA", "RA"}
  \/ o = \h1ac /\ form = {"RA", "BRTARG"}
  \/ o \in {\h080, \h090} /\ form = {"BRINST", "BRTARG"}
  \/ o \in {\h19c, \h11c} /\ form = {"RT", "ADDR_REL"}

(* Every entry of the table of templates is one of the table's rows.       *)
LEMMA EntryOf ==
  ASSUME NEW entry
  PROVE  entry \in CustomForms =>
           entry = <<entry[1], entry[2]>> /\ IsEntry(entry[1], entry[2])
<1>1. ASSUME NEW ops, NEW form, entry \in Forms(ops, form)
      PROVE  entry = <<entry[1], entry[2]>> /\ entry[1] \in ops /\ entry[2] = form
  BY <1>1 DEF Forms
<1> DEFINE In(ops, form) == entry[1] \in ops /\ entry[2] = form
           Pair == entry = <<entry[1], entry[2]>>
<1>2. ASSUME NEW ops, NEW form PROVE entry \in Forms(ops, form) => Pair /\ In(ops, form)
  BY <1>1
<1> HIDE DEF Pair
<1>3. entry \in CustomConstants => Pair /\ IsEntry(entry[1], entry[2])
  BY <1>2 DEF CustomConstants, IsEntry
<1>4. entry \in CustomFloats => Pair /\ IsEntry(entry[1], entry[2])
  BY <1>2 DEF CustomFloats, IsEntry
<1>5. entry \in CustomControl => Pair /\ IsEntry(entry[1], entry[2])
  BY <1>2 DEF CustomControl, IsEntry
<1>6. entry \in CustomMemory => Pair /\ IsEntry(entry[1], entry[2])
  BY <1>2 DEF CustomMemory, IsEntry
<1>7. entry \in CustomBranches => Pair /\ IsEntry(entry[1], entry[2])
  BY <1>2 DEF CustomBranches, IsEntry
<1> QED
  BY <1>3, <1>4, <1>5, <1>6, <1>7, Zenon DEF CustomForms, Pair

(* The template an opcode has is the one its row gives it.                 *)
LEMMA EntryIs ==
  ASSUME NEW o \in DOMAIN CustomIntrins
  PROVE  IsEntry(o, CustomIntrins[o])
<1>1. \E entry \in CustomForms : entry[1] = o
  BY DEF CustomIntrins
<1> DEFINE entry == CHOOSE entry \in CustomForms : entry[1] = o
<1>2. entry \in CustomForms /\ entry[1] = o
  BY <1>1, Zenon
<1>3. CustomIntrins[o] = entry[2]
  BY DEF CustomIntrins
<1> HIDE DEF entry
<1> QED
  BY <1>2, <1>3, EntryOf

(* The registers named by kinds of arguments.                              *)
Names == {"RT", "RA", "RB", "RC"}

Named(upper, kinds) ==
  {s \in Names :
     \/ s = "RT" /\ (A_C \in kinds \/ (A_T \in kinds /\ ~upper))
     \/ s = "RA" /\ A_A \in kinds
     \/ s = "RB" /\ A_B \in kinds
     \/ s = "RC" /\ A_T \in kinds /\ upper}

KindsOf(o) == UNION {ToSet(list) : list \in ToSet(ArgLists[o])}

(* The registers an instruction names, by the kinds of its arguments.      *)
LEMMA RegistersNamed ==
  ASSUME NEW o
  PROVE  RegistersOf(o) = Named(Types[o] = "RRR", KindsOf(o))
<1> DEFINE upper == Types[o] = "RRR"
           Name1(kind) ==
             CASE kind = A_T -> {IF upper THEN "RC" ELSE "RT"}
               [] kind = A_C -> {"RT"}
               [] kind = A_A -> {"RA"}
               [] kind = A_B -> {"RB"}
               [] OTHER -> {}
           kinds == KindsOf(o)
<1>1. RegistersOf(o) = UNION {Name1(kind) : kind \in kinds}
  BY Zenon DEF RegistersOf, KindsOf
<1>2. \A kind : Name1(kind) \subseteq Names
  BY DEF Names
<1>3. \A s, kind :
        s \in Name1(kind) <=>
          \/ s = "RT" /\ (kind = A_C \/ (kind = A_T /\ ~upper))
          \/ s = "RA" /\ kind = A_A
          \/ s = "RB" /\ kind = A_B
          \/ s = "RC" /\ kind = A_T /\ upper
  BY DEF A_T, A_C, A_A, A_B
<1> HIDE DEF Name1, kinds, upper
<1>4. \A s : s \in UNION {Name1(kind) : kind \in kinds}
               <=> s \in Named(upper, kinds)
  BY <1>2, <1>3 DEF Named, Names
<1> QED
  BY <1>1, <1>4 DEF upper, kinds

(* An empty list has no elements.                                          *)
LEMMA SetOfNone == ToSet(<<>>) = {}
  BY DEF ToSet

(* A list of one element.                                                   *)
LEMMA SetOfOne ==
  ASSUME NEW a
  PROVE  ToSet(<<a>>) = {a}
  BY DEF ToSet

(* A list of two elements.                                                  *)
LEMMA SetOfTwo ==
  ASSUME NEW a, NEW b
  PROVE  ToSet(<<a, b>>) = {a, b}
  BY DEF ToSet

(* A list of three elements.                                                *)
LEMMA SetOfThree ==
  ASSUME NEW a, NEW b, NEW d
  PROVE  ToSet(<<a, b, d>>) = {a, b, d}
  BY DEF ToSet

(* A list of four elements.                                                 *)
LEMMA SetOfFour ==
  ASSUME NEW a, NEW b, NEW d, NEW e
  PROVE  ToSet(<<a, b, d, e>>) = {a, b, d, e}
  BY DEF ToSet

(* The kinds of arguments of an opcode with one list.                      *)
LEMMA KindsOne ==
  ASSUME NEW o, NEW l, ArgLists[o] = <<l>>
  PROVE  KindsOf(o) = ToSet(l)
<1>1. ToSet(ArgLists[o]) = {l}
  BY SetOfOne
<1> QED
  BY <1>1, Zenon DEF KindsOf

(* The kinds of arguments of an opcode with two lists.                      *)
LEMMA KindsTwo ==
  ASSUME NEW o, NEW l1, NEW l2, ArgLists[o] = <<l1, l2>>
  PROVE  KindsOf(o) = ToSet(l1) \cup ToSet(l2)
<1>1. ToSet(ArgLists[o]) = {l1, l2}
  BY SetOfTwo
<1> QED
  BY <1>1, Zenon DEF KindsOf

(* The registers a template of an instruction shows. *)
ShownIn(type, form) ==
  {s \in Names : \/ s \in form \cap Replaced(type)
                 \/ s = "RA" /\ "CA" \in form \cap Replaced(type)}

(* What a template leaves and shows, whatever instruction it is used for.  *)
LEMMA RegistersOfForm ==
  ASSUME NEW o, NEW type, NEW comp
  PROVE  LET p == spu_make_pseudo(o, type, comp, IP)
             form == GetIntrinsicForm(o, type)
         IN /\ p.left = form \ Replaced(type)
            /\ RegistersShown(p) = ShownIn(type, form)
            /\ "ADDR_REL" \in form \cap Replaced(type) =>
                 p.shown.ADDR_REL = AddrRel(comp, IP)
<1> DEFINE p == spu_make_pseudo(o, type, comp, IP)
           form == GetIntrinsicForm(o, type)
           filled == form \cap Replaced(type)
<1>1. /\ p.left = form \ Replaced(type)
      /\ p.shown = [s \in filled |-> Replacements(comp, IP)[s]]
  BY Zenon DEF spu_make_pseudo
<1> HIDE DEF p, form, filled
<1>2. DOMAIN p.shown = filled
  BY <1>1
<1>3. RegistersShown(p) = {s \in Names : s \in filled \/ (s = "RA" /\ "CA" \in filled)}
  BY <1>2 DEF RegistersShown, Names
<1>4. "ADDR_REL" \in filled => p.shown["ADDR_REL"] = AddrRel(comp, IP)
  BY <1>1 DEF Replacements
<1> QED
  BY <1>1, <1>3, <1>4 DEF p, form, filled, ShownIn

Odd == {\h304, \h00c, \h10d, \h1aa, \h1ab, \h201, \h398, \h3ba}

(* What PseudoShowsOperands says of an opcode and a template of it. *)
ShownRight(o, type, form, kinds) ==
  /\ form \subseteq Replaced(type)
  /\ ShownIn(type, form) = Named(type = "RRR", kinds) <=> o \notin Odd

(* The templates of single mnemonics, one row of the table after the other.*)
LEMMA OwnShape ==
  ASSUME NEW o \in DOMAIN CustomIntrins
  PROVE  LET form == CustomIntrins[o]
             type == Types[o]
         IN /\ ShownRight(o, type, form, KindsOf(o))
            /\ o \in {\h19c, \h11c} =>
                 type = "RI16" /\ "ADDR_REL" \in form \cap Replaced(type)
<1> DEFINE form == CustomIntrins[o]
           type == Types[o]
           kinds == KindsOf(o)
<1>1. IsEntry(o, form)
  BY EntryIs
<1>3. CASE o \in {\h001, \h002, \h003}
  <2>1. HaveRow({\h001, \h002, \h003},
                "RR", << <<>> >>)
    BY TemplatesAssumption, PTL
  <2>2. type = "RR" /\ ArgLists[o] = << <<>> >>
    BY <1>3, <2>1 DEF HaveRow
  <2>3. kinds = ToSet(<<>>)
    BY <2>2, KindsOne
  <2>4. kinds = {}
    BY <2>3, SetOfNone
  <2>5. form = {}
    BY <1>1, <1>3, SMT DEF IsEntry
  <2>6. ShownIn(type, form) = {} /\ form \subseteq Replaced(type)
    BY <2>2, <2>5 DEF ShownIn, Names, Replaced
  <2>7. Named(type = "RRR", kinds) = {}
    BY <2>2, <2>4 DEF Named, Names, A_A, A_B, A_C, A_T
  <2>8. o \notin Odd
    BY <1>3 DEF Odd
  <2>9. o \notin {\h19c, \h11c}
    BY <1>3
  <2> QED
    BY <2>6, <2>7, <2>8, <2>9, Zenon DEF ShownRight
<1>4. CASE o \in {\h398}
  <2>1. HaveRow({\h398},
                "RR", << <<A_T>> >>)
    BY TemplatesAssumption, PTL
  <2>2. type = "RR" /\ ArgLists[o] = << <<A_T>> >>
    BY <1>4, <2>1 DEF HaveRow
  <2>3. kinds = ToSet(<<A_T>>)
    BY <2>2, KindsOne
  <2>4. kinds = {A_T}
    BY <2>3, SetOfOne
  <2>5. form = {}
    BY <1>1, <1>4, SMT DEF IsEntry
  <2>6. ShownIn(type, form) = {} /\ form \subseteq Replaced(type)
    BY <2>2, <2>5 DEF ShownIn, Names, Replaced
  <2>7. Named(type = "RRR", kinds) = {"RT"}
    BY <2>2, <2>4 DEF Named, Names, A_A, A_B, A_C, A_T
  <2>8. o \in Odd /\ {} # {"RT"}
    BY <1>4 DEF Odd
  <2>9. o \notin {\h19c, \h11c}
    BY <1>4
  <2> QED
    BY <2>6, <2>7, <2>8, <2>9, Zenon DEF ShownRight
<1>5. CASE o \in {\h1a8}
  <2>1. HaveRow({\h1a8},
                "RR", << <<A_A>> >>)
    BY TemplatesAssumption, PTL
  <2>2. type = "RR" /\ ArgLists[o] = << <<A_A>> >>
    BY <1>5, <2>1 DEF HaveRow
  <2>3. kinds = ToSet(<<A_A>>)
    BY <2>2, KindsOne
  <2>4. kinds = {A_A}
    BY <2>3, SetOfOne
  <2>5. form = {"RA"}
    BY <1>1, <1>5, SMT DEF IsEntry
  <2>6. ShownIn(type, form) = {"RA"} /\ form \subseteq Replaced(type)
    BY <2>2, <2>5 DEF ShownIn, Names, Replaced
  <2>7. Named(type = "RRR", kinds) = {"RA"}
    BY <2>2, <2>4 DEF Named, Names, A_A, A_B, A_C, A_T
  <2>8. o \notin Odd
    BY <1>5 DEF Odd
  <2>9. o \notin {\h19c, \h11c}
    BY <1>5
  <2> QED
    BY <2>6, <2>7, <2>8, <2>9, Zenon DEF ShownRight
<1>6. CASE o \in {\h00c}
  <2>1. HaveRow({\h00c, \h00d, \h00f, \h128, \h129, \h12a, \h12b, \h1a9,
                \h1ab, \h3b8, \h3b9},
                "RR", << <<A_T, A_A>> >>)
    BY TemplatesAssumption, PTL
  <2>2. type = "RR" /\ ArgLists[o] = << <<A_T, A_A>> >>
    BY <1>6, <2>1 DEF HaveRow
  <2>3. kinds = ToSet(<<A_T, A_A>>)
    BY <2>2, KindsOne
  <2>4. kinds = {A_T, A_A}
    BY <2>3, SetOfTwo
  <2>5. form = {"RT", "IMM"}
    BY <1>1, <1>6, SMT DEF IsEntry
  <2>6. ShownIn(type, form) = {"RT"} /\ form \subseteq Replaced(type)
    BY <2>2, <2>5 DEF ShownIn, Names, Replaced
  <2>7. Named(type = "RRR", kinds) = {"RT", "RA"}
    BY <2>2, <2>4 DEF Named, Names, A_A, A_B, A_C, A_T
  <2>8. o \in Odd /\ {"RT"} # {"RT", "RA"}
    BY <1>6 DEF Odd
  <2>9. o \notin {\h19c, \h11c}
    BY <1>6
  <2> QED
    BY <2>6, <2>7, <2>8, <2>9, Zenon DEF ShownRight
<1>7. CASE o \in {\h128, \h129, \h12a, \h12b, \h1a9, \h3b8, \h3b9}
  <2>1. HaveRow({\h00c, \h00d, \h00f, \h128, \h129, \h12a, \h12b, \h1a9,
                \h1ab, \h3b8, \h3b9},
                "RR", << <<A_T, A_A>> >>)
    BY TemplatesAssumption, PTL
  <2>2. type = "RR" /\ ArgLists[o] = << <<A_T, A_A>> >>
    BY <1>7, <2>1 DEF HaveRow
  <2>3. kinds = ToSet(<<A_T, A_A>>)
    BY <2>2, KindsOne
  <2>4. kinds = {A_T, A_A}
    BY <2>3, SetOfTwo
  <2>5. form = {"RT", "RA"}
    BY <1>1, <1>7, SMT DEF IsEntry
  <2>6. ShownIn(type, form) = {"RT", "RA"} /\ form \subseteq Replaced(type)
    BY <2>2, <2>5 DEF ShownIn, Names, Replaced
  <2>7. Named(type = "RRR", kinds) = {"RT", "RA"}
    BY <2>2, <2>4 DEF Named, Names, A_A, A_B, A_C, A_T
  <2>8. o \notin Odd
    BY <1>7 DEF Odd
  <2>9. o \notin {\h19c, \h11c}
    BY <1>7
  <2> QED
    BY <2>6, <2>7, <2>8, <2>9, Zenon DEF ShownRight
<1>8. CASE o \in {\h1ab}
  <2>1. HaveRow({\h00c, \h00d, \h00f, \h128, \h129, \h12a, \h12b, \h1a9,
                \h1ab, \h3b8, \h3b9},
                "RR", << <<A_T, A_A>> >>)
    BY TemplatesAssumption, PTL
  <2>2. type = "RR" /\ ArgLists[o] = << <<A_T, A_A>> >>
    BY <1>8, <2>1 DEF HaveRow
  <2>3. kinds = ToSet(<<A_T, A_A>>)
    BY <2>2, KindsOne
  <2>4. kinds = {A_T, A_A}
    BY <2>3, SetOfTwo
  <2>5. form = {}
    BY <1>1, <1>8, SMT DEF IsEntry
  <2>6. ShownIn(type, form) = {} /\ form \subseteq Replaced(type)
    BY <2>2, <2>5 DEF ShownIn, Names, Replaced
  <2>7. Named(type = "RRR", kinds) = {"RT", "RA"}
    BY <2>2, <2>4 DEF Named, Names, A_A, A_B, A_C, A_T
  <2>8. o \in Odd /\ {} # {"RT", "RA"}
    BY <1>8 DEF Odd
  <2>9. o \notin {\h19c, \h11c}
    BY <1>8
  <2> QED
    BY <2>6, <2>7, <2>8, <2>9, Zenon DEF ShownRight
<1>9. CASE o \in {\h00d, \h00f}
  <2>1. HaveRow({\h00c, \h00d, \h00f, \h128, \h129, \h12a, \h12b, \h1a9,
                \h1ab, \h3b8, \h3b9},
                "RR", << <<A_T, A_A>> >>)
    BY TemplatesAssumption, PTL
  <2>2. type = "RR" /\ ArgLists[o] = << <<A_T, A_A>> >>
    BY <1>9, <2>1 DEF HaveRow
  <2>3. kinds = ToSet(<<A_T, A_A>>)
    BY <2>2, KindsOne
  <2>4. kinds = {A_T, A_A}
    BY <2>3, SetOfTwo
  <2>5. form = {"RT", "CA"}
    BY <1>1, <1>9, SMT DEF IsEntry
  <2>6. ShownIn(type, form) = {"RT", "RA"} /\ form \subseteq Replaced(type)
    BY <2>2, <2>5 DEF ShownIn, Names, Replaced
  <2>7. Named(type = "RRR", kinds) = {"RT", "RA"}
    BY <2>2, <2>4 DEF Named, Names, A_A, A_B, A_C, A_T
  <2>8. o \notin Odd
    BY <1>9 DEF Odd
  <2>9. o \notin {\h19c, \h11c}
    BY <1>9
  <2> QED
    BY <2>6, <2>7, <2>8, <2>9, Zenon DEF ShownRight
<1>10. CASE o \in {\h10d}
  <2>1. HaveRow({\h10d},
                "RR", << <<A_A, A_T>> >>)
    BY TemplatesAssumption, PTL
  <2>2. type = "RR" /\ ArgLists[o] = << <<A_A, A_T>> >>
    BY <1>10, <2>1 DEF HaveRow
  <2>3. kinds = ToSet(<<A_A, A_T>>)
    BY <2>2, KindsOne
  <2>4. kinds = {A_A, A_T}
    BY <2>3, SetOfTwo
  <2>5. form = {"CA", "RA"}
    BY <1>1, <1>10, SMT DEF IsEntry
  <2>6. ShownIn(type, form) = {"RA"} /\ form \subseteq Replaced(type)
    BY <2>2, <2>5 DEF ShownIn, Names, Replaced
  <2>7. Named(type = "RRR", kinds) = {"RT", "RA"}
    BY <2>2, <2>4 DEF Named, Names, A_A, A_B, A_C, A_T
  <2>8. o \in Odd /\ {"RA"} # {"RT", "RA"}
    BY <1>10 DEF Odd
  <2>9. o \notin {\h19c, \h11c}
    BY <1>10
  <2> QED
    BY <2>6, <2>7, <2>8, <2>9, Zenon DEF ShownRight
<1>11. CASE o \in {\h140, \h144, \h1c4, \h2c2, \h2ca, \h3c2, \h3ca}
  <2>1. HaveRow({\h140, \h144, \h1c4, \h2c2, \h2ca, \h3c2, \h3ca},
                "RR", << <<A_T, A_A, A_B>> >>)
    BY TemplatesAssumption, PTL
  <2>2. type = "RR" /\ ArgLists[o] = << <<A_T, A_A, A_B>> >>
    BY <1>11, <2>1 DEF HaveRow
  <2>3. kinds = ToSet(<<A_T, A_A, A_B>>)
    BY <2>2, KindsOne
  <2>4. kinds = {A_T, A_A, A_B}
    BY <2>3, SetOfThree
  <2>5. form = {"RT", "RA", "RB"}
    BY <1>1, <1>11, SMT DEF IsEntry
  <2>6. ShownIn(type, form) = {"RT", "RA", "RB"} /\ form \subseteq Replaced(type)
    BY <2>2, <2>5 DEF ShownIn, Names, Replaced
  <2>7. Named(type = "RRR", kinds) = {"RT", "RA", "RB"}
    BY <2>2, <2>4 DEF Named, Names, A_A, A_B, A_C, A_T
  <2>8. o \notin Odd
    BY <1>11 DEF Odd
  <2>9. o \notin {\h19c, \h11c}
    BY <1>11
  <2> QED
    BY <2>6, <2>7, <2>8, <2>9, Zenon DEF ShownRight
<1>12. CASE o \in {\h000}
  <2>1. HaveRow({\h000},
                "RR", << <<>>, <<A_U14>> >>)
    BY TemplatesAssumption, PTL
  <2>2. type = "RR" /\ ArgLists[o] = << <<>>, <<A_U14>> >>
    BY <1>12, <2>1 DEF HaveRow
  <2>3. kinds = ToSet(<<>>) \cup ToSet(<<A_U14>>)
    BY <2>2, KindsTwo
  <2>4. kinds = {A_U14}
    <3>1. ToSet(<<>>) = {}
      BY SetOfNone
    <3>2. ToSet(<<A_U14>>) = {A_U14}
      BY SetOfOne
    <3> QED
      BY <2>3, <3>1, <3>2
  <2>5. form = {"IMM"}
    BY <1>1, <1>12, SMT DEF IsEntry
  <2>6. ShownIn(type, form) = {} /\ form \subseteq Replaced(type)
    BY <2>2, <2>5 DEF ShownIn, Names, Replaced
  <2>7. Named(type = "RRR", kinds) = {}
    BY <2>2, <2>4 DEF Named, Names, A_A, A_B, A_C, A_T, A_U14
  <2>8. o \notin Odd
    BY <1>12 DEF Odd
  <2>9. o \notin {\h19c, \h11c}
    BY <1>12
  <2> QED
    BY <2>6, <2>7, <2>8, <2>9, Zenon DEF ShownRight
<1>13. CASE o \in {\h201}
  <2>1. HaveRow({\h201},
                "RR", << <<A_T>>, <<>> >>)
    BY TemplatesAssumption, PTL
  <2>2. type = "RR" /\ ArgLists[o] = << <<A_T>>, <<>> >>
    BY <1>13, <2>1 DEF HaveRow
  <2>3. kinds = ToSet(<<A_T>>) \cup ToSet(<<>>)
    BY <2>2, KindsTwo
  <2>4. kinds = {A_T}
    <3>1. ToSet(<<A_T>>) = {A_T}
      BY SetOfOne
    <3>2. ToSet(<<>>) = {}
      BY SetOfNone
    <3> QED
      BY <2>3, <3>1, <3>2
  <2>5. form = {}
    BY <1>1, <1>13, SMT DEF IsEntry
  <2>6. ShownIn(type, form) = {} /\ form \subseteq Replaced(type)
    BY <2>2, <2>5 DEF ShownIn, Names, Replaced
  <2>7. Named(type = "RRR", kinds) = {"RT"}
    BY <2>2, <2>4 DEF Named, Names, A_A, A_B, A_C, A_T
  <2>8. o \in Odd /\ {} # {"RT"}
    BY <1>13 DEF Odd
  <2>9. o \notin {\h19c, \h11c}
    BY <1>13
  <2> QED
    BY <2>6, <2>7, <2>8, <2>9, Zenon DEF ShownRight
<1>14. CASE o \in {\h1aa}
  <2>1. HaveRow({\h1aa},
                "RR", << <<A_A>>, <<>> >>)
    BY TemplatesAssumption, PTL
  <2>2. type = "RR" /\ ArgLists[o] = << <<A_A>>, <<>> >>
    BY <1>14, <2>1 DEF HaveRow
  <2>3. kinds = ToSet(<<A_A>>) \cup ToSet(<<>>)
    BY <2>2, KindsTwo
  <2>4. kinds = {A_A}
    <3>1. ToSet(<<A_A>>) = {A_A}
      BY SetOfOne
    <3>2. ToSet(<<>>) = {}
      BY SetOfNone
    <3> QED
      BY <2>3, <3>1, <3>2
  <2>5. form = {}
    BY <1>1, <1>14, SMT DEF IsEntry
  <2>6. ShownIn(type, form) = {} /\ form \subseteq Replaced(type)
    BY <2>2, <2>5 DEF ShownIn, Names, Replaced
  <2>7. Named(type = "RRR", kinds) = {"RA"}
    BY <2>2, <2>4 DEF Named, Names, A_A, A_B, A_C, A_T
  <2>8. o \in Odd /\ {} # {"RA"}
    BY <1>14 DEF Odd
  <2>9. o \notin {\h19c, \h11c}
    BY <1>14
  <2> QED
    BY <2>6, <2>7, <2>8, <2>9, Zenon DEF ShownRight
<1>15. CASE o \in {\h3ba}
  <2>1. HaveRow({\h3ba},
                "RR", << <<A_T, A_A>>, <<A_A>> >>)
    BY TemplatesAssumption, PTL
  <2>2. type = "RR" /\ ArgLists[o] = << <<A_T, A_A>>, <<A_A>> >>
    BY <1>15, <2>1 DEF HaveRow
  <2>3. kinds = ToSet(<<A_T, A_A>>) \cup ToSet(<<A_A>>)
    BY <2>2, KindsTwo
  <2>4. kinds = {A_T, A_A}
    <3>1. ToSet(<<A_T, A_A>>) = {A_T, A_A}
      BY SetOfTwo
    <3>2. ToSet(<<A_A>>) = {A_A}
      BY SetOfOne
    <3> QED
      BY <2>3, <3>1, <3>2
  <2>5. form = {"RA"}
    BY <1>1, <1>15, SMT DEF IsEntry
  <2>6. ShownIn(type, form) = {"RA"} /\ form \subseteq Replaced(type)
    BY <2>2, <2>5 DEF ShownIn, Names, Replaced
  <2>7. Named(type = "RRR", kinds) = {"RT", "RA"}
    BY <2>2, <2>4 DEF Named, Names, A_A, A_B, A_C, A_T
  <2>8. o \in Odd /\ {"RA"} # {"RT", "RA"}
    BY <1>15 DEF Odd
  <2>9. o \notin {\h19c, \h11c}
    BY <1>15
  <2> QED
    BY <2>6, <2>7, <2>8, <2>9, Zenon DEF ShownRight
<1>16. CASE o \in {\h3b0, \h3b2, \h3b4, \h3b6}
  <2>1. HaveRow({\h3b0, \h3b2, \h3b4, \h3b6},
                "RI8", << <<A_T, A_A, A_S7>> >>)
    BY TemplatesAssumption, PTL
  <2>2. type = "RI8" /\ ArgLists[o] = << <<A_T, A_A, A_S7>> >>
    BY <1>16, <2>1 DEF HaveRow
  <2>3. kinds = ToSet(<<A_T, A_A, A_S7>>)
    BY <2>2, KindsOne
  <2>4. kinds = {A_T, A_A, A_S7}
    BY <2>3, SetOfThree
  <2>5. form = {"RT", "RA", "IMM"}
    BY <1>1, <1>16, SMT DEF IsEntry
  <2>6. ShownIn(type, form) = {"RT", "RA"} /\ form \subseteq Replaced(type)
    BY <2>2, <2>5 DEF ShownIn, Names, Replaced
  <2>7. Named(type = "RRR", kinds) = {"RT", "RA"}
    BY <2>2, <2>4 DEF Named, Names, A_A, A_B, A_C, A_S7, A_T
  <2>8. o \notin Odd
    BY <1>16 DEF Odd
  <2>9. o \notin {\h19c, \h11c}
    BY <1>16
  <2> QED
    BY <2>6, <2>7, <2>8, <2>9, Zenon DEF ShownRight
<1>17. CASE o \in {\h120, \h1a0}
  <2>1. HaveRow({\h120, \h1a0},
                "RI10", << <<A_T, A_S14, A_P, A_A>> >>)
    BY TemplatesAssumption, PTL
  <2>2. type = "RI10" /\ ArgLists[o] = << <<A_T, A_S14, A_P, A_A>> >>
    BY <1>17, <2>1 DEF HaveRow
  <2>3. kinds = ToSet(<<A_T, A_S14, A_P, A_A>>)
    BY <2>2, KindsOne
  <2>4. kinds = {A_T, A_S14, A_P, A_A}
    BY <2>3, SetOfFour
  <2>5. form = {"RT", "RA", "IMM"}
    BY <1>1, <1>17, SMT DEF IsEntry
  <2>6. ShownIn(type, form) = {"RT", "RA"} /\ form \subseteq Replaced(type)
    BY <2>2, <2>5 DEF ShownIn, Names, Replaced
  <2>7. Named(type = "RRR", kinds) = {"RT", "RA"}
    BY <2>2, <2>4 DEF Named, Names, A_A, A_B, A_C, A_P, A_S14, A_T
  <2>8. o \notin Odd
    BY <1>17 DEF Odd
  <2>9. o \notin {\h19c, \h11c}
    BY <1>17
  <2> QED
    BY <2>6, <2>7, <2>8, <2>9, Zenon DEF ShownRight
<1>18. CASE o \in {\h180, \h190}
  <2>1. HaveRow({\h180, \h190},
                "RI16", << <<A_S18>> >>)
    BY TemplatesAssumption, PTL
  <2>2. type = "RI16" /\ ArgLists[o] = << <<A_S18>> >>
    BY <1>18, <2>1 DEF HaveRow
  <2>3. kinds = ToSet(<<A_S18>>)
    BY <2>2, KindsOne
  <2>4. kinds = {A_S18}
    BY <2>3, SetOfOne
  <2>5. form = {"IMM"}
    BY <1>1, <1>18, SMT DEF IsEntry
  <2>6. ShownIn(type, form) = {} /\ form \subseteq Replaced(type)
    BY <2>2, <2>5 DEF ShownIn, Names, Replaced
  <2>7. Named(type = "RRR", kinds) = {}
    BY <2>2, <2>4 DEF Named, Names, A_A, A_B, A_C, A_S18, A_T
  <2>8. o \notin Odd
    BY <1>18 DEF Odd
  <2>9. o \notin {\h19c, \h11c}
    BY <1>18
  <2> QED
    BY <2>6, <2>7, <2>8, <2>9, Zenon DEF ShownRight
<1>19. CASE o \in {\h194, \h204, \h208, \h20c}
  <2>1. HaveRow({\h194, \h204, \h208, \h20c, \h304},
                "RI16", << <<A_T, A_S16>> >>)
    BY TemplatesAssumption, PTL
  <2>2. type = "RI16" /\ ArgLists[o] = << <<A_T, A_S16>> >>
    BY <1>19, <2>1 DEF HaveRow
  <2>3. kinds = ToSet(<<A_T, A_S16>>)
    BY <2>2, KindsOne
  <2>4. kinds = {A_T, A_S16}
    BY <2>3, SetOfTwo
  <2>5. form = {"RT", "IMM"}
    BY <1>1, <1>19, SMT DEF IsEntry
  <2>6. ShownIn(type, form) = {"RT"} /\ form \subseteq Replaced(type)
    BY <2>2, <2>5 DEF ShownIn, Names, Replaced
  <2>7. Named(type = "RRR", kinds) = {"RT"}
    BY <2>2, <2>4 DEF Named, Names, A_A, A_B, A_C, A_S16, A_T
  <2>8. o \notin Odd
    BY <1>19 DEF Odd
  <2>9. o \notin {\h19c, \h11c}
    BY <1>19
  <2> QED
    BY <2>6, <2>7, <2>8, <2>9, Zenon DEF ShownRight
<1>20. CASE o \in {\h304}
  <2>1. HaveRow({\h194, \h204, \h208, \h20c, \h304},
                "RI16", << <<A_T, A_S16>> >>)
    BY TemplatesAssumption, PTL
  <2>2. type = "RI16" /\ ArgLists[o] = << <<A_T, A_S16>> >>
    BY <1>20, <2>1 DEF HaveRow
  <2>3. kinds = ToSet(<<A_T, A_S16>>)
    BY <2>2, KindsOne
  <2>4. kinds = {A_T, A_S16}
    BY <2>3, SetOfTwo
  <2>5. form = {"RT", "RA", "IMM"}
    BY <1>1, <1>20, SMT DEF IsEntry
  <2>6. ShownIn(type, form) = {"RT", "RA"} /\ form \subseteq Replaced(type)
    BY <2>2, <2>5 DEF ShownIn, Names, Replaced
  <2>7. Named(type = "RRR", kinds) = {"RT"}
    BY <2>2, <2>4 DEF Named, Names, A_A, A_B, A_C, A_S16, A_T
  <2>8. o \in Odd /\ {"RT", "RA"} # {"RT"}
    BY <1>20 DEF Odd
  <2>9. o \notin {\h19c, \h11c}
    BY <1>20
  <2> QED
    BY <2>6, <2>7, <2>8, <2>9, Zenon DEF ShownRight
<1>21. CASE o \in {\h100, \h104, \h108, \h110, \h118, \h184, \h188, \h198}
  <2>1. HaveRow({\h100, \h104, \h108, \h110, \h118, \h11c, \h184, \h188,
                \h198, \h19c},
                "RI16", << <<A_T, A_S18>> >>)
    BY TemplatesAssumption, PTL
  <2>2. type = "RI16" /\ ArgLists[o] = << <<A_T, A_S18>> >>
    BY <1>21, <2>1 DEF HaveRow
  <2>3. kinds = ToSet(<<A_T, A_S18>>)
    BY <2>2, KindsOne
  <2>4. kinds = {A_T, A_S18}
    BY <2>3, SetOfTwo
  <2>5. form = {"RT", "IMM"}
    BY <1>1, <1>21, SMT DEF IsEntry
  <2>6. ShownIn(type, form) = {"RT"} /\ form \subseteq Replaced(type)
    BY <2>2, <2>5 DEF ShownIn, Names, Replaced
  <2>7. Named(type = "RRR", kinds) = {"RT"}
    BY <2>2, <2>4 DEF Named, Names, A_A, A_B, A_C, A_S18, A_T
  <2>8. o \notin Odd
    BY <1>21 DEF Odd
  <2>9. o \notin {\h19c, \h11c}
    BY <1>21
  <2> QED
    BY <2>6, <2>7, <2>8, <2>9, Zenon DEF ShownRight
<1>22. CASE o \in {\h11c, \h19c}
  <2>1. HaveRow({\h100, \h104, \h108, \h110, \h118, \h11c, \h184, \h188,
                \h198, \h19c},
                "RI16", << <<A_T, A_S18>> >>)
    BY TemplatesAssumption, PTL
  <2>2. type = "RI16" /\ ArgLists[o] = << <<A_T, A_S18>> >>
    BY <1>22, <2>1 DEF HaveRow
  <2>3. kinds = ToSet(<<A_T, A_S18>>)
    BY <2>2, KindsOne
  <2>4. kinds = {A_T, A_S18}
    BY <2>3, SetOfTwo
  <2>5. form = {"RT", "ADDR_REL"}
    BY <1>1, <1>22, SMT DEF IsEntry
  <2>6. ShownIn(type, form) = {"RT"} /\ form \subseteq Replaced(type)
    BY <2>2, <2>5 DEF ShownIn, Names, Replaced
  <2>7. Named(type = "RRR", kinds) = {"RT"}
    BY <2>2, <2>4 DEF Named, Names, A_A, A_B, A_C, A_S18, A_T
  <2>8. o \notin Odd
    BY <1>22 DEF Odd
  <2>9. type = "RI16" /\ "ADDR_REL" \in form \cap Replaced(type)
    BY <2>2, <2>5 DEF Replaced
  <2> QED
    BY <2>6, <2>7, <2>8, <2>9, Zenon DEF ShownRight
<1>23. CASE o \in {\h210}
  <2>1. HaveRow({\h210},
                "RI18", << <<A_T, A_U18>> >>)
    BY TemplatesAssumption, PTL
  <2>2. type = "RI18" /\ ArgLists[o] = << <<A_T, A_U18>> >>
    BY <1>23, <2>1 DEF HaveRow
  <2>3. kinds = ToSet(<<A_T, A_U18>>)
    BY <2>2, KindsOne
  <2>4. kinds = {A_T, A_U18}
    BY <2>3, SetOfTwo
  <2>5. form = {"RT", "IMM18"}
    BY <1>1, <1>23, SMT DEF IsEntry
  <2>6. ShownIn(type, form) = {"RT"} /\ form \subseteq Replaced(type)
    BY <2>2, <2>5 DEF ShownIn, Names, Replaced
  <2>7. Named(type = "RRR", kinds) = {"RT"}
    BY <2>2, <2>4 DEF Named, Names, A_A, A_B, A_C, A_T, A_U18
  <2>8. o \notin Odd
    BY <1>23 DEF Odd
  <2>9. o \notin {\h19c, \h11c}
    BY <1>23
  <2> QED
    BY <2>6, <2>7, <2>8, <2>9, Zenon DEF ShownRight
<1>24. CASE o \in {\h080, \h090}
  <2>1. HaveRow({\h080, \h090},
                "LBT", << <<A_S11, A_S18>> >>)
    BY TemplatesAssumption, PTL
  <2>2. type = "LBT" /\ ArgLists[o] = << <<A_S11, A_S18>> >>
    BY <1>24, <2>1 DEF HaveRow
  <2>3. kinds = ToSet(<<A_S11, A_S18>>)
    BY <2>2, KindsOne
  <2>4. kinds = {A_S11, A_S18}
    BY <2>3, SetOfTwo
  <2>5. form = {"BRINST", "BRTARG"}
    BY <1>1, <1>24, SMT DEF IsEntry
  <2>6. ShownIn(type, form) = {} /\ form \subseteq Replaced(type)
    BY <2>2, <2>5 DEF ShownIn, Names, Replaced
  <2>7. Named(type = "RRR", kinds) = {}
    BY <2>2, <2>4 DEF Named, Names, A_A, A_B, A_C, A_S11, A_S18, A_T
  <2>8. o \notin Odd
    BY <1>24 DEF Odd
  <2>9. o \notin {\h19c, \h11c}
    BY <1>24
  <2> QED
    BY <2>6, <2>7, <2>8, <2>9, Zenon DEF ShownRight
<1>25. CASE o \in {\h1ac}
  <2>1. HaveRow({\h1ac},
                "LBTI", << <<A_S11, A_A>> >>)
    BY TemplatesAssumption, PTL
  <2>2. type = "LBTI" /\ ArgLists[o] = << <<A_S11, A_A>> >>
    BY <1>25, <2>1 DEF HaveRow
  <2>3. kinds = ToSet(<<A_S11, A_A>>)
    BY <2>2, KindsOne
  <2>4. kinds = {A_S11, A_A}
    BY <2>3, SetOfTwo
  <2>5. form = {"RA", "BRTARG"}
    BY <1>1, <1>25, SMT DEF IsEntry
  <2>6. ShownIn(type, form) = {"RA"} /\ form \subseteq Replaced(type)
    BY <2>2, <2>5 DEF ShownIn, Names, Replaced
  <2>7. Named(type = "RRR", kinds) = {"RA"}
    BY <2>2, <2>4 DEF Named, Names, A_A, A_B, A_C, A_S11, A_T
  <2>8. o \notin Odd
    BY <1>25 DEF Odd
  <2>9. o \notin {\h19c, \h11c}
    BY <1>25
  <2> QED
    BY <2>6, <2>7, <2>8, <2>9, Zenon DEF ShownRight
<1> QED
  BY <1>1, <1>3, <1>4, <1>5, <1>6, <1>7, <1>8, <1>9, <1>10, <1>11, <1>12,
     <1>13, <1>14, <1>15, <1>16, <1>17, <1>18, <1>19, <1>20, <1>21, <1>22,
     <1>23, <1>24, <1>25 DEF IsEntry

(* The opcodes named apart in PseudoShowsOperands have templates.          *)
LEMMA NamedApart ==
  ASSUME NEW o \in Odd \cup {\h19c, \h11c}
  PROVE  o \in DOMAIN CustomIntrins
<1>1. ASSUME NEW form, <<o, form>> \in CustomForms
      PROVE  o \in DOMAIN CustomIntrins
  BY <1>1 DEF CustomIntrins
<1>2. CASE o = \h304
  <2>1. <<o, {"RT", "RA", "IMM"}>> \in CustomForms
    BY <1>2 DEF CustomForms, CustomConstants, Forms
  <2> QED
    BY <1>1, <2>1
<1>3. CASE o \in {\h398, \h201}
  <2>1. <<o, {}>> \in CustomForms
    BY <1>3 DEF CustomForms, CustomControl, Forms
  <2> QED
    BY <1>1, <2>1
<1>4. CASE o = \h00c
  <2>1. <<o, {"RT", "IMM"}>> \in CustomForms
    BY <1>4 DEF CustomForms, CustomControl, Forms
  <2> QED
    BY <1>1, <2>1
<1>5. CASE o = \h10d
  <2>1. <<o, {"CA", "RA"}>> \in CustomForms
    BY <1>5 DEF CustomForms, CustomControl, Forms
  <2> QED
    BY <1>1, <2>1
<1>6. CASE o = \h3ba
  <2>1. <<o, {"RA"}>> \in CustomForms
    BY <1>6 DEF CustomForms, CustomControl, Forms
  <2> QED
    BY <1>1, <2>1
<1>7. CASE o \in {\h1aa, \h1ab}
  <2>1. <<o, {}>> \in CustomForms
    BY <1>7 DEF CustomForms, CustomBranches, Forms
  <2> QED
    BY <1>1, <2>1
<1>8. CASE o \in {\h19c, \h11c}
  <2>1. <<o, {"RT", "ADDR_REL"}>> \in CustomForms
    BY <1>8 DEF CustomForms, CustomMemory, Forms
  <2> QED
    BY <1>1, <2>1
<1> QED
  BY <1>2, <1>3, <1>4, <1>5, <1>6, <1>7, <1>8 DEF Odd

(* What the assumption says of the rows without templates.                *)
LEMMA DefaultForms ==
       \A o \in Opcode \ DOMAIN CustomIntrins :
       \/ Types[o] \in {NoType, "RRR", "RI7", "RI10"}
       \/ /\ Types[o] = "RR"
          /\ ArgLists[o] \in {<< <<A_T, A_A>> >>, << <<A_T, A_A, A_B>> >>,
                              << <<A_T, A_A, A_B>>, <<A_A, A_B>> >>}
  BY TemplatesAssumption, PTL

(* The argument lists of a row without a template of its own.              *)
LEMMA DefaultLists ==
  ASSUME NEW o \in Opcode, o \notin DOMAIN CustomIntrins, Types[o] # NoType
  PROVE  LET lists == ArgLists[o]
         IN \/ Types[o] = "RRR" /\ lists = << <<A_C, A_A, A_B, A_T>> >>
            \/ /\ Types[o] = "RR"
               /\ lists \in {<< <<A_T, A_A>> >>, << <<A_T, A_A, A_B>> >>,
                             << <<A_T, A_A, A_B>>, <<A_A, A_B>> >>}
            \/ /\ Types[o] = "RI7"
               /\ lists \in {<< <<A_T, A_A, A_S7>> >>, << <<A_T, A_S7, A_P, A_A>> >>,
                             << <<A_A, A_T>>, <<A_T, A_A, A_S7>> >>}
            \/ /\ Types[o] = "RI10"
               /\ lists \in {<< <<A_T, A_A, A_S10>> >>, << <<A_T, A_S14, A_P, A_A>> >>,
                             << <<A_T, A_A, A_S10>>, <<A_A, A_S10>> >>}
<1>1. \/ Types[o] \in {"RRR", "RI7", "RI10"}
      \/ /\ Types[o] = "RR"
         /\ ArgLists[o] \in {<< <<A_T, A_A>> >>, << <<A_T, A_A, A_B>> >>,
                             << <<A_T, A_A, A_B>>, <<A_A, A_B>> >>}
  BY DefaultForms, Zenon
<1>2. RowsOf[o] # <<>> /\ Mnemonics[o] = <<Types[o], o>>
  BY DEF Types, Mnemonics
<1>3. Mnemonics[o] \in Mnemonic
  BY <1>2, TableAssumption, Zenon
<1>4. CASE <<Types[o], o>> = Syscall
  <2>1. Types[o] = "RI7" /\ o = Syscall[2]
    BY <1>4, SyscallType, Zenon
  <2>2. ArgLists[Syscall[2]] = << <<A_A, A_T>>, <<A_T, A_A, A_S7>> >>
    BY FormsAssumption, PTL
  <2> QED
    BY <2>1, <2>2, Zenon
<1>5. CASE <<Types[o], o>> # Syscall
  <2>1. <<Types[o], o>> # Mtspr
    <3>1. Syscall \in Mnemonic \ {Mtspr} /\ Mtspr[2] = Syscall[2]
      BY FormsAssumption, SyscallType, MtsprFields
    <3>2. Mnemonics[Syscall[2]] = Syscall
      BY <3>1, FormsAssumption, Zenon
    <3> QED
      BY <1>2, <1>5, <3>1, <3>2
  <2>2. ArgLists[<<Types[o], o>>[2]] \in ListsOf(<<Types[o], o>>[1])
    BY <1>2, <1>3, <1>5, <2>1, FormsAssumption, Zenon
  <2>3. ArgLists[o] \in ListsOf(Types[o])
    BY <2>2
  <2> QED
    BY <1>1, <2>3 DEF ListsOf
<1> QED
  BY <1>4, <1>5

(* What PseudoShowsOperands says of an opcode without a template.          *)
LEMMA DefaultShape ==
  ASSUME NEW o \in Opcode, o \notin DOMAIN CustomIntrins, Types[o] # NoType
  PROVE  LET type == Types[o]
             form == IntrinsicTemplates[type]
         IN /\ form \subseteq Replaced(type)
            /\ ShownIn(type, form) = Named(type = "RRR", KindsOf(o))
                 <=> ArgLists[o] # << <<A_T, A_A>> >>
<1> DEFINE type == Types[o]
           form == IntrinsicTemplates[type]
           kinds == KindsOf(o)
<1>1. CASE type = "RRR" /\ ArgLists[o] = << <<A_C, A_A, A_B, A_T>> >>
  <2>1. kinds = ToSet(<<A_C, A_A, A_B, A_T>>)
    BY <1>1, KindsOne
  <2>2. kinds = {A_C, A_A, A_B, A_T}
    BY <2>1, SetOfFour
  <2>3. form = {"RT", "RA", "RB", "RC"}
    BY <1>1 DEF IntrinsicTemplates
  <2>4. ShownIn(type, form) = {"RT", "RA", "RB", "RC"} /\ form \subseteq Replaced(type)
    BY <1>1, <2>3 DEF ShownIn, Names, Replaced
  <2>5. Named(type = "RRR", kinds) = {"RT", "RA", "RB", "RC"}
    BY <1>1, <2>2 DEF Named, Names, A_A, A_B, A_C, A_T
  <2>6. ArgLists[o] # << <<A_T, A_A>> >>
    BY <1>1 DEF A_T, A_A, A_B, A_C
  <2> QED
    BY <2>4, <2>5, <2>6, Zenon
<1>2. CASE type = "RR" /\ ArgLists[o] = << <<A_T, A_A>> >>
  <2>1. kinds = ToSet(<<A_T, A_A>>)
    BY <1>2, KindsOne
  <2>2. kinds = {A_T, A_A}
    BY <2>1, SetOfTwo
  <2>3. form = {"RT", "RA", "RB"}
    BY <1>2 DEF IntrinsicTemplates
  <2>4. ShownIn(type, form) = {"RT", "RA", "RB"} /\ form \subseteq Replaced(type)
    BY <1>2, <2>3 DEF ShownIn, Names, Replaced
  <2>5. Named(type = "RRR", kinds) = {"RT", "RA"}
    BY <1>2, <2>2 DEF Named, Names, A_A, A_B, A_C, A_T
  <2>6. {"RT", "RA", "RB"} # {"RT", "RA"}
    OBVIOUS
  <2> QED
    BY <1>2, <2>4, <2>5, <2>6, Zenon
<1>3. CASE type = "RR" /\ ArgLists[o] = << <<A_T, A_A, A_B>> >>
  <2>1. kinds = ToSet(<<A_T, A_A, A_B>>)
    BY <1>3, KindsOne
  <2>2. kinds = {A_T, A_A, A_B}
    BY <2>1, SetOfThree
  <2>3. form = {"RT", "RA", "RB"}
    BY <1>3 DEF IntrinsicTemplates
  <2>4. ShownIn(type, form) = {"RT", "RA", "RB"} /\ form \subseteq Replaced(type)
    BY <1>3, <2>3 DEF ShownIn, Names, Replaced
  <2>5. Named(type = "RRR", kinds) = {"RT", "RA", "RB"}
    BY <1>3, <2>2 DEF Named, Names, A_A, A_B, A_C, A_T
  <2>6. ArgLists[o] # << <<A_T, A_A>> >>
    BY <1>3 DEF A_T, A_A, A_B, A_C
  <2> QED
    BY <2>4, <2>5, <2>6, Zenon
<1>4. CASE type = "RR" /\ ArgLists[o] = << <<A_T, A_A, A_B>>, <<A_A, A_B>> >>
  <2>1. kinds = ToSet(<<A_T, A_A, A_B>>) \cup ToSet(<<A_A, A_B>>)
    BY <1>4, KindsTwo
  <2>2. kinds = {A_T, A_A, A_B}
    <3>1. ToSet(<<A_T, A_A, A_B>>) = {A_T, A_A, A_B}
      BY SetOfThree
    <3>2. ToSet(<<A_A, A_B>>) = {A_A, A_B}
      BY SetOfTwo
    <3> QED
      BY <2>1, <3>1, <3>2
  <2>3. form = {"RT", "RA", "RB"}
    BY <1>4 DEF IntrinsicTemplates
  <2>4. ShownIn(type, form) = {"RT", "RA", "RB"} /\ form \subseteq Replaced(type)
    BY <1>4, <2>3 DEF ShownIn, Names, Replaced
  <2>5. Named(type = "RRR", kinds) = {"RT", "RA", "RB"}
    BY <1>4, <2>2 DEF Named, Names, A_A, A_B, A_C, A_T
  <2>6. ArgLists[o] # << <<A_T, A_A>> >>
    BY <1>4 DEF A_T, A_A, A_B, A_C
  <2> QED
    BY <2>4, <2>5, <2>6, Zenon
<1>5. CASE type = "RI7" /\ ArgLists[o] = << <<A_T, A_A, A_S7>> >>
  <2>1. kinds = ToSet(<<A_T, A_A, A_S7>>)
    BY <1>5, KindsOne
  <2>2. kinds = {A_T, A_A, A_S7}
    BY <2>1, SetOfThree
  <2>3. form = {"RT", "RA", "IMM"}
    BY <1>5 DEF IntrinsicTemplates
  <2>4. ShownIn(type, form) = {"RT", "RA"} /\ form \subseteq Replaced(type)
    BY <1>5, <2>3 DEF ShownIn, Names, Replaced
  <2>5. Named(type = "RRR", kinds) = {"RT", "RA"}
    BY <1>5, <2>2 DEF Named, Names, A_A, A_B, A_C, A_S7, A_T
  <2>6. ArgLists[o] # << <<A_T, A_A>> >>
    BY <1>5 DEF A_T, A_A, A_B, A_C
  <2> QED
    BY <2>4, <2>5, <2>6, Zenon
<1>6. CASE type = "RI7" /\ ArgLists[o] = << <<A_T, A_S7, A_P, A_A>> >>
  <2>1. kinds = ToSet(<<A_T, A_S7, A_P, A_A>>)
    BY <1>6, KindsOne
  <2>2. kinds = {A_T, A_S7, A_P, A_A}
    BY <2>1, SetOfFour
  <2>3. form = {"RT", "RA", "IMM"}
    BY <1>6 DEF IntrinsicTemplates
  <2>4. ShownIn(type, form) = {"RT", "RA"} /\ form \subseteq Replaced(type)
    BY <1>6, <2>3 DEF ShownIn, Names, Replaced
  <2>5. Named(type = "RRR", kinds) = {"RT", "RA"}
    BY <1>6, <2>2 DEF Named, Names, A_A, A_B, A_C, A_P, A_S7, A_T
  <2>6. ArgLists[o] # << <<A_T, A_A>> >>
    BY <1>6 DEF A_T, A_A, A_B, A_C
  <2> QED
    BY <2>4, <2>5, <2>6, Zenon
<1>7. CASE type = "RI7" /\ ArgLists[o] = << <<A_A, A_T>>, <<A_T, A_A, A_S7>> >>
  <2>1. kinds = ToSet(<<A_A, A_T>>) \cup ToSet(<<A_T, A_A, A_S7>>)
    BY <1>7, KindsTwo
  <2>2. kinds = {A_A, A_T, A_S7}
    <3>1. ToSet(<<A_A, A_T>>) = {A_A, A_T}
      BY SetOfTwo
    <3>2. ToSet(<<A_T, A_A, A_S7>>) = {A_T, A_A, A_S7}
      BY SetOfThree
    <3> QED
      BY <2>1, <3>1, <3>2
  <2>3. form = {"RT", "RA", "IMM"}
    BY <1>7 DEF IntrinsicTemplates
  <2>4. ShownIn(type, form) = {"RT", "RA"} /\ form \subseteq Replaced(type)
    BY <1>7, <2>3 DEF ShownIn, Names, Replaced
  <2>5. Named(type = "RRR", kinds) = {"RT", "RA"}
    BY <1>7, <2>2 DEF Named, Names, A_A, A_B, A_C, A_S7, A_T
  <2>6. ArgLists[o] # << <<A_T, A_A>> >>
    BY <1>7 DEF A_T, A_A, A_B, A_C
  <2> QED
    BY <2>4, <2>5, <2>6, Zenon
<1>8. CASE type = "RI10" /\ ArgLists[o] = << <<A_T, A_A, A_S10>> >>
  <2>1. kinds = ToSet(<<A_T, A_A, A_S10>>)
    BY <1>8, KindsOne
  <2>2. kinds = {A_T, A_A, A_S10}
    BY <2>1, SetOfThree
  <2>3. form = {"RT", "RA", "IMM"}
    BY <1>8 DEF IntrinsicTemplates
  <2>4. ShownIn(type, form) = {"RT", "RA"} /\ form \subseteq Replaced(type)
    BY <1>8, <2>3 DEF ShownIn, Names, Replaced
  <2>5. Named(type = "RRR", kinds) = {"RT", "RA"}
    BY <1>8, <2>2 DEF Named, Names, A_A, A_B, A_C, A_S10, A_T
  <2>6. ArgLists[o] # << <<A_T, A_A>> >>
    BY <1>8 DEF A_T, A_A, A_B, A_C
  <2> QED
    BY <2>4, <2>5, <2>6, Zenon
<1>9. CASE type = "RI10" /\ ArgLists[o] = << <<A_T, A_S14, A_P, A_A>> >>
  <2>1. kinds = ToSet(<<A_T, A_S14, A_P, A_A>>)
    BY <1>9, KindsOne
  <2>2. kinds = {A_T, A_S14, A_P, A_A}
    BY <2>1, SetOfFour
  <2>3. form = {"RT", "RA", "IMM"}
    BY <1>9 DEF IntrinsicTemplates
  <2>4. ShownIn(type, form) = {"RT", "RA"} /\ form \subseteq Replaced(type)
    BY <1>9, <2>3 DEF ShownIn, Names, Replaced
  <2>5. Named(type = "RRR", kinds) = {"RT", "RA"}
    BY <1>9, <2>2 DEF Named, Names, A_A, A_B, A_C, A_P, A_S14, A_T
  <2>6. ArgLists[o] # << <<A_T, A_A>> >>
    BY <1>9 DEF A_T, A_A, A_B, A_C
  <2> QED
    BY <2>4, <2>5, <2>6, Zenon
<1>10. CASE type = "RI10" /\ ArgLists[o] = << <<A_T, A_A, A_S10>>, <<A_A, A_S10>> >>
  <2>1. kinds = ToSet(<<A_T, A_A, A_S10>>) \cup ToSet(<<A_A, A_S10>>)
    BY <1>10, KindsTwo
  <2>2. kinds = {A_T, A_A, A_S10}
    <3>1. ToSet(<<A_T, A_A, A_S10>>) = {A_T, A_A, A_S10}
      BY SetOfThree
    <3>2. ToSet(<<A_A, A_S10>>) = {A_A, A_S10}
      BY SetOfTwo
    <3> QED
      BY <2>1, <3>1, <3>2
  <2>3. form = {"RT", "RA", "IMM"}
    BY <1>10 DEF IntrinsicTemplates
  <2>4. ShownIn(type, form) = {"RT", "RA"} /\ form \subseteq Replaced(type)
    BY <1>10, <2>3 DEF ShownIn, Names, Replaced
  <2>5. Named(type = "RRR", kinds) = {"RT", "RA"}
    BY <1>10, <2>2 DEF Named, Names, A_A, A_B, A_C, A_S10, A_T
  <2>6. ArgLists[o] # << <<A_T, A_A>> >>
    BY <1>10 DEF A_T, A_A, A_B, A_C
  <2> QED
    BY <2>4, <2>5, <2>6, Zenon
<1> QED
  BY <1>1, <1>2, <1>3, <1>4, <1>5, <1>6, <1>7, <1>8, <1>9, <1>10, DefaultLists, Zenon

(* The quotient and the remainder of a number.                             *)
LEMMA Parts ==
  ASSUME NEW m \in Nat \ {0}, NEW n \in Int
  PROVE  /\ n \div m \in Int /\ n % m \in Int
         /\ n = m * (n \div m) + (n % m) /\ 0 <= n % m /\ n % m < m
  OBVIOUS

(* A line of 16 bytes of the local store, by its number. *)
Numbered(line) == 16 * (line % 16384)

(* Where its addresses are.                                                *)
At(address, line) == 16 * line <= address /\ address < 16 * line + 16

(* The line an address lies in.                                            *)
LEMMA LineNumber ==
  ASSUME NEW line \in Int, NEW address \in Int, At(address, line)
  PROVE  LineOf(address) = Numbered(line)
<1> DEFINE byte == address - 16 * line
<1>0. byte \in Int /\ address = 16 * line + byte /\ 0 <= byte /\ byte < 16
  BY DEF At
<1> HIDE DEF byte
<1> DEFINE k == line \div 16384
           r == line % 16384
<1>1. k \in Int /\ r \in Int /\ line = 16384 * k + r /\ 0 <= r /\ r < 16384
  BY Parts
<1> HIDE DEF k, r
<1>2. 16 * line + byte = 262144 * k + (16 * r + byte)
  BY <1>0, <1>1, SMT
<1>3. 0 <= 16 * r + byte /\ 16 * r + byte < 262144
  BY <1>0, <1>1, SMT
<1>4. (262144 * k + (16 * r + byte)) % 262144 = 16 * r + byte
  <2> DEFINE rest == 16 * r + byte
  <2>1. rest \in Int
    BY <1>0, <1>1
  <2>2. 0 <= rest /\ rest < 262144
    BY <1>3
  <2> HIDE DEF rest
  <2>3. (262144 * k + rest) % 262144 = rest
    BY <1>1, <2>1, <2>2, SMT
  <2> QED
    BY <2>3 DEF rest
<1>5. (16 * r + byte) \div 16 = r
  BY <1>0, <1>1, SMT
<1> QED
  BY <1>0, <1>2, <1>4, <1>5 DEF LineOf, Cut, Numbered, r

(* Lines that are less than 5000 apart are different modulo 16384.         *)
LEMMA LinesApart ==
  ASSUME NEW x \in Int, NEW y \in Int, -5000 < y - x, y - x < 5000
  PROVE  Numbered(x) = Numbered(y) <=> x = y
<1> DEFINE k == x \div 16384
           r == x % 16384
           l == y \div 16384
           s == y % 16384
<1>1. k \in Int /\ r \in Int /\ x = 16384 * k + r
  BY Parts
<1>2. l \in Int /\ s \in Int /\ y = 16384 * l + s
  BY Parts
<1>3. x = y => r = s
  OBVIOUS
<1> HIDE DEF k, r, l, s
<1>4. r = s => x = y
  BY <1>1, <1>2, SMT
<1>5. 16 * r = 16 * s <=> r = s
  BY <1>1, <1>2, SMT
<1>6. 16 * r = 16 * s <=> x = y
  BY <1>3, <1>4, <1>5
<1> QED
  BY <1>6 DEF Numbered, r, s

(* The line lqr and stqr are shown with, and the one they access.          *)
LEMMA LineShown ==
  ASSUME NEW n \in Int, -32768 <= n, n < 32768
  PROVE  LineOf(IP + n * 2) = LineOf(IP + 4 * n) <=> CloseBy(n)
<1> DEFINE q == IP \div 16
           p == IP % 16
           h == (p + 2 * n) \div 16
           rh == (p + 2 * n) % 16
           f == (p + 4 * n) \div 16
           rf == (p + 4 * n) % 16
           x == q + h
           y == q + f
<1>1. q \in Int /\ p \in Int /\ IP = 16 * q + p
  BY IPAssumption, Parts
<1> HIDE DEF q, p
<1>2. h \in Int /\ rh \in Int /\ p + 2 * n = 16 * h + rh /\ 0 <= rh /\ rh < 16
  <2>1. p + 2 * n \in Int
    BY <1>1
  <2> QED
    BY <2>1, Parts
<1>3. f \in Int /\ rf \in Int /\ p + 4 * n = 16 * f + rf /\ 0 <= rf /\ rf < 16
  <2>1. p + 4 * n \in Int
    BY <1>1
  <2> QED
    BY <2>1, Parts
<1>4. CloseBy(n) <=> n \in -7 .. 7 /\ h = f
  BY DEF CloseBy, p
<1> HIDE DEF h, rh, f, rf
<1>5. x \in Int /\ y \in Int
  BY <1>1, <1>2, <1>3
<1>6. IP + n * 2 = 16 * x + rh
  BY <1>1, <1>2, SMT
<1>7. IP + 4 * n = 16 * y + rf
  BY <1>1, <1>3, SMT
<1>8. -5000 < y - x /\ y - x < 5000
  BY <1>1, <1>2, <1>3, SMT
<1>9. x = y <=> h = f
  BY <1>1, <1>2, <1>3, SMT
<1>10. h = f => -7 <= n /\ n <= 7
  BY <1>1, <1>2, <1>3, SMT
<1> HIDE DEF x, y
<1>11. LineOf(IP + n * 2) = Numbered(x)
  <2> DEFINE address == IP + n * 2
  <2>1. address \in Int
    BY IPAssumption
  <2>2. At(address, x)
    BY <1>5, <1>2, <1>6 DEF At
  <2> HIDE DEF address
  <2>3. LineOf(address) = Numbered(x)
    BY <1>5, <2>1, <2>2, LineNumber
  <2> QED
    BY <2>3 DEF address
<1>12. LineOf(IP + 4 * n) = Numbered(y)
  <2> DEFINE address == IP + 4 * n
  <2>1. address \in Int
    BY IPAssumption
  <2>2. At(address, y)
    BY <1>5, <1>3, <1>7 DEF At
  <2> HIDE DEF address
  <2>3. LineOf(address) = Numbered(y)
    BY <1>5, <2>1, <2>2, LineNumber
  <2> QED
    BY <2>3 DEF address
<1>13. Numbered(x) = Numbered(y) <=> x = y
  BY <1>5, <1>8, LinesApart
<1>14. LineOf(IP + n * 2) = LineOf(IP + 4 * n) <=> Numbered(x) = Numbered(y)
  BY <1>11, <1>12
<1>15. x = y <=> CloseBy(n)
  BY <1>4, <1>9, <1>10
<1> QED
  BY <1>13, <1>14, <1>15

(* The displacement of an instruction of RI16 is the signed immediate.     *)
LEMMA Displacement ==
  ASSUME NEW w \in Word
  PROVE  LET near == SignExtend(I16(w), 65536)
             comp == Components("RI16", w)
         IN AddrRel(comp, IP) = LineOf(IP + 4 * near) <=> CloseBy(near)
<1> DEFINE near == SignExtend(I16(w), 65536)
           comp == Components("RI16", w)
<1>1. comp.IMM = near
  BY DEF Components, Operands
<1>2. near \in Int /\ -32768 <= near /\ near < 32768
  <2> DEFINE x == I16(w)
  <2>1. x \in Nat /\ x < 65536
    BY Fields
  <2> HIDE DEF x
  <2>2. /\ SignExtend(x, 65536) \in Int
        /\ -32768 <= SignExtend(x, 65536) /\ SignExtend(x, 65536) < 32768
    BY <2>1, SMT DEF SignExtend
  <2> QED
    BY <2>2 DEF x
<1>3. AddrRel(comp, IP) = LineOf(IP + near * 2)
  <2>1. AddrRel(comp, IP) = LineOf(IP + comp.IMM * 2)
    BY DEF AddrRel
  <2> HIDE DEF comp, near
  <2> QED
    BY <1>1, <2>1
<1> HIDE DEF near, comp
<1>4. LineOf(IP + near * 2) = LineOf(IP + 4 * near) <=> CloseBy(near)
  BY <1>2, LineShown
<1> QED
  BY <1>3, <1>4 DEF near, comp

(* What PrintPseudo prints for a word.                                     *)
TextFor(w) ==
  LET opcode == Decoded[w.op]
      type == Types[opcode]
  IN IF Mnemonics[opcode] = NoMnemonic THEN ErrorText
     ELSE spu_make_pseudo(opcode, type, Components(type, w), IP)

(* An opcode with a type has a mnemonic, so that its template is used.     *)
LEMMA TemplateUsed ==
  ASSUME NEW w \in Word, Types[Decoded[w.op]] # NoType
  PROVE  LET o == Decoded[w.op]
         IN /\ o \in Opcode
            /\ TextFor(w) = spu_make_pseudo(o, Types[o], Components(Types[o], w), IP)
<1> DEFINE o == Decoded[w.op]
<1>1. w.op \in Opcode
  BY DEF Word, Opcode
<1>2. o \in Opcode
  BY <1>1, DecodedFrom
<1> HIDE DEF o
<1>3. Types[o] # NoType
  BY DEF o
<1>4. RowsOf[o] # <<>>
  BY <1>2, <1>3 DEF Types
<1>5. Mnemonics[o] \in Mnemonic
  BY <1>2, <1>4, TableAssumption, Zenon
<1>6. Mnemonics[o] # NoMnemonic
  BY <1>5, MarksAssumption, Zenon
<1>7. Mnemonics[Decoded[w.op]] # NoMnemonic
  BY <1>6 DEF o
<1>8. TextFor(w) = spu_make_pseudo(Decoded[w.op], Types[Decoded[w.op]],
                      Components(Types[Decoded[w.op]], w), IP)
  BY <1>7, Zenon DEF TextFor
<1> QED
  BY <1>2, <1>8, Zenon DEF o

(* What PseudoShowsOperands says, of the text of any word.                 *)
LEMMA TextShows ==
  ASSUME NEW w \in Word, Types[Decoded[w.op]] # NoType
  PROVE  LET o == Decoded[w.op]
             p == TextFor(w)
             near == SignExtend(I16(w), 65536)
         IN /\ p.left = {}
            /\ RegistersShown(p) = RegistersOf(o) <=> o \notin Odd /\ ~TwoRegisters(o)
            /\ o \in {\h19c, \h11c} =>
                 (p.shown.ADDR_REL = LineOf(IP + 4 * near) <=> CloseBy(near))
<1> DEFINE o == Decoded[w.op]
           type == Types[o]
           comp == Components(type, w)
           form == GetIntrinsicForm(o, type)
           near == SignExtend(I16(w), 65536)
           p == TextFor(w)
<1>1. o \in Opcode /\ p = spu_make_pseudo(o, type, comp, IP)
  BY TemplateUsed, Zenon
<1>2. type # NoType
  OBVIOUS
<1>3. /\ p.left = form \ Replaced(type)
      /\ RegistersShown(p) = ShownIn(type, form)
      /\ "ADDR_REL" \in form \cap Replaced(type) =>
           p.shown.ADDR_REL = AddrRel(comp, IP)
  <2>1. LET made == spu_make_pseudo(o, type, comp, IP)
        IN /\ made.left = form \ Replaced(type)
           /\ RegistersShown(made) = ShownIn(type, form)
           /\ "ADDR_REL" \in form \cap Replaced(type) =>
                made.shown.ADDR_REL = AddrRel(comp, IP)
    BY RegistersOfForm
  <2> HIDE DEF p, form, comp, type, o
  <2> QED
    BY <1>1, <2>1
<1>4. RegistersOf(o) = Named(type = "RRR", KindsOf(o))
  BY RegistersNamed, Zenon
<1>5. comp = Components(type, w)
  OBVIOUS
<1>6. AddrRel(Components("RI16", w), IP) = LineOf(IP + 4 * near) <=> CloseBy(near)
  BY Displacement
<1> HIDE DEF o, p, near, comp
<1>7. CASE o \in DOMAIN CustomIntrins
  <2>1. form = CustomIntrins[o]
    BY <1>7, Zenon DEF GetIntrinsicForm
  <2>2. /\ ShownRight(o, type, form, KindsOf(o))
        /\ o \in {\h19c, \h11c} =>
             type = "RI16" /\ "ADDR_REL" \in form \cap Replaced(type)
    <3>1. /\ ShownRight(o, Types[o], CustomIntrins[o], KindsOf(o))
          /\ o \in {\h19c, \h11c} =>
               /\ Types[o] = "RI16"
               /\ "ADDR_REL" \in CustomIntrins[o] \cap Replaced(Types[o])
      BY <1>7, OwnShape
    <3> HIDE DEF form
    <3> QED
      BY <2>1, <3>1
  <2> HIDE DEF form, type
  <2>3. p.left = {}
    BY <1>3, <2>2 DEF ShownRight
  <2>4. ~TwoRegisters(o)
    BY <1>7, Zenon DEF TwoRegisters
  <2>5. RegistersShown(p) = RegistersOf(o) <=> o \notin Odd /\ ~TwoRegisters(o)
    BY <1>3, <1>4, <2>2, <2>4, Zenon DEF ShownRight
  <2>6. ASSUME o \in {\h19c, \h11c}
        PROVE  p.shown.ADDR_REL = LineOf(IP + 4 * near) <=> CloseBy(near)
    <3>1. type = "RI16" /\ p.shown.ADDR_REL = AddrRel(comp, IP)
      BY <1>3, <2>2, <2>6, Zenon
    <3>2. p.shown.ADDR_REL = AddrRel(Components("RI16", w), IP)
      BY <1>5, <3>1, Zenon
    <3> QED
      BY <1>6, <3>2
  <2> QED
    BY <2>3, <2>5, <2>6 DEF o, p, near
<1>8. CASE o \notin DOMAIN CustomIntrins
  <2>1. form = IntrinsicTemplates[type]
    BY <1>8, Zenon DEF GetIntrinsicForm
  <2>2. /\ form \subseteq Replaced(type)
        /\ ShownIn(type, form) = Named(type = "RRR", KindsOf(o))
             <=> ArgLists[o] # << <<A_T, A_A>> >>
    BY <1>1, <1>2, <1>8, <2>1, DefaultShape, Zenon
  <2>3. o \notin Odd \cup {\h19c, \h11c}
    BY <1>8, NamedApart
  <2>4. TwoRegisters(o) <=> ArgLists[o] = << <<A_T, A_A>> >>
    BY <1>8, Zenon DEF TwoRegisters
  <2> HIDE DEF form, type
  <2>5. p.left = {}
    BY <1>3, <2>2
  <2>6. RegistersShown(p) = RegistersOf(o) <=> o \notin Odd /\ ~TwoRegisters(o)
    <3>1. o \notin Odd
      BY <2>3
    <3> QED
      BY <1>3, <1>4, <2>2, <2>4, <3>1, Zenon
  <2>7. o \notin {\h19c, \h11c}
    BY <2>3
  <2> QED
    BY <2>5, <2>6, <2>7 DEF o, p
<1> QED
  BY <1>7, <1>8

(* The pseudo code of the state is the one of its word.                    *)
PseudoOfTheWord ==
  /\ word # None => word \in Words
  /\ pseudo # None => word # None /\ pseudo = TextFor(word)

(* Word and pseudo code belong together in every order of calls.           *)
THEOREM PseudoInvariance == Spec => []PseudoOfTheWord
<1>1. Init => PseudoOfTheWord
  BY DEF Init, PseudoOfTheWord
<1>2. PseudoOfTheWord /\ [Next]_vars => PseudoOfTheWord'
  <2> SUFFICES ASSUME PseudoOfTheWord, [Next]_vars PROVE PseudoOfTheWord'
    OBVIOUS
  <2>1. CASE spu_assemble
    BY <2>1 DEF spu_assemble, PseudoOfTheWord
  <2>2. CASE spu_disassemble
    BY <2>2 DEF spu_disassemble, PseudoOfTheWord
  <2>3. CASE spu_decode_op_components
    BY <2>3 DEF spu_decode_op_components, PseudoOfTheWord
  <2>4. CASE PrintPseudo
    <3>1. word # None /\ pseudo' = TextFor(word) /\ word' = word
      BY <2>4, Zenon DEF PrintPseudo, TextFor
    <3> QED
      BY <3>1 DEF PseudoOfTheWord
  <2>5. CASE UNCHANGED vars
    BY <2>5 DEF vars, PseudoOfTheWord
  <2> QED
    BY <2>1, <2>2, <2>3, <2>4, <2>5 DEF Next
<1> QED
  BY <1>1, <1>2, PTL DEF Spec

(* The pseudo code of every word shows the registers its instruction       *)
(* names, except in exactly the cases PseudoShowsOperands lists, leaves no *)
(* placeholder, and gives lqr and stqr a line that is theirs only close    *)
(* by.                                                                     *)
THEOREM PseudoCorrect == Spec => []PseudoShowsOperands
<1>1. PseudoOfTheWord => PseudoShowsOperands
  <2> SUFFICES ASSUME PseudoOfTheWord, pseudo # None,
                      Types[Decoded[word.op]] # NoType
               PROVE  PseudoShowsOperands
    BY DEF PseudoShowsOperands
  <2>1. word \in Word /\ pseudo = TextFor(word)
    BY WordsAssumption DEF PseudoOfTheWord
  <2>2. /\ pseudo.left = {}
        /\ RegistersShown(pseudo) = RegistersOf(Decoded[word.op])
             <=> Decoded[word.op] \notin Odd /\ ~TwoRegisters(Decoded[word.op])
        /\ Decoded[word.op] \in {\h19c, \h11c} =>
             (pseudo.shown.ADDR_REL = LineOf(IP + 4 * SignExtend(I16(word), 65536))
                <=> CloseBy(SignExtend(I16(word), 65536)))
    BY <2>1, TextShows
  <2> QED
    BY <2>2 DEF PseudoShowsOperands, Odd
<1> QED
  BY <1>1, PseudoInvariance, PTL
=============================================================================
