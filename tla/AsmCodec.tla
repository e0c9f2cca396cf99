------------------------------ MODULE AsmCodec ------------------------------
(***************************************************************************)
(* The assembler, the disassembler, the operand decoder and the pseudo     *)
(* code printer over one instruction: spu_assemble, spu_disassemble,       *)
(* spu_decode_op_components and spu_make_pseudo.  All of them look the     *)
(* instruction up in the tables of OpDb, which the first look-up builds;   *)
(* the assembler also reads db_op_arglist without a look-up.               *)
(*                                                                         *)
(* A line of assembler text is its mnemonic and its operand tokens, a      *)
(* token being a number or a name; punctuation, which                      *)
(* spu_preprocess_strip_clutter turns into blanks, is left out, and so     *)
(* are comments.                                                           *)
(***************************************************************************)
EXTENDS Integers, Decoder, PseudoForms

CONSTANTS
  None,                        \* a variable that is not set yet
  Inputs,                      \* assembler lines: mnemonic, argument list,
                               \* and an operand token for each argument
  Words,                       \* instruction words
  IP                           \* the address spu_make_pseudo is given

ASSUME IPAssumption == IP \in Nat
ASSUME WordsAssumption == Words \subseteq Word /\ None \notin Words

(* The marks of an opcode without a row are not taken for entries of rows. *)
ASSUME MarksAssumption == NoType \notin Format /\ NoMnemonic \notin Mnemonic

(* Of the table of spu-insns.h: the last row of an opcode gives it one of  *)
(* the formats and a mnemonic of the table; the opcode decodes to itself;  *)
(* the arguments of its rows are kinds of arguments; and there is no row   *)
(* for the opcode that unknown words decode to.                            *)
ASSUME TableAssumption ==
  /\ Mnemonic \subseteq Format \X Opcode
  /\ RowsOf[Db!Unknown] = <<>>
  /\ \A o \in Opcode :
       /\ RowsOf[o] # <<>> => Mnemonics[o] \in Mnemonic /\ Decoded[o] = o
       /\ ArgLists[o] \in Seq(Seq(0 .. 21))

VARIABLES
  opcodes_parsed,   \* OpDb's tables are built
  given,            \* the input the text was written from
  text,             \* a line of assembler text
  assembled,        \* what spu_assemble returned for it
  word,             \* an instruction word
  components,       \* what spu_decode_op_components returned for it
  pseudo            \* what spu_make_pseudo returned for it

vars == <<opcodes_parsed, given, text, assembled, word, components, pseudo>>

(* The lowest opcode that is looked up as the mnemonic, as a set. *)
FoundAs == [m \in Mnemonic |->
  LET same == {o \in Opcode : Mnemonics[Decoded[o]] = m}
  IN {o \in same : \A p \in same : o <= p}]

(* db_op_arglist[opcode]; nothing before the tables are built. *)
db_op_arglist(opcode, built) == IF built THEN ArgLists[opcode] ELSE <<>>

-----------------------------------------------------------------------------

Num(n) == [name |-> "", value |-> n]
Name(s) == [name |-> s, value |-> 0]
IsNumber(token) == token.name = ""

Token == [name : {"", "LR", "SP", "SR"}, value : Int]

Line(mnemonic, tokens) == [mnemonic |-> mnemonic, tokens |-> tokens]

(* The argument lists of the rows of a mnemonic. *)
ArgsOf(m) == {row.args : row \in {r \in ToSet(RowsOf[m[2]]) : r.format = m[1]}}

(* The argument lists an instruction of a format has in the table. *)
ListsOf(type) ==
  CASE type = "RRR" -> {<< <<A_C, A_A, A_B, A_T>> >>}
    [] type = "RR" ->
         {<< <<>> >>, << <<A_T>> >>, << <<A_A>> >>, << <<A_T, A_A>> >>,
          << <<A_A, A_T>> >>, << <<A_T, A_A, A_B>> >>,
          << <<>>, <<A_U14>> >>, << <<A_T>>, <<>> >>, << <<A_A>>, <<>> >>,
          << <<A_T, A_A>>, <<A_A>> >>, << <<A_T, A_A, A_B>>, <<A_A, A_B>> >>}
    [] type = "RI7" -> {<< <<A_T, A_A, A_S7>> >>, << <<A_T, A_S7, A_P, A_A>> >>}
    [] type = "RI8" -> {<< <<A_T, A_A, A_S7>> >>}
    [] type = "RI10" ->
         {<< <<A_T, A_A, A_S10>> >>, << <<A_T, A_S14, A_P, A_A>> >>,
          << <<A_T, A_A, A_S10>>, <<A_A, A_S10>> >>}
    [] type = "RI16" -> {<< <<A_S18>> >>, << <<A_T, A_S16>> >>, << <<A_T, A_S18>> >>}
    [] type = "RI18" -> {<< <<A_T, A_U18>> >>}
    [] type = "LBT" -> {<< <<A_S11, A_S18>> >>}
    [] type = "LBTI" -> {<< <<A_S11, A_A>> >>}

ASSUME FormsAssumption ==
  /\ {Mtspr, Syscall} \subseteq Mnemonic
  /\ \A m \in Mnemonic \ {Mtspr} : Mnemonics[m[2]] = m
  /\ \A m \in Mnemonic \ {Mtspr, Syscall} :
       ArgLists[m[2]] \in ListsOf(m[1]) /\ ArgsOf(m) = ToSet(ArgLists[m[2]])
  /\ ArgLists[Syscall[2]] = << <<A_A, A_T>>, <<A_T, A_A, A_S7>> >>
  /\ ArgsOf(Syscall) = {<<A_T, A_A, A_S7>>}
  /\ ArgsOf(Mtspr) = {<<A_S, A_T>>}

(* The rows spu_pseudo.cpp has a template of its own for, by format and    *)
(* argument lists; the rows that have none are of the forms whose template *)
(* is their format's.                                                      *)
HaveRow(opcodes, type, lists) ==
  \A o \in opcodes : Types[o] = type /\ ArgLists[o] = lists

ASSUME TemplatesAssumption ==
  /\ HaveRow({\h001, \h002, \h003}, "RR", << <<>> >>)
  /\ HaveRow({\h398}, "RR", << <<A_T>> >>)
  /\ HaveRow({\h1a8}, "RR", << <<A_A>> >>)
  /\ HaveRow({\h00c, \h00d, \h00f, \h128, \h129, \h12a, \h12b, \h1a9, \h1ab,
              \h3b8, \h3b9}, "RR", << <<A_T, A_A>> >>)
  /\ HaveRow({\h10d}, "RR", << <<A_A, A_T>> >>)
  /\ HaveRow({\h140, \h144, \h1c4, \h2c2, \h2ca, \h3c2, \h3ca},
             "RR", << <<A_T, A_A, A_B>> >>)
  /\ HaveRow({\h000}, "RR", << <<>>, <<A_U14>> >>)
  /\ HaveRow({\h201}, "RR", << <<A_T>>, <<>> >>)
  /\ HaveRow({\h1aa}, "RR", << <<A_A>>, <<>> >>)
  /\ HaveRow({\h3ba}, "RR", << <<A_T, A_A>>, <<A_A>> >>)
  /\ HaveRow({\h3b0, \h3b2, \h3b4, \h3b6}, "RI8", << <<A_T, A_A, A_S7>> >>)
  /\ HaveRow({\h120, \h1a0}, "RI10", << <<A_T, A_S14, A_P, A_A>> >>)
  /\ HaveRow({\h180, \h190}, "RI16", << <<A_S18>> >>)
  /\ HaveRow({\h194, \h204, \h208, \h20c, \h304}, "RI16", << <<A_T, A_S16>> >>)
  /\ HaveRow({\h100, \h104, \h108, \h110, \h118, \h11c, \h184, \h188, \h198,
              \h19c}, "RI16", << <<A_T, A_S18>> >>)
  /\ HaveRow({\h210}, "RI18", << <<A_T, A_U18>> >>)
  /\ HaveRow({\h080, \h090}, "LBT", << <<A_S11, A_S18>> >>)
  /\ HaveRow({\h1ac}, "LBTI", << <<A_S11, A_A>> >>)
  /\ \A o \in Opcode \ DOMAIN CustomIntrins :
       \/ Types[o] \in {NoType, "RRR", "RI7", "RI10"}
       \/ /\ Types[o] = "RR"
          /\ ArgLists[o] \in {<< <<A_T, A_A>> >>, << <<A_T, A_A, A_B>> >>,
                              << <<A_T, A_A, A_B>>, <<A_A, A_B>> >>}

(* The operand of the i-th argument: A_P, which occurs once in a list, is  *)
(* the parenthesis before a register and has none.                         *)
Place(args, i) == IF \E j \in 1 .. i : args[j] = A_P THEN i - 1 ELSE i

(* What operands are written as: an alias or a number. *)
Operand == {Name("LR"), Name("SP")} \cup [name : {""}, value : Int]

(* The number of values of the field an argument is put in. *)
FieldValues(type, kind) ==
  CASE kind = A_S7 -> IF type = "RI8" THEN 256 ELSE 128
    [] kind = A_S10 -> 1024
    [] kind = A_S16 -> 65536
    [] kind = A_U18 -> 262144
    [] OTHER -> 128

(* The codes of stop. *)
Codes == 0 .. 16383

(* An operand that can stand for a kind of argument: a register, or a     *)
(* number that fits the field, be it meant signed or not.                  *)
Fits(token, type, kind) ==
  LET register == kind \in {A_T, A_A, A_B, A_C}
  IN /\ register \/ IsNumber(token)
     /\ register /\ IsNumber(token) => token.value \in 0 .. 127
     /\ kind \in {A_S7, A_S10, A_S16, A_U18} =>
          /\ -FieldValues(type, kind) < token.value
          /\ token.value < FieldValues(type, kind)
     /\ kind = A_U14 => token.value \in Codes

(* Lines as the arguments of a row of the mnemonic ask for. *)
ASSUME InputsAssumption ==
  \A input \in Inputs :
    /\ input.mnemonic \in Mnemonic /\ input.args \in ArgsOf(input.mnemonic)
    /\ input.operands \in Seq(Operand)
    /\ Len(input.operands) = Place(input.args, Len(input.args))
    /\ \A i \in DOMAIN input.args :
         input.args[i] # A_P =>
           Fits(input.operands[Place(input.args, i)], input.mnemonic[1],
                input.args[i])

(* The first token of that name gets the number. *)
ReplaceFirst(tokens, name, number) ==
  LET at == {i \in DOMAIN tokens : tokens[i].name = name}
  IN IF at = {} THEN tokens
     ELSE [tokens EXCEPT ![CHOOSE i \in at : \A j \in at : i <= j] =
             Num(number)]

Ori == <<"RI10", \h020>>

Rotqmbybi == <<"RR", \h1cd>>

(* Names of no row: those of a line of "lr" and of a word of no            *)
(* instruction, and the first eight letters of rotqmbybi.                  *)
Lr == <<"lr", -1>>
Error == <<"ERROR", -1>>
Rotqmbyb == <<"rotqmbyb", -1>>

(* "lr" anywhere makes the line an ori of what comes after it; no mnemonic *)
(* of a row contains it.                                                   *)
ResolveLr(line) ==
  LET at == {i \in DOMAIN line.tokens : line.tokens[i].name = "lr"}
      first == CHOOSE i \in at : \A j \in at : i <= j
      rest == SubSeq(line.tokens, first + 1, Len(line.tokens))
  IN IF line.mnemonic = Lr THEN Line(Ori, Append(line.tokens, Num(0)))
     ELSE IF at # {} THEN Line(Ori, Append(rest, Num(0)))
     ELSE line

spu_preprocess_resolve_aliases(line) ==
  ResolveLr(Line(line.mnemonic,
    ReplaceFirst(ReplaceFirst(line.tokens, "LR", 0), "SP", 1)))

(* Reading a number from the stream: at its end the target keeps its       *)
(* value; a name sets it to 0 and ends the reading.                        *)
ReadNumber(st) ==
  CASE st.rest = <<>> -> st
    [] st.rest # <<>> /\ IsNumber(Head(st.rest)) ->
         [st EXCEPT !.temp = Head(st.rest).value, !.rest = Tail(st.rest)]
    [] OTHER -> [st EXCEPT !.temp = 0, !.rest = <<>>]

(* An argument goes to its slot, a scaled one to the immediate's, too.     *)
Store(args, argt, value) ==
  CASE argt = A_P -> args
    [] argt = A_S18 -> [args EXCEPT ![argt] = value, ![A_S16] = value \div 4]
    [] argt = A_S14 -> [args EXCEPT ![argt] = value, ![A_S10] = value \div 16]
    [] OTHER -> [args EXCEPT ![argt] = value]

ReadArgument(st, argt) ==
  LET now == ReadNumber(st)
  IN [now EXCEPT !.args = Store(now.args, argt, now.temp)]

(* Every argument list of the opcode is read, one after the other. *)
ReadList(st, list) == FoldLeft(ReadArgument, [st EXCEPT !.temp = 0], list)

ReadArguments(tokens, lists) ==
  FoldLeft(ReadList,
           [args |-> [i \in 0 .. 21 |-> 0], rest |-> tokens, temp |-> 0],
           lists).args

(* RA of LBTI is taken from the slot of the immediate. *)
Pack(type, opcode, args) ==
  CASE type = "RRR" ->
         PackRRR(opcode, args[A_T], args[A_A], args[A_B], args[A_C])
    [] type = "RR" -> PackRR(opcode, args[A_T], args[A_A], args[A_B])
    [] type = "RI7" -> PackRI7(opcode, args[A_T], args[A_A], args[A_S7])
    [] type = "RI8" -> PackRI8(opcode, args[A_T], args[A_A], args[A_U7A])
    [] type = "RI10" -> PackRI10(opcode, args[A_T], args[A_A], args[A_S10])
    [] type = "RI16" -> PackRI16(opcode, args[A_T], args[A_S16])
    [] type = "RI18" -> PackRI18(opcode, args[A_T], args[A_U18])
    [] type = "LBT" -> PackLBT(opcode, args[A_S11], args[A_S16])
    [] type = "LBTI" -> PackLBTI(opcode, args[A_S11I], args[A_S16])

NotAssembled == WordOf(0, 0, 15, 127)   \* 0x7FF

Assemble(line, built) ==
  LET clean == spu_preprocess_resolve_aliases(line)
      found == IF clean.mnemonic \in Mnemonic THEN FoundAs[clean.mnemonic]
                                              ELSE {}
      opcode == CHOOSE o \in found : TRUE
  IN IF found = {} THEN NotAssembled
     ELSE Pack(Types[Decoded[opcode]], opcode,
               ReadArguments(clean.tokens, db_op_arglist(opcode, built)))

-----------------------------------------------------------------------------

(* reg2str *)
RegisterToken(r) ==
  CASE r = 0 -> Name("LR")
    [] r = 1 -> Name("SR")
    [] OTHER -> Num(r)

(* x | y of two bits each. *)
EitherBit(x, y) == IF x + y > 0 THEN 1 ELSE 0
Or2(x, y) == 2 * EitherBit(x \div 2, y \div 2) + EitherBit(x % 2, y % 2)

(* ((ROH << 2) | ROL) << 2, though ROL has 7 bits. *)
HintToken(roh, rol) ==
  Num(SignExtend(4 * (16 * (rol \div 16) + 4 * Or2((rol \div 4) % 4, roh)
                        + (rol % 4)), 2048))

(* Mutant: RB is printed before RA. *)
RRTokensSwapped(opcode, w) ==
  <<RegisterToken(w.t), RegisterToken(w.b), RegisterToken(w.a)>>

(* The mnemonic has been padded to 8 characters when it is compared with   *)
(* rdch, wrch, nop, bi, stop, lqd, ...: their own forms are never printed. *)
RRTokens(opcode, w) ==
  <<RegisterToken(w.t), RegisterToken(w.a), RegisterToken(w.b)>>

OperandTokens(opcode, type, w) ==
  CASE type = "RRR" ->
         <<RegisterToken(UpperRT(w)), RegisterToken(w.a), RegisterToken(w.b),
           RegisterToken(w.t)>>
    [] type = "RR" -> RRTokens(opcode, w)
    [] type = "RI7" ->
         <<RegisterToken(w.t), RegisterToken(w.a), Num(SignExtend(w.b, 128))>>
    [] type = "RI8" ->
         <<RegisterToken(w.t), RegisterToken(w.a), Num(SignExtend(I8(w), 256))>>
    [] type = "RI10" ->
         <<RegisterToken(w.t), RegisterToken(w.a),
           Num(SignExtend(I10(w), 1024))>>
    [] type = "RI16" -> <<RegisterToken(w.t), Num(SignExtend(I16(w), 65536))>>
    [] type = "RI18" -> <<RegisterToken(w.t), Num(I18(w))>>
    [] type = "LBT" ->
         <<HintToken(UpperROH(w), w.t), Num(SignExtend(4 * I16(w), 262144))>>
    [] OTHER -> <<HintToken(LowerROH(w), w.t), Num(w.a)>>

(* mnemonic.resize(8, ' '): the blanks after a short name separate it from *)
(* the operands; rotqmbybi, the only longer name, loses its last letter.   *)
Padded(mnemonic) == IF mnemonic = Rotqmbybi THEN Rotqmbyb ELSE mnemonic

Disassemble(w) ==
  LET opcode == Decoded[w.op]
  IN IF Types[opcode] = NoType THEN Line(Error, <<>>)
     ELSE Line(Padded(Mnemonics[opcode]),
               OperandTokens(opcode, Types[opcode], w))

-----------------------------------------------------------------------------

(* The text an input is written as: the parenthesis of imm(RA) separates   *)
(* two tokens and is none.                                                 *)
Written(input) ==
  Line(input.mnemonic,
       [i \in 1 .. Len(input.operands) |-> input.operands[i]])

Init ==
  /\ opcodes_parsed = FALSE
  /\ assembled = None /\ components = None /\ pseudo = None
  /\ \/ /\ given \in Inputs
        /\ text = Written(given)
        /\ word = None
     \/ /\ word \in Words
        /\ given = None
        /\ text = None

(* Mutant: the argument lists are read before anything has been looked up. *)
spu_assemble_lists_first ==
  /\ text # None /\ assembled = None
  /\ assembled' = Assemble(text, opcodes_parsed)
  /\ opcodes_parsed' = TRUE
  /\ UNCHANGED <<given, text, word, components, pseudo>>

(* The search for the mnemonic looks words up, so that the tables are      *)
(* there when the argument lists are read.                                 *)
spu_assemble ==
  /\ text # None /\ assembled = None
  /\ opcodes_parsed' = TRUE
  /\ assembled' = Assemble(text, opcodes_parsed')
  /\ UNCHANGED <<given, text, word, components, pseudo>>

spu_disassemble ==
  /\ word # None /\ text = None
  /\ opcodes_parsed' = TRUE
  /\ text' = Disassemble(word)
  /\ UNCHANGED <<given, assembled, word, components, pseudo>>

spu_decode_op_components ==
  /\ word # None /\ components = None
  /\ opcodes_parsed' = TRUE
  /\ components' = Components(Types[Decoded[word.op]], word)
  /\ UNCHANGED <<given, text, assembled, word, pseudo>>

(* ErrorUnknownInstruction, for a word without a mnemonic. *)
ErrorText == [left |-> {}, shown |-> [p \in {} |-> 0]]

PrintPseudo ==
  /\ word # None /\ pseudo = None
  /\ opcodes_parsed' = TRUE
  /\ LET opcode == Decoded[word.op]
         type == Types[opcode]
     IN pseudo' = IF Mnemonics[opcode] = NoMnemonic THEN ErrorText
                  ELSE spu_make_pseudo(opcode, type, Components(type, word), IP)
  /\ UNCHANGED <<given, text, assembled, word, components>>

Next ==
  \/ spu_assemble \/ spu_disassemble
  \/ spu_decode_op_components \/ PrintPseudo

Spec == Init /\ [][Next]_vars

-----------------------------------------------------------------------------

(* What an input means.  The operand of a kind, 0 if the mnemonic has none;*)
(* the aliases are LR for register 0 and SP for register 1.                *)
ValueOf(token) ==
  CASE token.name = "SP" -> 1
    [] OTHER -> token.value

OperandOf(input, kind) ==
  LET at == {i \in DOMAIN input.args : input.args[i] = kind}
  IN IF at = {} THEN 0
     ELSE ValueOf(input.operands[Place(input.args, CHOOSE i \in at : TRUE)])

Has(input, kind) == kind \in ToSet(input.args)

(* The word the pictures of spu-insns.h give an input: RRR's RC is the     *)
(* field above RB, addresses are in words or quadwords, the code of stop   *)
(* fills RA and RT.                                                        *)
Pictured(input) ==
  LET type == input.mnemonic[1]
      opcode == input.mnemonic[2]
      T == OperandOf(input, A_T)
      A == OperandOf(input, A_A)
      B == OperandOf(input, A_B)
      I == OperandOf(input, A_S7)
      Address == OperandOf(input, A_S18) \div 4
      Code == OperandOf(input, A_U14)
      Hint == OperandOf(input, A_S11) \div 4
  IN CASE type = "RRR" -> PackRRR(opcode, OperandOf(input, A_C), A, B, T)
       [] type = "RR" /\ Has(input, A_U14) ->
            PackRR(opcode, Code % 128, Code \div 128, 0)
       [] type = "RR" /\ ~Has(input, A_U14) -> PackRR(opcode, T, A, B)
       [] type = "RI7" -> PackRI7(opcode, T, A, I)
       [] type = "RI8" -> PackRI8(opcode, T, A, I)
       [] type = "RI10" /\ Has(input, A_S14) ->
            PackRI10(opcode, T, A, OperandOf(input, A_S14) \div 16)
       [] type = "RI10" /\ ~Has(input, A_S14) ->
            PackRI10(opcode, T, A, OperandOf(input, A_S10))
       [] type = "RI16" /\ Has(input, A_S18) -> PackRI16(opcode, T, Address)
       [] type = "RI16" /\ ~Has(input, A_S18) ->
            PackRI16(opcode, T, OperandOf(input, A_S16))
       [] type = "RI18" -> PackRI18(opcode, T, OperandOf(input, A_U18))
       [] type = "LBT" -> PackLBT(opcode, Hint, Address)
       [] type = "LBTI" -> PackLBTI(opcode, Hint, A)

(* The inputs that are lost on the way: mtspr, whose opcode is listed      *)
(* under the name of syscall; RRR, whose target and third source change    *)
(* places; hints, whose byte offsets are not made word offsets; RA of hbr, *)
(* read from the slot of an immediate; an operand of a second argument     *)
(* list, which is read when the line is used up, while that of syscall     *)
(* gives its three operands the one token the first list has left; and an  *)
(* alias used twice, of which the second use ends the reading.             *)
SecondList(opcode) ==
  IF Len(ArgLists[opcode]) > 1 THEN ToSet(ArgLists[opcode][2]) ELSE {}

AliasTwice(operands) ==
  \E i, j \in DOMAIN operands :
    /\ i < j
    /\ operands[i].name = operands[j].name
    /\ \/ operands[j].name = "SP"
       \/ operands[j].name = "LR"
          /\ \E k \in j + 1 .. Len(operands) : ValueOf(operands[k]) # 0

Garbled(input) ==
  LET type == input.mnemonic[1]
      T == OperandOf(input, A_T)
      A == OperandOf(input, A_A)
      I == OperandOf(input, A_S7)
      Hint == OperandOf(input, A_S11)
  IN \/ input.mnemonic = Mtspr
     \/ input.mnemonic = Syscall /\ ~(T = A /\ A = Cut(I, 128))
     \/ type = "RRR" /\ OperandOf(input, A_C) # T
     \/ type \in {"LBT", "LBTI"} /\ Cut(Hint, 512) # Cut(Hint \div 4, 512)
     \/ type = "LBTI" /\ A # 0
     \/ /\ input.mnemonic # Syscall
        /\ \E kind \in SecondList(input.mnemonic[2]) : OperandOf(input, kind) # 0
     \/ AliasTwice(input.operands)

(* A line is assembled to the word the pictures of spu-insns.h give it,    *)
(* except in exactly those cases.  The displacement forms come out right   *)
(* although the A_P of their lists reads the register: the register itself *)
(* is then read at the end of the line, and takes the value read last.     *)
AssemblesPictured ==
  assembled # None /\ given # None =>
    (assembled = Pictured(given) <=> ~Garbled(given))

(* The arguments in the order spu_disassemble prints them. *)
PrintedOrder(type) ==
  CASE type = "RR" -> <<A_T, A_A, A_B>>
    [] type \in {"RI7", "RI8"} -> <<A_T, A_A, A_S7>>
    [] type = "RI10" -> <<A_T, A_A, A_S10>>
    [] type = "RI16" -> <<A_T, A_S16>>
    [] type = "RI18" -> <<A_T, A_U18>>
    [] OTHER -> <<>>

(* The instructions written like that, and words of them whose remaining   *)
(* fields are empty.                                                       *)
PrintedAsRead(opcode, w) ==
  /\ Len(ArgLists[opcode]) = 1
  /\ LET list == ArgLists[opcode][1]
         tokens == OperandTokens(opcode, Types[opcode], w)
     IN /\ list # <<>> /\ IsPrefix(list, PrintedOrder(Types[opcode]))
        /\ \A i \in Len(list) + 1 .. Len(tokens) : tokens[i] = Name("LR")

(* What the assembler makes of a word's text is the word again, except     *)
(* that the name of rotqmbybi, cut to the column of the mnemonic, is not   *)
(* found, that register 1 is printed SR and read as SP, and that of two    *)
(* uses of LR the second ends the reading.                                 *)
ReadsBack ==
  word # None /\ assembled # None /\ PrintedAsRead(Decoded[word.op], word) =>
    LET opcode == Decoded[word.op]
        tokens == SubSeq(OperandTokens(opcode, Types[opcode], word),
                         1, Len(ArgLists[opcode][1]))
    IN assembled = word <=>
         /\ Mnemonics[opcode] # Rotqmbybi
         /\ Name("SR") \notin ToSet(tokens)
         /\ ~AliasTwice(tokens)

(* The components determine the word, but for the bits hbr does not use.   *)
(* The displacement of a hint is the signed one exactly when it is not     *)
(* negative.                                                               *)
ComponentsAreTheWord ==
  components # None =>
    LET opcode == Decoded[word.op]
        type == Types[opcode]
        hint == IF type = "LBT" THEN components.IMM ELSE components.BRTARG
    IN /\ type # NoType =>
            Used(type, word) = Repacked(opcode, type, components)
       /\ type \in {"LBT", "LBTI"} =>
            (hint = SignExtend(Cut(hint, 512), 512) <=> Cut(hint, 512) < 256)

(* The registers an instruction names, as the placeholders of its template *)
(* should; the table's names of RRR's RT and RC are exchanged.             *)
RegistersOf(opcode) ==
  LET kinds == UNION {ToSet(list) : list \in ToSet(ArgLists[opcode])}
      upper == Types[opcode] = "RRR"
  IN UNION {CASE kind = A_T -> {IF upper THEN "RC" ELSE "RT"}
              [] kind = A_C -> {"RT"}
              [] kind = A_A -> {"RA"}
              [] kind = A_B -> {"RB"}
              [] OTHER -> {} : kind \in kinds}

(* A channel is named by the field RA. *)
RegistersShown(p) ==
  {IF s = "CA" THEN "RA" ELSE s :
     s \in DOMAIN p.shown \cap {"RT", "RA", "RB", "RC", "CA"}}

(* RR instructions of two registers that have no template of their own. *)
TwoRegisters(opcode) ==
  /\ ArgLists[opcode] = <<<<A_T, A_A>>>>
  /\ opcode \notin DOMAIN CustomIntrins

(* Fewer than eight words away, and then only if half the way, too, ends   *)
(* in the line; the line of an address is the one of its 18 low bits.      *)
CloseBy(near) ==
  /\ near \in -7 .. 7
  /\ ((IP % 16) + 2 * near) \div 16 = ((IP % 16) + 4 * near) \div 16

(* The text shows the registers the instruction names, except: iohl shows  *)
(* an RA it does not have, mfspr an immediate for its RA, wrch the channel *)
(* twice and not the register written to it; iret, bisled, nop and fscrrd  *)
(* show too little, and so does fscrwr of its unused RT; and instructions  *)
(* of two registers show an RB.  The line of lqr and stqr is the one they  *)
(* access only close to the instruction: displacements count words.  No    *)
(* placeholder is left in any text, whatever template a mnemonic has.      *)
PseudoShowsOperands ==
  pseudo # None /\ Types[Decoded[word.op]] # NoType =>
    LET opcode == Decoded[word.op]
        near == SignExtend(I16(word), 65536)
    IN /\ pseudo.left = {}
       /\ RegistersShown(pseudo) = RegistersOf(opcode) <=>
            /\ opcode \notin {\h304, \h00c, \h10d, \h1aa, \h1ab, \h201,
                             \h398, \h3ba}
            /\ ~TwoRegisters(opcode)
       /\ opcode \in {\h19c, \h11c} =>
            (pseudo.shown.ADDR_REL = LineOf(IP + 4 * near) <=> CloseBy(near))
=============================================================================
