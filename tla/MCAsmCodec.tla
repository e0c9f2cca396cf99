----------------------------- MODULE MCAsmCodec -----------------------------
EXTENDS AsmCodec

(* The tokens an operand is tried with. *)
TokensOf(kind) ==
  CASE kind = A_T -> {Num(5), Name("LR")}
    [] kind = A_A -> {Num(127), Num(5), Name("LR"), Name("SP")}
    [] kind = A_B -> {Num(9), Name("SP")}
    [] kind = A_C -> {Num(3), Name("LR")}
    [] kind = A_S7 -> {Num(-3), Num(5), Num(100)}
    [] kind = A_S10 -> {Num(-512), Num(300)}
    [] kind = A_S14 -> {Num(-8192), Num(4800)}
    [] kind = A_S16 -> {Num(-2), Num(20000)}
    [] kind = A_U18 -> {Num(200000), Num(7)}
    [] kind = A_S11 -> {Num(-1024), Num(412)}
    [] kind = A_U14 -> {Num(0), Num(16383)}
    [] kind = A_S18 -> {Num(-131072), Num(65540)}

(* Every way to write the arguments of a list. *)
OperandLists(list) ==
  LET kinds == SelectSeq(list, LAMBDA k : k # A_P)
  IN {ops \in [DOMAIN kinds -> UNION {TokensOf(kinds[i]) : i \in DOMAIN kinds}] :
        \A i \in DOMAIN kinds : ops[i] \in TokensOf(kinds[i])}

MCInputs ==
  UNION {UNION {{[mnemonic |-> m, args |-> RowsOf[m[2]][i].args, operands |-> ops] :
                   ops \in OperandLists(RowsOf[m[2]][i].args)} :
                  i \in {j \in DOMAIN RowsOf[m[2]] : RowsOf[m[2]][j].format = m[1]}} :
           m \in Mnemonic}

(* Words of every instruction, with operand fields at and near the limits; *)
(* and two words of none.                                                  *)
MCWords ==
  {WordOf(45, 0, 0, 0), NotAssembled} \cup
  UNION {{WordOf(m[2] + x, b, a, t) :
            x \in {0, 2^Db!OperandBits(m[1]) - 1},
            b \in {0, 5, 127}, a \in {0, 1, 3, 127}, t \in {0, 1, 9}} :
           m \in Mnemonic}
=============================================================================
