--------------------------- MODULE MCLaneMachine ----------------------------
(***************************************************************************)
(* Single instructions over operands at the edges of lanes, pairs of forms *)
(* that should agree, and insertions at every offset.                      *)
(***************************************************************************)
EXTENDS LaneMachine

I(op, t, a, b, c, n) == [op |-> op, t |-> t, a |-> a, b |-> b, c |-> c, n |-> n]

Words(w0, w1, w2, w3) ==
  Lanes(32, LAMBDA i : CASE i = 0 -> w0 [] i = 1 -> w1 [] i = 2 -> w2 [] OTHER -> w3)
N(n) == Bits(n, 32)
Halves(n, m) == Bits(n, 16) \cup {16 + b : b \in Bits(m, 16)}

(* Signs at both ends, equal and unequal neighbours, bytes of all kinds.   *)
Mixed == Words({31}, N(2 ^ 16 + 2 ^ 15 - 1), N(5), N(16909060))
Signs == Words({7, 15, 23, 31}, 0 .. 31, N(127), {31, 0})
Plain == Words(N(1), N(1), N(1), N(1))
Bytes == Words(N(66051), N(67438087), N(134810123), N(202182159))
Uneven == Words(N(65535), {}, N(65280), N(255))
Scattered == {b \in Bit : (b * b) % 7 < 2}
Sparse == {b \in Bit : (b * b) % 13 = 3}
Empty == {}
Data == {Mixed, Signs, Plain, Bytes, Uneven, Scattered, Sparse, Empty}

(* Counts below, at and behind the width of a halfword and of a word, of   *)
(* both signs, in every lane, and different ones in the preferred slot.    *)
Counts == {Words(N(0), N(1), N(16), N(3)), Words(N(31), N(32), N(33), N(63)),
           Words(N(64), N(-1), N(-16), N(-7)), Words(N(-31), N(-32), N(-33), N(0)),
           Words(Halves(1, 15), Halves(16, 17), Halves(31, 32), Halves(-3, -16))}
Imm7 == {0, 1, 3, 7, 8, 15, 16, 17, 31, 32, 33, 63, 64, 96, 112, 121, 127}
Imm10 == {-512, -256, -1, 0, 1, 5, 127, 255, 511}
Imm16 == {-32768, -256, -1, 0, 1, 258, 32767}

OfTwo == {"avgb", "absdb", "sumb", "eqv", "clgtb", "clgth", "clgt",
          "and", "nand", "or", "nor", "xor", "andc", "orc"}
OfOne == {"xsbh", "xshw", "xswd", "orx", "fsmb", "fsmh", "fsm", "gbb", "gbh", "gb",
          "cntb", "clz", "to_uint"}
ByCounts == {"rot", "roth", "rotqbi", "rothm", "rotmah", "rotm", "rotma", "rotqmbi",
             "shlh", "shl", "shlqbi"}
ByImm7 == {"rothi", "roti", "rotqbii", "rothmi", "rotmahi", "rotmi", "rotmai",
           "rotqmbii", "shlhi", "shli", "shlqbii"}

Of(xs, ys) == {<<x, y>> : x \in xs, y \in ys}
Same(xs) == {<<x, x>> : x \in xs}

SinglePrograms ==
  {[code |-> <<I(op, 4, 1, 2, 3, 0)>>, operands |-> Of(Data, Data)] : op \in OfTwo}
  \cup {[code |-> <<I(op, 4, 1, 2, 3, 0)>>, operands |-> {<<x>> : x \in Data}] : op \in OfOne}
  \cup {[code |-> <<I(op, 4, 1, 2, 3, 0)>>, operands |-> Of(Data, Counts)] : op \in ByCounts}
  \cup {[code |-> <<I(op, 4, 1, 2, 3, n)>>, operands |-> {<<x>> : x \in Data}] :
          op \in ByImm7, n \in Imm7}
  \cup {[code |-> <<I(op, 4, 1, 2, 3, n)>>, operands |-> {<<x>> : x \in Data}] :
          op \in {"iohl", "fsmbi"}, n \in Imm16}
  \cup {[code |-> <<I("selb", 4, 1, 2, 3, 0)>>,
         operands |-> {<<x, y, z>> : x \in Data, y \in Data, z \in {Mixed, Uneven, Empty}}]}

(* Program first computes into 6 what program second computes into 7. *)
Twice(first, second, operands) == {[code |-> first \o second, operands |-> operands]}

(* An immediate form and the register form on the loaded immediate. *)
ByImmediate(immediate, register, load, ns) ==
  {[code |-> <<I(immediate, 6, 1, 1, 1, n), I(load, 5, 1, 1, 1, n),
               I(register, 7, 1, 5, 1, 0)>>,
    operands |-> {<<x>> : x \in Data}] : n \in ns}
Imm8 == {-128, -1, 0, 1, 127}
BytePair(n) == (n % 256) * 257 - (IF n < 0 THEN 65536 ELSE 0)
ByImmediate8(immediate, register) ==
  {[code |-> <<I(immediate, 6, 1, 1, 1, n), I("ilh", 5, 1, 1, 1, BytePair(n)),
               I(register, 7, 1, 5, 1, 0)>>,
    operands |-> {<<x>> : x \in Data}] : n \in Imm8}

ImmediatePrograms ==
  UNION {ByImmediate8(p[1], p[2]) : p \in {<<"andbi", "and">>, <<"orbi", "or">>,
           <<"xorbi", "xor">>, <<"ceqbi", "ceqb">>, <<"cgtbi", "cgtb">>, <<"clgtbi", "clgtb">>}}
  \cup UNION {ByImmediate(p[1], p[2], "ilh", Imm10) : p \in {<<"ahi", "ah">>,
           <<"andhi", "and">>, <<"orhi", "or">>, <<"xorhi", "xor">>, <<"ceqhi", "ceqh">>,
           <<"cgthi", "cgth">>, <<"clgthi", "clgth">>}}
  \cup UNION {ByImmediate(p[1], p[2], "il", Imm10) : p \in {<<"andi", "and">>,
           <<"ori", "or">>, <<"xori", "xor">>, <<"ceqi", "ceq">>, <<"cgti", "cgt">>,
           <<"clgti", "clgt">>}}

R(op, t, a, b) == I(op, t, a, b, 1, 0)

IdentityPrograms ==
  LET two == Of(Data, Data) IN
  Twice(<<R("nand", 6, 1, 2)>>, <<R("and", 5, 1, 2), I("xori", 7, 5, 1, 1, -1)>>, two)
  \cup Twice(<<R("nor", 6, 1, 2)>>, <<R("or", 5, 1, 2), I("xori", 7, 5, 1, 1, -1)>>, two)
  \cup Twice(<<R("orc", 6, 1, 2)>>, <<R("nor", 5, 2, 2), R("or", 7, 1, 5)>>, two)
  \cup Twice(<<R("andc", 6, 1, 2)>>, <<R("nor", 5, 2, 2), R("and", 7, 1, 5)>>, two)
  \cup Twice(<<R("xor", 6, 1, 2)>>,
             <<R("andc", 4, 1, 2), R("andc", 5, 2, 1), R("or", 7, 4, 5)>>, two)
  \cup Twice(<<I("selb", 6, 1, 2, 3, 0)>>,
             <<R("andc", 4, 1, 3), R("and", 5, 2, 3), R("or", 7, 4, 5)>>,
             {<<x, y, z>> : x \in Data, y \in Data, z \in {Mixed, Uneven}})
  \cup Twice(<<R("sfh", 6, 1, 2)>>, <<I("sfhi", 5, 1, 1, 1, 0), R("ah", 7, 2, 5)>>, two)
  \cup Twice(<<R("ah", 6, 1, 2)>>, <<R("ah", 7, 2, 1)>>, two)
  \cup Twice(<<R("rot", 6, 1, 2)>>,
             <<R("shl", 4, 1, 2), I("andi", 5, 2, 1, 1, 31), I("ai", 5, 5, 1, 1, -32),
               R("rotm", 5, 1, 5), R("or", 7, 4, 5)>>, Of(Data, Counts))
  \cup Twice(<<R("clgth", 6, 1, 2)>>,
             <<I("ilh", 3, 1, 1, 1, -32768), R("xor", 4, 1, 3), R("xor", 5, 2, 3),
               R("cgth", 7, 4, 5)>>, two)
  \cup Twice(<<R("clgt", 6, 1, 2)>>,
             <<I("ilhu", 3, 1, 1, 1, -32768), R("xor", 4, 1, 3), R("xor", 5, 2, 3),
               R("cgt", 7, 4, 5)>>, two)
  \cup UNION {Twice(<<R(p[1], 4, 1, 1), R(p[2], 6, 4, 1)>>,
               <<I("ila", 3, 1, 1, 1, p[3]), R("and", 5, 1, 3),
                 R("nor", 2, 2, 2), R("and", 7, 5, 2)>>,
               {<<x, Ones \ InSlot(0 .. 31)>> : x \in Data}) :
          p \in {<<"fsmb", "gbb", 65535>>, <<"fsmh", "gbh", 255>>, <<"fsm", "gb", 15>>}}

InsertPrograms ==
  {[code |-> <<I(op, 5, 3, 1, 1, n), I("shufb", 6, 1, 2, 5, 0)>>,
    operands |-> {<<Bytes, Mixed, Words({}, {}, {}, N(base))>> : base \in {0, 5, 262143}}] :
     op \in {"cbd", "chd", "cwd", "cdd"}, n \in 0 .. 15 \cup {-1, -7, -16}}
  \cup
  {[code |-> <<I(op, 5, 3, 4, 1, 0), I("shufb", 6, 1, 2, 5, 0)>>,
    operands |-> {<<Bytes, Signs, Words({}, {}, {}, N(i)), Words({}, {}, {}, N(j))>> :
                    i \in {0, 9, 240}, j \in 0 .. 15}] :
     op \in {"cbx", "chx", "cwx", "cdx"}}

MCPrograms ==
  SinglePrograms \cup ImmediatePrograms \cup IdentityPrograms \cup InsertPrograms
=============================================================================
