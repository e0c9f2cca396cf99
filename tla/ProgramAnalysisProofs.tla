----------------------- MODULE ProgramAnalysisProofs ------------------------
(***************************************************************************)
(* What spu_execute gathers about a program is right for programs of any   *)
(* length, any bounds of the search for basic blocks and any content of    *)
(* the memory behind a program.  The inductive invariant is IInv of        *)
(* ProgramAnalysis; the basic blocks come from BasicBlocksProofs.          *)
(***************************************************************************)
EXTENDS ProgramAnalysis, FiniteSetTheorems, SequenceTheorems,
        WellFoundedInduction, NaturalsInduction, TLAPS

BP == INSTANCE BasicBlocksProofs WITH
  IsBrach <- {w \in Word : EndsBlock(w)}, Binary <- Memory, pc <- bpc

-----------------------------------------------------------------------------

(* The decoder finds an opcode for every word. *)
LEMMA MaskedOpcode ==
  ASSUME NEW op \in Opcode
  PROVE  /\ Db!Masked(op, 7) \in Opcode /\ Db!Masked(op, 4) \in Opcode
         /\ Db!Masked(op, 3) \in Opcode /\ Db!Masked(op, 2) \in Opcode
         /\ Db!Masked(op, 1) \in Opcode
<1>1. /\ Db!Masked(op, 7) = op - (op % 128) /\ Db!Masked(op, 4) = op - (op % 16)
      /\ Db!Masked(op, 3) = op - (op % 8) /\ Db!Masked(op, 2) = op - (op % 4)
      /\ Db!Masked(op, 1) = op - (op % 2)
  <2>1. 2^7 = 128
    OBVIOUS
  <2>2. 2^4 = 16
    OBVIOUS
  <2>3. 2^3 = 8
    OBVIOUS
  <2>4. 2^2 = 4 /\ 2^1 = 2
    OBVIOUS
  <2> QED
    BY <2>1, <2>2, <2>3, <2>4, Zenon DEF Db!Masked
<1>2. op - (op % 128) \in Opcode
  BY DEF Opcode
<1>3. op - (op % 16) \in Opcode
  BY DEF Opcode
<1>4. op - (op % 8) \in Opcode
  BY DEF Opcode
<1>5. op - (op % 4) \in Opcode
  BY DEF Opcode
<1>6. op - (op % 2) \in Opcode
  BY DEF Opcode
<1> QED
  BY <1>1, <1>2, <1>3, <1>4, <1>5, <1>6

LEMMA OpcodeType ==
  ASSUME NEW w \in Word
  PROVE  OpcodeOf(w) \in Opcode
<1> DEFINE op == w.op
           a7 == Db!Masked(op, 7)
           a4 == Db!Masked(op, 4)
           a3 == Db!Masked(op, 3)
           a2 == Db!Masked(op, 2)
           a1 == Db!Masked(op, 1)
<1>1. op \in Opcode /\ 2047 \in Opcode
  BY DEF Opcode, Word
<1>2. /\ a7 \in Opcode /\ a4 \in Opcode /\ a3 \in Opcode /\ a2 \in Opcode
      /\ a1 \in Opcode
  BY <1>1, MaskedOpcode
<1>3. Db!Lookup(Types, op) \in {op, a7, a4, a3, a2, a1, 2047}
  BY DEF Db!Lookup, Db!Unknown
<1>4. OpcodeOf(w) = Db!Lookup(Types, op)
  BY <1>1 DEF OpcodeOf, Decoded
<1> HIDE DEF a7, a4, a3, a2, a1, op
<1> QED
  BY <1>1, <1>2, <1>3, <1>4

(* A word's mnemonic is its format with its opcode. *)
LEMMA TypeOfMnemonic ==
  ASSUME NEW w \in Word, NEW f \in Format, NEW o \in Opcode,
         MnemonicOf(w) = <<f, o>>
  PROVE  TypeOf(w) = f /\ OpcodeOf(w) = o
<1> DEFINE d == OpcodeOf(w)
<1>1. d \in Opcode
  BY OpcodeType
<1>2. Mnemonics[d] = <<f, o>>
  BY DEF MnemonicOf
<1> HIDE DEF d
<1>3. RowsOf[d] # <<>>
  BY <1>1, <1>2, NoMnemonicAssumption DEF Mnemonics
<1>4. <<Last(RowsOf[d]).format, d>> = <<f, o>>
  BY <1>1, <1>2, <1>3 DEF Mnemonics
<1>5. d = o /\ Last(RowsOf[d]).format = f
  BY <1>4
<1>6. Types[d] = f
  BY <1>1, <1>3, <1>5 DEF Types
<1> QED
  BY <1>5, <1>6 DEF d, TypeOf

(* The operands that are looked at, by format. *)
LEMMA OperandsRead ==
  ASSUME NEW w \in Word
  PROVE  /\ TypeOf(w) = "RI16" =>
              /\ ComponentsOf(w).IMM = SignExtend(I16(w), 65536)
              /\ ComponentsOf(w).IMM \in Int
         /\ TypeOf(w) \in {"RI10", "RR"} => ComponentsOf(w).RA = w.a
<1>1. I16(w) \in Int
  <2>1. w.op \in Int /\ w.b \in Int /\ w.a \in Int
    BY DEF Word
  <2>2. w.op % 4 \in Int
    BY <2>1
  <2> QED
    BY <2>1, <2>2 DEF I16
<1>2. SignExtend(I16(w), 65536) \in Int
  BY <1>1 DEF SignExtend
<1>3. TypeOf(w) = "RI16" => ComponentsOf(w).IMM = SignExtend(I16(w), 65536)
  BY DEF ComponentsOf, Components, Operands
<1>4. TypeOf(w) = "RI10" => ComponentsOf(w).RA = w.a
  BY DEF ComponentsOf, Components, Operands
<1>5. TypeOf(w) = "RR" => ComponentsOf(w).RA = w.a
  BY DEF ComponentsOf, Components, Operands
<1> QED
  BY <1>2, <1>3, <1>4, <1>5

(* The instructions this module asks for have operands of those formats.   *)
LEMMA MnemonicsRead ==
  ASSUME NEW w \in Word
  PROVE  /\ MnemonicOf(w) \in {br, brsl, lqa, lqr, stqa, stqr, brz, brnz, brhz,
                               brhnz}
              => /\ ComponentsOf(w).IMM = SignExtend(I16(w), 65536)
                 /\ ComponentsOf(w).IMM \in Int
         /\ MnemonicOf(w) \in {lqd, lqx, stqd, stqx} => ComponentsOf(w).RA = w.a
<1>1. {"RI16", "RI10", "RR"} \subseteq Format
  BY DEF Format
<1>2. MnemonicOf(w) \in {br, brsl, lqa, lqr, stqa, stqr, brz, brnz, brhz, brhnz}
        => TypeOf(w) = "RI16"
  <2>1. \A o \in Opcode : MnemonicOf(w) = <<"RI16", o>> => TypeOf(w) = "RI16"
    BY <1>1, TypeOfMnemonic
  <2> QED
    BY <2>1 DEF Opcode, br, brsl, lqa, lqr, stqa, stqr, brz, brnz, brhz, brhnz
<1>3. MnemonicOf(w) \in {lqd, stqd} => TypeOf(w) = "RI10"
  <2>1. \A o \in Opcode : MnemonicOf(w) = <<"RI10", o>> => TypeOf(w) = "RI10"
    BY <1>1, TypeOfMnemonic
  <2> QED
    BY <2>1 DEF Opcode, lqd, stqd
<1>4. MnemonicOf(w) \in {lqx, stqx} => TypeOf(w) = "RR"
  <2>1. \A o \in Opcode : MnemonicOf(w) = <<"RR", o>> => TypeOf(w) = "RR"
    BY <1>1, TypeOfMnemonic
  <2> QED
    BY <2>1 DEF Opcode, lqx, stqx
<1> QED
  BY <1>2, <1>3, <1>4, OperandsRead

(* The word 0 ends a block. *)
LEMMA ZeroEndsBlock == Zero \in Word /\ EndsBlock(Zero)
<1>1. Zero \in Word /\ Zero.op = 0
  BY DEF Zero, WordOf, Word
<1>2. MnemonicOf(Zero) = <<"RR", 0>>
  BY <1>1, TableAssumption DEF MnemonicOf, OpcodeOf
<1> QED
  BY <1>1, <1>2 DEF EndsBlock, STOP, Indirect

(* Every return, jump or stop the classifiers know ends a block, but stopd.*)
LEMMA ClassifiedEndsBlock ==
  ASSUME NEW w \in Word,
         \/ IsUnconditionalReturn(w) \/ IsConditionalReturn(w)
         \/ GetJumpAmount(w) # 0 \/ IsSTOP(w)
  PROVE  EndsBlock(w) \/ w.op = 320
<1>1. CASE IsUnconditionalReturn(w) \/ IsConditionalReturn(w)
  <2>1. OpcodeOf(w) \in {\h1a8, \h128, \h129, \h12a, \h12b}
    BY <1>1 DEF IsUnconditionalReturn, IsConditionalReturn, ReturnsThroughLR
  <2>2. MnemonicOf(w) = <<"RR", OpcodeOf(w)>>
    BY <2>1, TableAssumption DEF MnemonicOf
  <2> QED
    BY <2>1, <2>2 DEF EndsBlock, BR_RR, Indirect
<1>2. CASE GetJumpAmount(w) # 0
  <2>1. OpcodeOf(w) \in {\h100, \h108, \h110, \h118, \h190}
    BY <1>2 DEF GetJumpAmount
  <2>2. MnemonicOf(w) = <<"RI16", OpcodeOf(w)>>
    BY <2>1, TableAssumption DEF MnemonicOf
  <2> QED
    BY <2>1, <2>2 DEF EndsBlock, BR_I16, Relative
<1>3. CASE IsSTOP(w) /\ w.op # 320
  <2>1. w.op = 0
    BY <1>3 DEF IsSTOP
  <2>2. MnemonicOf(w) = <<"RR", 0>>
    BY <2>1, TableAssumption DEF MnemonicOf, OpcodeOf
  <2> QED
    BY <2>2 DEF EndsBlock, STOP, Indirect
<1> QED
  BY <1>1, <1>2, <1>3

-----------------------------------------------------------------------------

(* Programs and their positions. *)
LEMMA ProgramFacts ==
  ASSUME program \in Programs
  PROVE  /\ Size \in Nat /\ Size <= UInt
         /\ program.Binary \in [Position -> Word]
         /\ IsFiniteSet(Position)
         /\ EntryPosition \in Nat
<1>1. /\ Size \in Nat /\ Size <= UInt /\ program.Binary \in [0 .. Size - 1 -> Word]
      /\ program.EntryPoint \in Nat /\ program.VirtualBaseAddress \in Nat
      /\ program.EntryPoint >= program.VirtualBaseAddress
  BY ProgramsAssumption DEF Size
<1>2. IsFiniteSet(0 .. Size - 1)
  BY <1>1, FS_Interval
<1>3. EntryPosition \in Nat
  <2> DEFINE d == program.EntryPoint - program.VirtualBaseAddress
  <2>1. d \in Nat
    BY <1>1
  <2> HIDE DEF d
  <2>2. d \div 4 \in Nat
    BY <2>1
  <2> QED
    BY <2>2 DEF d, EntryPosition
<1> QED
  BY <1>1, <1>2, <1>3 DEF Position

(* The words the search for blocks reads, behind the program, too. *)
LEMMA MemoryType ==
  ASSUME TypeOK
  PROVE  Memory \in [Begin .. End - 1 -> Word]
<1>1. \A i \in Searched : i < Size => program.Binary[i] \in Word
  BY ProgramFacts, BoundsAssumption DEF TypeOK, Searched, Position
<1>2. \A i \in Searched : ~(i < Size) => heap[i] \in Word
  BY ProgramFacts, BoundsAssumption, GarbageAssumption DEF TypeOK, Searched
<1> QED
  BY <1>1, <1>2 DEF Memory, Searched

(* A position a branch leads to is a uint32_t. *)
LEMMA TargetType ==
  ASSUME NEW i \in Int, NEW imm \in Int
  PROVE  Target(i, imm) \in 0 .. UInt - 1
<1> DEFINE x == i + imm
<1>1. x \in Int /\ UInt \in Nat \ {0}
  BY UIntAssumption
<1> HIDE DEF x
<1>2. x % UInt \in 0 .. UInt - 1
  BY <1>1
<1> QED
  BY <1>2 DEF x, Target

(* Below UInt, positions one ahead are different if they are. *)
LEMMA NextPosition ==
  ASSUME NEW i \in 0 .. UInt - 1, NEW j \in 0 .. UInt - 1,
         Target(i, 1) = Target(j, 1)
  PROVE  i = j
<1>1. \A k \in 0 .. UInt - 1 : Target(k, 1) = IF k = UInt - 1 THEN 0 ELSE k + 1
  <2> TAKE k \in 0 .. UInt - 1
  <2>1. CASE k = UInt - 1
    BY <2>1, UIntAssumption DEF Target
  <2>2. CASE k # UInt - 1
    BY <2>2, UIntAssumption DEF Target
  <2> QED
    BY <2>1, <2>2
<1> QED
  BY <1>1, UIntAssumption

(* What the blocks of conditional branches are. *)
LEMMA BranchFacts ==
  ASSUME program \in Programs, NEW i \in ConditionalAt
  PROVE  LET x == Branch(i, program.Binary[i])
         IN /\ i \in Position /\ i \in 0 .. UInt - 1
            /\ x.AdvanceAmount \in Int
            /\ x.BranchBlockBegin \in Int /\ x.BranchBlockEnd \in Int
            /\ x.AdvanceAmount > 0 => x.BranchBlockBegin = i
            /\ ~(x.AdvanceAmount > 0) => x.BranchBlockEnd = Target(i, 1)
<1> DEFINE w == program.Binary[i]
           imm == ComponentsOf(w).IMM
<1>1. i \in Position /\ i \in 0 .. UInt - 1
  BY ProgramFacts, UIntAssumption DEF ConditionalAt, Position
<1>2. w \in Word /\ MnemonicOf(w) \in {brz, brnz, brhz, brhnz}
  BY <1>1, ProgramFacts DEF ConditionalAt
<1>3. imm \in Int
  BY <1>2, MnemonicsRead
<1> HIDE DEF imm
<1>4. Target(i, imm) \in Int /\ Target(i, 1) \in Int /\ i \in Int
  <2>1. i \in Int /\ 1 \in Int
    BY <1>1, UIntAssumption
  <2>2. Target(i, imm) \in 0 .. UInt - 1 /\ Target(i, 1) \in 0 .. UInt - 1
    BY <1>3, <2>1, TargetType
  <2> QED
    BY <2>1, <2>2, UIntAssumption
<1>5. Branch(i, w) = [AdvanceAmount |-> imm,
      BranchBlockBegin |-> IF imm > 0 THEN i ELSE Target(i, imm),
      BranchBlockEnd |-> IF imm > 0 THEN Target(i, imm) ELSE Target(i, 1)]
  BY DEF Branch, imm
<1> QED
  BY <1>1, <1>3, <1>4, <1>5

(* Branches at different positions are different. *)
LEMMA BranchInjective ==
  ASSUME program \in Programs, NEW i \in ConditionalAt, NEW j \in ConditionalAt,
         Branch(i, program.Binary[i]) = Branch(j, program.Binary[j])
  PROVE  i = j
<1> DEFINE x == Branch(i, program.Binary[i])
<1>1. CASE x.AdvanceAmount > 0
  BY <1>1, BranchFacts
<1>2. CASE ~(x.AdvanceAmount > 0)
  <2>1. Target(i, 1) = Target(j, 1) /\ i \in 0 .. UInt - 1 /\ j \in 0 .. UInt - 1
    BY <1>2, BranchFacts
  <2> QED
    BY <2>1, NextPosition
<1> QED
  BY <1>1, <1>2

(* There are as many branches as instructions that are one. *)
LEMMA BranchesCounted ==
  ASSUME program \in Programs
  PROVE  /\ IsFiniteSet(ConditionalAt) /\ IsFiniteSet(Conditional)
         /\ Cardinality(Conditional) = Cardinality(ConditionalAt)
         /\ Cardinality(Conditional) \in Nat
<1> DEFINE f == [i \in ConditionalAt |-> Branch(i, program.Binary[i])]
<1>1. ConditionalAt \in SUBSET Position
  BY DEF ConditionalAt
<1>2. IsFiniteSet(ConditionalAt)
  BY <1>1, ProgramFacts, FS_Subset
<1>3. f \in Surjection(ConditionalAt, Conditional)
  BY DEF Surjection, Conditional
<1>4. f \in Injection(ConditionalAt, Conditional)
  <2>1. f \in [ConditionalAt -> Conditional]
    BY DEF Conditional
  <2>2. \A i, j \in ConditionalAt : f[i] = f[j] => i = j
    BY BranchInjective
  <2> QED
    BY <2>1, <2>2 DEF Injection, IsInjective
<1> HIDE DEF f
<1>5. /\ IsFiniteSet(Conditional)
      /\ Cardinality(Conditional) = Cardinality(ConditionalAt)
  BY <1>2, <1>3, <1>4, FS_Surjection
<1>6. Cardinality(Conditional) \in Nat
  BY <1>5, FS_CardinalityType
<1> QED
  BY <1>2, <1>5, <1>6

-----------------------------------------------------------------------------

(* A set of naturals that is not empty has a least element. *)
LEMMA Least ==
  ASSUME NEW S \in SUBSET Nat, S # {}
  PROVE  \E m \in S : \A k \in S : m <= k
<1> DEFINE R == {ss \in Nat \X Nat : ss[1] < ss[2]}
<1>1. IsWellFoundedOn(R, Nat)
  BY NatLessThanWellFounded DEF OpToRel
<1>2. \A x, y \in Nat : <<x, y>> \in R <=> x < y
  OBVIOUS
<1> HIDE DEF R
<1>3. PICK m \in S : \A y \in S : ~ (<<y, m>> \in R)
  BY <1>1, WFMin
<1>4. ASSUME NEW k \in S PROVE m <= k
  <2>1. k \in Nat /\ m \in Nat
    OBVIOUS
  <2>2. ~ (<<k, m>> \in R)
    BY <1>3
  <2>3. <<k, m>> \in R <=> k < m
    BY <1>2, <2>1
  <2> QED
    BY <2>1, <2>2, <2>3
<1> QED
  BY <1>4

(* A finite set of integers can be listed by counting what is smaller: the *)
(* list is strictly ascending and leaves nothing out.                      *)
LEMMA AscendingIs ==
  ASSUME NEW S \in SUBSET Int, IsFiniteSet(S)
  PROVE  LET n == Cardinality(S)
             s == Ascending(S)
         IN /\ n \in Nat /\ s \in [1 .. n -> S]
            /\ \A k, m \in 1 .. n : k < m => s[k] < s[m]
            /\ \A x \in S : \E k \in 1 .. n : s[k] = x
<1> DEFINE n == Cardinality(S)
           Below(x) == {y \in S : y < x}
           r == [x \in S |-> Cardinality(Below(x))]
           s == Ascending(S)
<1>1. n \in Nat /\ \A x \in S : x \in Int
  BY FS_CardinalityType
<1>2. ASSUME NEW x \in S
      PROVE  IsFiniteSet(Below(x)) /\ r[x] \in Nat /\ r[x] < n
  <2>1. Below(x) \in SUBSET S /\ x \notin Below(x)
    OBVIOUS
  <2>2. /\ IsFiniteSet(Below(x)) /\ Cardinality(Below(x)) <= n
        /\ Cardinality(Below(x)) # n
    BY <2>1, FS_Subset
  <2>3. Cardinality(Below(x)) \in Nat
    BY <2>2, FS_CardinalityType
  <2> QED
    BY <1>1, <2>2, <2>3
<1>3. ASSUME NEW x \in S, NEW z \in S, x < z PROVE r[x] < r[z]
  <2>1. Below(x) \in SUBSET Below(z) /\ x \in Below(z) /\ x \notin Below(x)
    <3>1. x \in Int /\ z \in Int /\ ~(x < x)
      BY <1>1
    <3>2. ASSUME NEW y \in S, y < x PROVE y < z
      <4>1. y \in Int
        BY <1>1
      <4> QED
        BY <1>3, <3>1, <3>2, <4>1
    <3> QED
      BY <1>3, <3>1, <3>2
  <2>2. /\ Cardinality(Below(x)) <= Cardinality(Below(z))
        /\ Cardinality(Below(x)) # Cardinality(Below(z))
    BY <1>2, <2>1, FS_Subset
  <2>3. r[x] = Cardinality(Below(x)) /\ r[z] = Cardinality(Below(z))
    OBVIOUS
  <2>4. r[x] \in Nat /\ r[z] \in Nat
    BY <1>2
  <2> HIDE DEF r, Below
  <2> QED
    BY <2>2, <2>3, <2>4
<1>4. /\ s = [k \in 1 .. n |->
             CHOOSE x \in S : Cardinality({y \in S : y < x}) = k - 1]
      /\ \A x \in S : r[x] = Cardinality({y \in S : y < x})
  BY DEF Ascending
<1>5. r \in [S -> 0 .. n - 1]
  <2>1. \A x \in S : r[x] \in 0 .. n - 1
    BY <1>1, <1>2
  <2> QED
    BY <2>1
<1> HIDE DEF r, s, Below
<1>6. \A x, z \in S : r[x] = r[z] => x = z
  <2> SUFFICES ASSUME NEW x \in S, NEW z \in S, r[x] = r[z], x # z PROVE FALSE
    OBVIOUS
  <2>1. x < z \/ z < x
    OBVIOUS
  <2>2. r[x] \in Nat /\ r[z] \in Nat
    BY <1>2
  <2> QED
    BY <1>3, <2>1, <2>2
<1>7. r \in Surjection(S, 0 .. n - 1)
  <2>1. r \in Injection(S, 0 .. n - 1)
    BY <1>5, <1>6 DEF Injection, IsInjective
  <2>2. IsFiniteSet(0 .. n - 1) /\ Cardinality(0 .. n - 1) = n
    BY <1>1, FS_Interval
  <2> QED
    BY <2>1, <2>2, FS_Injection
<1>8. ASSUME NEW k \in 1 .. n PROVE s[k] \in S /\ r[s[k]] = k - 1
  <2>1. k - 1 \in 0 .. n - 1
    BY <1>1
  <2>2. PICK x \in S : r[x] = k - 1
    BY <1>7, <2>1 DEF Surjection
  <2>3. s[k] = CHOOSE y \in S : Cardinality({z \in S : z < y}) = k - 1
    BY <1>4
  <2>4. Cardinality({z \in S : z < x}) = k - 1
    BY <1>4, <2>2
  <2>5. s[k] \in S /\ Cardinality({z \in S : z < s[k]}) = k - 1
    BY <2>3, <2>4
  <2> QED
    BY <1>4, <2>5
<1>9. s \in [1 .. n -> S]
  BY <1>4, <1>8
<1>10. ASSUME NEW k \in 1 .. n, NEW m \in 1 .. n, k < m PROVE s[k] < s[m]
  <2>1. s[k] \in S /\ s[m] \in S /\ r[s[k]] = k - 1 /\ r[s[m]] = m - 1
    BY <1>8
  <2> DEFINE x == s[k]
             z == s[m]
  <2>2. /\ x \in S /\ z \in S /\ x \in Int /\ z \in Int
        /\ r[x] = k - 1 /\ r[z] = m - 1
    BY <1>1, <2>1
  <2> HIDE DEF x, z
  <2>3. z < x => r[z] < r[x]
    BY <1>3, <2>2
  <2>4. ~(z < x)
    BY <1>1, <1>10, <2>2, <2>3
  <2>5. x # z
    BY <1>1, <1>10, <2>2
  <2>6. x < z
    BY <2>2, <2>4, <2>5
  <2> QED
    BY <2>6 DEF x, z
<1>11. ASSUME NEW x \in S PROVE \E k \in 1 .. n : s[k] = x
  <2> DEFINE k == r[x] + 1
  <2>1. k \in 1 .. n /\ k - 1 = r[x]
    BY <1>1, <1>2
  <2> HIDE DEF k
  <2>2. s[k] \in S /\ r[s[k]] = r[x]
    BY <1>8, <2>1
  <2> QED
    BY <1>6, <2>1, <2>2
<1> QED
  BY <1>1, <1>9, <1>10, <1>11 DEF s

(* The begins of functions. *)
Begins == Callees \cup {EntryPosition}

LEMMA BeginsFacts ==
  ASSUME program \in Programs
  PROVE  /\ Begins \in SUBSET Nat /\ Begins \in SUBSET Int /\ IsFiniteSet(Begins)
         /\ EntryPosition \in Begins
<1> DEFINE P == PositionsOf(brsl)
           imm(i) == ComponentsOf(program.Binary[i]).IMM
           f == [i \in P |-> Target(i, imm(i))]
<1>1. P \in SUBSET Position /\ IsFiniteSet(P)
  BY ProgramFacts, FS_Subset DEF PositionsOf
<1>2. Callees = {f[i] : i \in P}
  BY DEF Callees, PositionsOf
<1>3. ASSUME NEW i \in P PROVE f[i] \in Nat
  <2>1. i \in Int /\ program.Binary[i] \in Word
    BY <1>1, ProgramFacts DEF Position
  <2>2. imm(i) \in Int
    BY <2>1, MnemonicsRead DEF PositionsOf
  <2>3. Target(i, imm(i)) \in 0 .. UInt - 1
    BY <2>1, <2>2, TargetType
  <2> QED
    BY <2>3
<1>4. f \in Surjection(P, Callees)
  BY <1>2 DEF Surjection
<1> HIDE DEF f, P
<1>5. IsFiniteSet(Callees)
  BY <1>1, <1>4, FS_Surjection
<1>6. Callees \in SUBSET Nat
  BY <1>2, <1>3
<1>7. IsFiniteSet({EntryPosition})
  BY FS_Singleton
<1>8. IsFiniteSet(Begins)
  BY <1>5, <1>7, FS_Union DEF Begins
<1>9. EntryPosition \in Nat
  BY ProgramFacts
<1>10. Begins \in SUBSET Nat /\ EntryPosition \in Begins
  BY <1>6, <1>9 DEF Begins
<1>11. Begins \in SUBSET Int
  BY <1>10
<1> QED
  BY <1>8, <1>10, <1>11

(* The ranges of functions lie one behind the other, each word from the    *)
(* first begin on is in one, and each begin begins one.                    *)
LEMMA RangesTile ==
  ASSUME program \in Programs,
         info.FunctionRanges = Ranges(Ascending(Begins), Size)
  PROVE  LET F == ToSet(info.FunctionRanges)
         IN /\ \A i \in Position :
                 Cardinality(RangesWith(i)) =
                   IF \E f \in F : f.begin <= i THEN 1 ELSE 0
            /\ \A t \in Begins : \E f \in BeginsAt(t) : t < Size => f \in RangesWith(t)
            /\ (\A f \in F : f.begin < f.end /\ f.end <= Size)
                 <=> Begins \subseteq Position
            /\ \A i \in Position : BeginsAt(i) # {} <=> i \in Begins
<1> DEFINE F == ToSet(info.FunctionRanges)
           n == Cardinality(Begins)
           s == Ascending(Begins)
           e(k) == IF k < n THEN s[k + 1] ELSE Size
           g(k) == [begin |-> s[k], end |-> e(k)]
<1>1. /\ n \in Nat /\ s \in [1 .. n -> Begins]
      /\ \A k, m \in 1 .. n : k < m => s[k] < s[m]
      /\ \A x \in Begins : \E k \in 1 .. n : s[k] = x
  BY BeginsFacts, AscendingIs
<1>2. Size \in Nat /\ Begins \in SUBSET Nat /\ EntryPosition \in Begins
  BY ProgramFacts, BeginsFacts
<1> HIDE DEF s, n
<1>3. \A k \in 1 .. n : s[k] \in Begins /\ s[k] \in Nat
  BY <1>1, <1>2
<1>4. s \in Seq(Begins) /\ Len(s) = n
  BY <1>1
<1>5. info.FunctionRanges = [k \in 1 .. n |-> g(k)]
  BY <1>1, <1>4 DEF Ranges, s
<1>6. F = {g(k) : k \in 1 .. n}
  BY <1>5 DEF ToSet
<1>7. \A k \in 1 .. n : e(k) \in Nat /\ (k < n => k + 1 \in 1 .. n /\ s[k] < e(k))
  <2> TAKE k \in 1 .. n
  <2>1. CASE k < n
    <3>1. k + 1 \in 1 .. n /\ k < k + 1
      BY <1>1, <2>1
    <3> QED
      BY <1>1, <1>3, <2>1, <3>1
  <2>2. CASE ~(k < n)
    BY <1>2, <2>2
  <2> QED
    BY <2>1, <2>2
<1>8. n \in 1 .. n
  <2>1. PICK k \in 1 .. n : s[k] = EntryPosition
    BY <1>1, <1>2
  <2> QED
    BY <1>1, <2>1
<1>9. ASSUME NEW i \in Position
      PROVE  Cardinality(RangesWith(i)) = IF \E f \in F : f.begin <= i THEN 1 ELSE 0
  <2>1. i \in Nat /\ i < Size
    BY <1>2 DEF Position
  <2>2. CASE ~(\E f \in F : f.begin <= i)
    <3>1. RangesWith(i) = {}
      BY <2>2 DEF RangesWith
    <3> QED
      BY <2>2, <3>1, FS_EmptySet
  <2>3. CASE \E f \in F : f.begin <= i
    <3>1. PICK j \in 1 .. n : s[j] <= i
      BY <1>6, <2>3
    <3> DEFINE L == {k \in 1 .. n : i < e(k)}
    <3>2. n \in L /\ L \in SUBSET Nat
      BY <1>1, <1>8, <2>1
    <3>3. PICK k \in L : \A m \in L : k <= m
      BY <3>2, Least
    <3>4. k \in 1 .. n /\ i < e(k)
      BY <3>3
    <3>5. s[k] <= i
      <4>1. CASE k = 1
        <5>1. j = 1 \/ s[1] < s[j]
          BY <1>1, <4>1, <3>4
        <5> QED
          BY <1>3, <2>1, <3>1, <3>4, <4>1, <5>1
      <4>2. CASE k # 1
        <5>1. k - 1 \in 1 .. n /\ k - 1 < n /\ k - 1 + 1 = k /\ k - 1 < k
          BY <1>1, <3>4, <4>2
        <5>2. k - 1 \notin L
          BY <1>1, <3>3, <3>4, <5>1
        <5>3. e(k - 1) = s[k]
          BY <5>1
        <5>4. ~(i < s[k])
          BY <5>1, <5>2, <5>3
        <5> QED
          BY <1>3, <2>1, <3>4, <5>4
      <4> QED
        BY <4>1, <4>2
    <3>6. g(k) \in RangesWith(i)
      BY <1>6, <3>4, <3>5 DEF RangesWith
    <3>7. ASSUME NEW f \in RangesWith(i) PROVE f = g(k)
      <4>1. PICK m \in 1 .. n : f = g(m)
        BY <1>6 DEF RangesWith
      <4>2. s[m] <= i /\ i < e(m)
        BY <4>1 DEF RangesWith
      <4>3. ~(m < k)
        BY <1>1, <3>3, <3>4, <4>1, <4>2
      <4>4. ~(k < m)
        <5> SUFFICES ASSUME k < m PROVE FALSE
          OBVIOUS
        <5>1. k < n /\ k + 1 \in 1 .. n /\ e(k) = s[k + 1]
          BY <1>1, <3>4
        <5>2. k + 1 = m \/ s[k + 1] < s[m]
          BY <1>1, <3>4, <5>1
        <5>3. s[k + 1] <= s[m]
          BY <1>3, <5>1, <5>2
        <5> QED
          BY <1>3, <2>1, <3>4, <4>2, <5>1, <5>3
      <4>5. m = k
        BY <1>1, <3>4, <4>3, <4>4
      <4> QED
        BY <4>1, <4>5
    <3>8. RangesWith(i) = {g(k)}
      BY <3>6, <3>7
    <3> QED
      BY <2>3, <3>8, FS_Singleton
  <2> QED
    BY <2>2, <2>3
<1>10. ASSUME NEW t \in Begins
       PROVE  \E f \in BeginsAt(t) : t < Size => f \in RangesWith(t)
  <2>1. PICK k \in 1 .. n : s[k] = t
    BY <1>1
  <2>2. g(k) \in BeginsAt(t)
    BY <1>6, <2>1 DEF BeginsAt
  <2>3. t < Size => t < e(k)
    BY <1>7, <2>1
  <2>4. t \in Nat /\ t <= t
    BY <1>2
  <2>5. t < Size => g(k) \in RangesWith(t)
    BY <1>6, <2>1, <2>3, <2>4 DEF RangesWith
  <2> QED
    BY <2>2, <2>5
<1>11. (\A f \in F : f.begin < f.end /\ f.end <= Size) <=> Begins \subseteq Position
  <2>1. ASSUME \A f \in F : f.begin < f.end /\ f.end <= Size, NEW t \in Begins
        PROVE  t \in Position
    <3>1. PICK k \in 1 .. n : s[k] = t
      BY <1>1
    <3>2. g(k) \in F
      BY <1>6
    <3>3. g(k).begin < g(k).end /\ g(k).end <= Size
      BY <2>1, <3>2
    <3>4. s[k] < e(k) /\ e(k) <= Size
      BY <3>3
    <3> QED
      BY <1>2, <1>3, <1>7, <3>1, <3>4 DEF Position
  <2>2. ASSUME Begins \subseteq Position, NEW f \in F
        PROVE  f.begin < f.end /\ f.end <= Size
    <3>1. PICK k \in 1 .. n : f = g(k)
      BY <1>6
    <3>2. \A m \in 1 .. n : s[m] < Size
      BY <1>2, <1>3, <2>2 DEF Position
    <3>3. CASE k < n
      <4>1. k + 1 \in 1 .. n /\ s[k] < e(k) /\ e(k) = s[k + 1]
        BY <1>7, <3>3
      <4> QED
        BY <1>2, <1>3, <3>1, <3>2, <4>1
    <3>4. CASE ~(k < n)
      BY <1>2, <3>1, <3>2, <3>4
    <3> QED
      BY <3>3, <3>4
  <2> QED
    BY <2>1, <2>2
<1>12. ASSUME NEW i \in Position PROVE BeginsAt(i) # {} <=> i \in Begins
  <2>1. i \in Begins => BeginsAt(i) # {}
    BY <1>10
  <2>2. ASSUME NEW f \in BeginsAt(i) PROVE i \in Begins
    <3>1. PICK k \in 1 .. n : f = g(k)
      BY <1>6 DEF BeginsAt
    <3>2. s[k] = i
      BY <3>1 DEF BeginsAt
    <3> QED
      BY <1>3, <3>2
  <2> QED
    BY <2>1, <2>2
<1> QED
  BY <1>9, <1>10, <1>11, <1>12

-----------------------------------------------------------------------------

(* The blocks of branches, and that a forward one is known by its begin.   *)
LEMMA ConditionalFacts ==
  ASSUME program \in Programs
  PROVE  /\ \A x \in Conditional :
              /\ x.AdvanceAmount \in Int
              /\ x.BranchBlockBegin \in Int /\ x.BranchBlockEnd \in Int
         /\ \A x, y \in Conditional :
              /\ x.AdvanceAmount > 0 /\ y.AdvanceAmount > 0
              /\ x.BranchBlockBegin = y.BranchBlockBegin
              => x = y
<1>1. ASSUME NEW x \in Conditional
      PROVE  /\ x.AdvanceAmount \in Int
             /\ x.BranchBlockBegin \in Int /\ x.BranchBlockEnd \in Int
  <2>1. PICK i \in ConditionalAt : x = Branch(i, program.Binary[i])
    BY DEF Conditional
  <2> QED
    BY <2>1, BranchFacts
<1>2. ASSUME NEW x \in Conditional, NEW y \in Conditional,
             x.AdvanceAmount > 0, y.AdvanceAmount > 0,
             x.BranchBlockBegin = y.BranchBlockBegin
      PROVE  x = y
  <2>1. PICK i \in ConditionalAt : x = Branch(i, program.Binary[i])
    BY DEF Conditional
  <2>2. PICK j \in ConditionalAt : y = Branch(j, program.Binary[j])
    BY DEF Conditional
  <2>3. x.BranchBlockBegin = i
    BY <1>2, <2>1, BranchFacts
  <2>4. y.BranchBlockBegin = j
    BY <1>2, <2>2, BranchFacts
  <2> QED
    BY <1>2, <2>1, <2>2, <2>3, <2>4
<1> QED
  BY <1>1, <1>2

(* The sorted branches are all of them, each once. *)
LEMMA BranchesListed ==
  ASSUME program \in Programs, NEW s \in SetToSeqs(Conditional)
  PROVE  /\ s \in Seq(Conditional) /\ Len(s) = Cardinality(ConditionalAt)
         /\ Len(s) \in Nat
         /\ \A k \in 1 .. Len(s) : s[k] \in Conditional
         /\ \A k, j \in 1 .. Len(s) : s[k] = s[j] => k = j
         /\ \A x \in Conditional : \E k \in 1 .. Len(s) : s[k] = x
         /\ DOMAIN s = 1 .. Len(s)
         /\ ToSet(s) = Conditional
<1> DEFINE n == Cardinality(Conditional)
<1>1. n \in Nat /\ IsFiniteSet(Conditional) /\ n = Cardinality(ConditionalAt)
  BY BranchesCounted
<1>2. /\ s \in [1 .. n -> Conditional]
      /\ \A i, j \in 1 .. n : i # j => s[i] # s[j]
  BY DEF SetToSeqs
<1>3. IsFiniteSet(1 .. n) /\ Cardinality(1 .. n) = n
  BY <1>1, FS_Interval
<1>4. s \in Injection(1 .. n, Conditional)
  BY <1>2 DEF Injection, IsInjective
<1>5. s \in Surjection(1 .. n, Conditional)
  BY <1>1, <1>3, <1>4, FS_Injection
<1> HIDE DEF n
<1>6. s \in Seq(Conditional) /\ Len(s) = n /\ DOMAIN s = 1 .. n
  BY <1>1, <1>2
<1>7. \A x \in Conditional : \E k \in 1 .. n : s[k] = x
  BY <1>5 DEF Surjection
<1>8. \A k \in 1 .. n : s[k] \in Conditional
  BY <1>2
<1>9. ToSet(s) = Conditional
  BY <1>6, <1>7, <1>8 DEF ToSet
<1> QED
  BY <1>1, <1>2, <1>6, <1>7, <1>8, <1>9 DEF n

(* If a later block begins in a branch's block, the next one does. *)
LEMMA NextOverlaps ==
  ASSUME program \in Programs, NEW s \in SetToSeqs(Conditional), InOrder(s),
         NEW k \in 1 .. Len(s), NEW j \in 1 .. Len(s), k < j,
         Overlaps(s[k], s[j])
  PROVE  k # Len(s) /\ Overlaps(s[k], s[k + 1])
<1>1. Len(s) \in Nat /\ DOMAIN s = 1 .. Len(s)
  BY BranchesListed
<1> DEFINE n == Len(s)
<1>2. k # n /\ k + 1 \in 1 .. n /\ k < k + 1 /\ (k + 1 = j \/ k + 1 < j)
  <2>1. n \in Nat /\ k \in 1 .. n /\ j \in 1 .. n /\ k < j
    BY <1>1
  <2> HIDE DEF n
  <2> QED
    BY <2>1
<1>3. /\ s[k].BranchBlockBegin <= s[k + 1].BranchBlockBegin
      /\ k + 1 # j => s[k + 1].BranchBlockBegin <= s[j].BranchBlockBegin
  BY <1>1, <1>2 DEF InOrder
<1>4. /\ s[k] \in Conditional /\ s[k + 1] \in Conditional /\ s[j] \in Conditional
  BY <1>2, BranchesListed
<1>5. /\ s[k].BranchBlockBegin \in Int /\ s[k].BranchBlockEnd \in Int
      /\ s[k + 1].BranchBlockBegin \in Int /\ s[j].BranchBlockBegin \in Int
  BY <1>4, ConditionalFacts
<1>6. s[j].BranchBlockBegin < s[k].BranchBlockEnd
  BY DEF Overlaps
<1>7. s[k + 1].BranchBlockBegin < s[k].BranchBlockEnd
  BY <1>3, <1>5, <1>6
<1> QED
  BY <1>2, <1>3, <1>7 DEF Overlaps

(* Comparing with the next branch only is enough to find the simple ifs.   *)
LEMMA IfsSimple ==
  ASSUME program \in Programs, NEW s \in SetToSeqs(Conditional), InOrder(s)
  PROVE  LET all == ToSet(s)
             ifs == {s[k] : k \in {j \in 1 .. Len(s) : IsIf(s, j)}}
         IN /\ \A x \in all :
                 LET inside == {y \in all \ {x} : Overlaps(x, y)}
                     together == {y \in inside :
                                    y.BranchBlockBegin = x.BranchBlockBegin}
                 IN IF x.AdvanceAmount <= 0 \/ inside \ together # {}
                    THEN x \notin ifs
                    ELSE x \in ifs \/ together # {}
            /\ \A x, y \in ifs : x = y \/ ~Overlaps(x, y)
<1> DEFINE n == Len(s)
           all == ToSet(s)
           ifs == {s[k] : k \in {j \in 1 .. n : IsIf(s, j)}}
           inside(x) == {y \in all \ {x} : Overlaps(x, y)}
           together(x) == {y \in inside(x) :
                             y.BranchBlockBegin = x.BranchBlockBegin}
<1>1. /\ n \in Nat /\ all = Conditional /\ DOMAIN s = 1 .. n
      /\ \A k \in 1 .. n : s[k] \in Conditional
      /\ \A k, j \in 1 .. n : s[k] = s[j] => k = j
      /\ \A x \in Conditional : \E k \in 1 .. n : s[k] = x
  BY BranchesListed
<1>2. ASSUME NEW k \in 1 .. n, NEW j \in 1 .. n, j < k, Overlaps(s[k], s[j])
      PROVE  s[j].BranchBlockBegin = s[k].BranchBlockBegin
  <2>1. s[j].BranchBlockBegin <= s[k].BranchBlockBegin
    BY <1>1, <1>2 DEF InOrder
  <2>2. s[k].BranchBlockBegin <= s[j].BranchBlockBegin
    BY <1>2 DEF Overlaps
  <2>3. s[j].BranchBlockBegin \in Int /\ s[k].BranchBlockBegin \in Int
    BY <1>1, ConditionalFacts
  <2> QED
    BY <2>1, <2>2, <2>3
<1>3. ASSUME NEW k \in 1 .. n PROVE s[k] \in ifs <=> IsIf(s, k)
  BY <1>1
<1>4. ASSUME NEW x \in all
      PROVE  IF x.AdvanceAmount <= 0 \/ inside(x) \ together(x) # {}
             THEN x \notin ifs
             ELSE x \in ifs \/ together(x) # {}
  <2>1. PICK k \in 1 .. n : s[k] = x
    BY <1>1
  <2>2. x.AdvanceAmount \in Int
    BY <1>1, ConditionalFacts
  <2>3. CASE x.AdvanceAmount <= 0
    <3>1. ~IsIf(s, k)
      BY <2>1, <2>2, <2>3 DEF IsIf
    <3> QED
      BY <1>3, <2>1, <2>3, <3>1
  <2>4. CASE inside(x) \ together(x) # {}
    <3>1. PICK y \in inside(x) : y.BranchBlockBegin # x.BranchBlockBegin
      BY <2>4
    <3>2. y \in all /\ y # x /\ Overlaps(x, y)
      OBVIOUS
    <3>3. PICK j \in 1 .. n : s[j] = y
      BY <1>1, <3>2
    <3>4. k < j
      <4>1. j # k /\ ~(j < k)
        BY <1>2, <2>1, <3>1, <3>2, <3>3
      <4> QED
        BY <1>1, <4>1
    <3>5. k # Len(s) /\ Overlaps(s[k], s[k + 1])
      BY <2>1, <3>2, <3>3, <3>4, NextOverlaps
    <3>6. ~IsIf(s, k)
      BY <3>5 DEF IsIf
    <3> QED
      BY <1>3, <2>1, <2>4, <3>6
  <2>5. CASE /\ ~(x.AdvanceAmount <= 0) /\ inside(x) \ together(x) = {}
             /\ together(x) = {}
    <3>1. inside(x) = {}
      BY <2>5
    <3>2. ASSUME k # Len(s), Overlaps(s[k], s[k + 1]) PROVE FALSE
      <4>1. k + 1 \in 1 .. n /\ k + 1 # k
        <5>1. n \in Nat /\ k \in 1 .. n /\ k # n
          BY <1>1, <3>2
        <5> HIDE DEF n
        <5> QED
          BY <5>1
      <4>2. s[k + 1] \in all /\ s[k + 1] # x
        BY <1>1, <2>1, <4>1
      <4>3. s[k + 1] \in inside(x)
        BY <2>1, <3>2, <4>2
      <4> QED
        BY <3>1, <4>3
    <3>3. s[k].AdvanceAmount > 0
      BY <2>1, <2>2, <2>5
    <3>4. IsIf(s, k)
      BY <3>2, <3>3 DEF IsIf
    <3>5. x \in ifs
      BY <1>3, <2>1, <3>4
    <3> QED
      BY <2>5, <3>5
  <2> HIDE DEF inside, together, ifs
  <2> QED
    BY <2>3, <2>4, <2>5
<1>5. ASSUME NEW x \in ifs, NEW y \in ifs, x # y PROVE ~Overlaps(x, y)
  <2> SUFFICES ASSUME Overlaps(x, y) PROVE FALSE
    OBVIOUS
  <2>1. PICK k \in 1 .. n : s[k] = x /\ IsIf(s, k)
    OBVIOUS
  <2>2. PICK j \in 1 .. n : s[j] = y /\ IsIf(s, j)
    OBVIOUS
  <2>3. x.AdvanceAmount > 0 /\ y.AdvanceAmount > 0
    BY <2>1, <2>2 DEF IsIf
  <2>4. ~(k < j)
    <3> SUFFICES ASSUME k < j PROVE FALSE
      OBVIOUS
    <3>1. k # Len(s) /\ Overlaps(s[k], s[k + 1])
      BY <2>1, <2>2, NextOverlaps
    <3> QED
      BY <2>1, <3>1 DEF IsIf
  <2>5. ~(j < k)
    <3> SUFFICES ASSUME j < k PROVE FALSE
      OBVIOUS
    <3>1. y.BranchBlockBegin = x.BranchBlockBegin
      BY <1>2, <2>1, <2>2
    <3>2. x \in Conditional /\ y \in Conditional
      BY <1>1, <2>1, <2>2
    <3> QED
      BY <1>5, <2>3, <3>1, <3>2, ConditionalFacts
  <2>6. j = k
    BY <1>1, <2>4, <2>5
  <2> QED
    BY <1>5, <2>1, <2>2, <2>6
<1> QED
  BY <1>4, <1>5

-----------------------------------------------------------------------------

(* What depends on the program only. *)
Input == <<restored, program, heap>>

LEMMA Frame ==
  ASSUME UNCHANGED Input
  PROVE  /\ Size' = Size /\ Position' = Position
         /\ EntryPosition' = EntryPosition /\ Memory' = Memory
         /\ ConditionalAt' = ConditionalAt /\ Conditional' = Conditional
         /\ Callees' = Callees /\ Begins' = Begins
         /\ StackAccesses' = StackAccesses
         /\ NoLoop' = NoLoop /\ Unstopped' = Unstopped
<1>1. restored' = restored /\ program' = program /\ heap' = heap
  BY DEF Input
<1>2. Size' = Size /\ EntryPosition' = EntryPosition
  BY <1>1 DEF Size, EntryPosition
<1>3. Position' = Position
  BY <1>2 DEF Position
<1>4. Memory' = Memory
  BY <1>1, <1>2 DEF Memory, Searched
<1>5. ConditionalAt' = ConditionalAt
  BY <1>1, <1>3 DEF ConditionalAt
<1>6. Conditional' = Conditional
  BY <1>1, <1>5 DEF Conditional
<1>7. Callees' = Callees
  BY <1>1, <1>3 DEF Callees
<1>8. Begins' = Begins
  BY <1>2, <1>7 DEF Begins
<1>9. StackAccesses' = StackAccesses
  BY <1>1, <1>3 DEF StackAccesses
<1>10. NoLoop' = NoLoop
  BY <1>1, <1>5 DEF NoLoop
<1>11. Unstopped' = Unstopped
  BY <1>1, <1>2 DEF Unstopped
<1> QED
  BY <1>2, <1>3, <1>4, <1>5, <1>6, <1>7, <1>8, <1>9, <1>10, <1>11

(* The call spu_execute is in decides what can happen. *)
LEMMA Calls ==
  ASSUME [Next]_vars
  PROVE  \/ UNCHANGED vars
         \/ pc = "heuristics" /\ spuGatherProgramHeuristics
         \/ pc = "branches" /\ spuGatherStaticBranches
         \/ pc = "ifs" /\ CollectIf
         \/ pc = "jumps" /\ spuGatherJumps
         \/ pc = "loads" /\ spuGatherLoads
         \/ pc = "targets" /\ spuGatherStaticCallTargets
         \/ pc = "blocks" /\ (FindBasicBlocks \/ ReadFault \/ MakeFunctionText)
         \/ pc = "symbols" /\ spuBuildFunctionSymbols
         \/ pc = "annotate" /\ Annotate
         \/ pc = "dump" /\ spuDumpInstrTextToFile
<1>1. spuGatherProgramHeuristics => pc = "heuristics"
  BY DEF spuGatherProgramHeuristics
<1>2. spuGatherStaticBranches => pc = "branches"
  BY DEF spuGatherStaticBranches
<1>3. CollectIf => pc = "ifs"
  BY DEF CollectIf
<1>4. spuGatherJumps => pc = "jumps"
  BY DEF spuGatherJumps
<1>5. spuGatherLoads => pc = "loads"
  BY DEF spuGatherLoads
<1>6. spuGatherStaticCallTargets => pc = "targets"
  BY DEF spuGatherStaticCallTargets
<1>7. FindBasicBlocks \/ ReadFault \/ MakeFunctionText => pc = "blocks"
  BY DEF FindBasicBlocks, ReadFault, MakeFunctionText
<1>8. spuBuildFunctionSymbols => pc = "symbols"
  BY DEF spuBuildFunctionSymbols
<1>9. Annotate => pc = "annotate"
  BY DEF Annotate
<1>10. spuDumpInstrTextToFile => pc = "dump"
  BY DEF spuDumpInstrTextToFile
<1> HIDE DEF vars
<1> QED
  BY <1>1, <1>2, <1>3, <1>4, <1>5, <1>6, <1>7, <1>8, <1>9, <1>10 DEF Next

(* What a call leaves alone. *)
InfoIsRecord ==
  info = [heuristics |-> info.heuristics,
          staticBranches |-> info.staticBranches,
          FunctionRanges |-> info.FunctionRanges,
          functionSymbols |-> info.functionSymbols,
          jumps |-> info.jumps, jumpSymbols |-> info.jumpSymbols]

Kept ==
  /\ UNCHANGED Input
  /\ InfoIsRecord'
  /\ pc # "heuristics" => info'.heuristics = info.heuristics
  /\ pc # "branches" => info'.staticBranches = info.staticBranches
  /\ pc # "targets" => info'.FunctionRanges = info.FunctionRanges
  /\ pc \notin {"heuristics", "symbols"} =>
       info'.functionSymbols = info.functionSymbols
  /\ pc # "annotate" => info'.jumpSymbols = info.jumpSymbols
  /\ pc # "ifs" => UNCHANGED branch
  /\ pc # "loads" => UNCHANGED addresses
  /\ pc # "blocks" => UNCHANGED <<block, printed>>
  /\ pc # "annotate" => UNCHANGED lines
  /\ pc # "dump" => UNCHANGED files

LEMMA StepKept ==
  ASSUME TypeOK, [Next]_vars
  PROVE  Kept
<1>1. InfoIsRecord
  BY DEF TypeOK, InfoIsRecord
<1>2. CASE UNCHANGED vars
  <2>1. /\ UNCHANGED Input /\ UNCHANGED info /\ UNCHANGED branch
        /\ UNCHANGED addresses /\ UNCHANGED block /\ UNCHANGED printed
        /\ UNCHANGED lines /\ UNCHANGED files
    BY <1>2 DEF vars, Input, branch, block, lines, files
  <2>2. InfoIsRecord'
    BY <1>1, <2>1 DEF InfoIsRecord
  <2> QED
    BY <2>1, <2>2 DEF Kept
<1>3. CASE pc = "heuristics" /\ spuGatherProgramHeuristics
  <2>1. InfoIsRecord' /\ info'.staticBranches = info.staticBranches
        /\ info'.FunctionRanges = info.FunctionRanges
        /\ info'.jumpSymbols = info.jumpSymbols
    BY <1>1, <1>3 DEF spuGatherProgramHeuristics, InfoIsRecord
  <2> QED
    BY <1>3, <2>1 DEF Kept, Input, spuGatherProgramHeuristics, branch, block,
                      lines, files
<1>4. CASE pc = "branches" /\ spuGatherStaticBranches
  <2>1. PICK s : info' = [info EXCEPT !.staticBranches = s]
    BY <1>4 DEF spuGatherStaticBranches
  <2>2. InfoIsRecord' /\ info'.heuristics = info.heuristics
        /\ info'.FunctionRanges = info.FunctionRanges
        /\ info'.functionSymbols = info.functionSymbols
        /\ info'.jumpSymbols = info.jumpSymbols
    BY <1>1, <2>1 DEF InfoIsRecord
  <2> QED
    BY <1>4, <2>2 DEF Kept, Input, spuGatherStaticBranches, branch, block,
                      lines, files
<1>5. CASE pc = "ifs" /\ CollectIf
  BY <1>1, <1>5 DEF Kept, Input, CollectIf, InfoIsRecord, block, lines, files
<1>6. CASE pc = "jumps" /\ spuGatherJumps
  <2>1. InfoIsRecord' /\ info'.heuristics = info.heuristics
        /\ info'.staticBranches = info.staticBranches
        /\ info'.FunctionRanges = info.FunctionRanges
        /\ info'.functionSymbols = info.functionSymbols
        /\ info'.jumpSymbols = info.jumpSymbols
    BY <1>1, <1>6 DEF spuGatherJumps, InfoIsRecord
  <2> QED
    BY <1>6, <2>1 DEF Kept, Input, spuGatherJumps, branch, block, lines, files
<1>7. CASE pc = "loads" /\ spuGatherLoads
  BY <1>1, <1>7 DEF Kept, Input, spuGatherLoads, InfoIsRecord, branch, block,
                    lines, files
<1>8. CASE pc = "targets" /\ spuGatherStaticCallTargets
  <2>1. InfoIsRecord' /\ info'.heuristics = info.heuristics
        /\ info'.staticBranches = info.staticBranches
        /\ info'.functionSymbols = info.functionSymbols
        /\ info'.jumpSymbols = info.jumpSymbols
    BY <1>1, <1>8 DEF spuGatherStaticCallTargets, InfoIsRecord
  <2> QED
    BY <1>8, <2>1 DEF Kept, Input, spuGatherStaticCallTargets, branch, block,
                      lines, files
<1>9. CASE pc = "blocks" /\ (FindBasicBlocks \/ ReadFault \/ MakeFunctionText)
  <2>1. /\ UNCHANGED Input /\ UNCHANGED info /\ UNCHANGED branch
        /\ UNCHANGED addresses /\ UNCHANGED lines /\ UNCHANGED files
    BY <1>9 DEF Input, FindBasicBlocks, ReadFault, MakeFunctionText, branch,
                lines, files
  <2>2. InfoIsRecord'
    BY <1>1, <2>1 DEF InfoIsRecord
  <2> QED
    BY <1>9, <2>1, <2>2 DEF Kept
<1>10. CASE pc = "symbols" /\ spuBuildFunctionSymbols
  <2>1. InfoIsRecord' /\ info'.heuristics = info.heuristics
        /\ info'.staticBranches = info.staticBranches
        /\ info'.FunctionRanges = info.FunctionRanges
        /\ info'.jumpSymbols = info.jumpSymbols
    BY <1>1, <1>10 DEF spuBuildFunctionSymbols, InfoIsRecord
  <2> QED
    BY <1>10, <2>1 DEF Kept, Input, spuBuildFunctionSymbols, branch, block,
                       lines, files
<1>11. CASE pc = "annotate" /\ Annotate
  <2>1. PICK x : info' = [info EXCEPT !.jumpSymbols = x]
    BY <1>11 DEF Annotate
  <2>2. InfoIsRecord' /\ info'.heuristics = info.heuristics
        /\ info'.staticBranches = info.staticBranches
        /\ info'.FunctionRanges = info.FunctionRanges
        /\ info'.functionSymbols = info.functionSymbols
    BY <1>1, <2>1 DEF InfoIsRecord
  <2> QED
    BY <1>11, <2>2 DEF Kept, Input, Annotate, branch, block, files
<1>12. CASE pc = "dump" /\ spuDumpInstrTextToFile
  BY <1>1, <1>12 DEF Kept, Input, spuDumpInstrTextToFile, InfoIsRecord, branch,
                     block, lines
<1> HIDE DEF vars, Kept
<1> QED
  BY <1>2, <1>3, <1>4, <1>5, <1>6, <1>7, <1>8, <1>9, <1>10, <1>11, <1>12, Calls

(* The calls follow each other in the order of spu_execute. *)
LEMMA Moves ==
  ASSUME [Next]_vars
  PROVE  \/ pc' = pc
         \/ pc = "heuristics" /\ pc' = (IF restored THEN "branches" ELSE "targets")
         \/ pc = "branches" /\ pc' \in {"lost", "ifs"}
         \/ pc = "ifs" /\ pc' = "jumps"
         \/ pc = "jumps" /\ pc' = "loads"
         \/ pc = "loads" /\ pc' = "targets"
         \/ pc = "targets" /\ pc' = "blocks"
         \/ pc = "blocks" /\ pc' = "lost"
         \/ pc = "blocks" /\ bpc = "done"
              /\ pc' = (IF restored THEN "symbols" ELSE "annotate")
         \/ pc = "symbols" /\ pc' = "annotate"
         \/ pc = "annotate" /\ pc' = "dump"
         \/ pc = "dump" /\ pc' \in {"lost", "written"}
<1>1. UNCHANGED vars => pc' = pc
  BY DEF vars
<1>2. spuGatherProgramHeuristics =>
        pc' = IF restored THEN "branches" ELSE "targets"
  BY DEF spuGatherProgramHeuristics
<1>3. spuGatherStaticBranches => pc' \in {"lost", "ifs"}
  BY DEF spuGatherStaticBranches
<1>4. CollectIf => pc' \in {"jumps", "ifs"}
  BY DEF CollectIf
<1>5. spuGatherJumps => pc' = "loads"
  BY DEF spuGatherJumps
<1>6. spuGatherLoads => pc' = "targets"
  BY DEF spuGatherLoads
<1>7. spuGatherStaticCallTargets => pc' = "blocks"
  BY DEF spuGatherStaticCallTargets
<1>8. /\ FindBasicBlocks => pc' = pc
      /\ ReadFault => pc' = "lost"
      /\ MakeFunctionText =>
           bpc = "done" /\ pc' = IF restored THEN "symbols" ELSE "annotate"
  BY DEF FindBasicBlocks, ReadFault, MakeFunctionText
<1>9. spuBuildFunctionSymbols => pc' = "annotate"
  BY DEF spuBuildFunctionSymbols
<1>10. Annotate => pc' = "dump"
  BY DEF Annotate
<1>11. spuDumpInstrTextToFile => pc' \in {"lost", "written"}
  BY DEF spuDumpInstrTextToFile
<1> HIDE DEF vars
<1> QED
  BY <1>1, <1>2, <1>3, <1>4, <1>5, <1>6, <1>7, <1>8, <1>9, <1>10, <1>11, Calls

LEMMA TypeKept ==
  ASSUME TypeOK, [Next]_vars
  PROVE  TypeOK'
<1>1. Kept
  BY StepKept
<1>2. restored' = restored /\ program' = program /\ heap' = heap /\ Size' = Size
  BY <1>1, Frame DEF Kept, Input
<1>3. pc' \in {"heuristics", "targets", "blocks", "annotate", "dump", "written",
               "lost"}
         \cup IF restored THEN {"branches", "ifs", "jumps", "loads", "symbols"}
                          ELSE {}
  <2>1. CASE restored
    BY <2>1, Moves DEF TypeOK
  <2>2. CASE ~restored
    BY <2>2, Moves DEF TypeOK
  <2> QED
    BY <2>1, <2>2
<1>4. InfoIsRecord'
  BY <1>1 DEF Kept
<1> QED
  BY <1>2, <1>3, <1>4 DEF TypeOK, InfoIsRecord

(* What the heuristics hold is where the instructions are. *)
LEMMA PositionsRead ==
  ASSUME HeuristicsInv, pc # "heuristics"
  PROVE  /\ \A m : Positions(m) = PositionsOf(m)
         /\ BranchesOf({brz, brnz, brhz, brhnz}) = Conditional
         /\ StaticCallTargets = Begins
<1>1. ASSUME NEW m PROVE Positions(m) = PositionsOf(m)
  <2>1. DOMAIN info.heuristics = {MnemonicOf(program.Binary[i]) : i \in Position}
    BY DEF HeuristicsInv
  <2>2. CASE m \in DOMAIN info.heuristics
    BY <2>1, <2>2 DEF HeuristicsInv, Positions
  <2>3. CASE m \notin DOMAIN info.heuristics
    <3>1. PositionsOf(m) = {}
      BY <2>1, <2>3 DEF PositionsOf
    <3> QED
      BY <2>3, <3>1 DEF Positions
  <2> QED
    BY <2>2, <2>3
<1>2. UNION {Positions(m) : m \in {brz, brnz, brhz, brhnz}} = ConditionalAt
  BY <1>1 DEF PositionsOf, ConditionalAt
<1>3. BranchesOf({brz, brnz, brhz, brhnz}) = Conditional
  BY <1>2 DEF BranchesOf, Conditional
<1>4. StaticCallTargets = Begins
  <2>1. Positions(brsl) = {j \in Position : MnemonicOf(program.Binary[j]) = brsl}
    BY <1>1 DEF PositionsOf
  <2> QED
    BY <2>1 DEF StaticCallTargets, Callees, Begins
<1> QED
  BY <1>1, <1>3, <1>4

LEMMA HeuristicsKept ==
  ASSUME TypeOK, HeuristicsInv, [Next]_vars
  PROVE  HeuristicsInv'
<1>1. Kept
  BY StepKept
<1>2. program' = program /\ Position' = Position
  BY <1>1, Frame DEF Kept, Input
<1>3. \A m : PositionsOf(m)' = PositionsOf(m)
  BY <1>2 DEF PositionsOf
<1>4. CASE pc = "heuristics" /\ spuGatherProgramHeuristics
  <2>1. info'.heuristics = [m \in {MnemonicOf(program.Binary[i]) : i \in Position}
                              |-> PositionsOf(m)]
    BY <1>4 DEF spuGatherProgramHeuristics, PositionsOf, TypeOK
  <2>2. pc' # "heuristics"
    BY <1>4 DEF spuGatherProgramHeuristics
  <2> QED
    BY <1>2, <1>3, <2>1, <2>2 DEF HeuristicsInv
<1>5. CASE pc # "heuristics"
  <2>1. info'.heuristics = info.heuristics /\ pc' # "heuristics"
    BY <1>1, <1>5, Moves DEF Kept
  <2> QED
    BY <1>2, <1>3, <1>5, <2>1 DEF HeuristicsInv
<1>6. CASE UNCHANGED vars
  BY <1>2, <1>3, <1>6 DEF HeuristicsInv, vars
<1> QED
  BY <1>4, <1>5, <1>6, Calls

LEMMA BranchesKept ==
  ASSUME TypeOK, HeuristicsInv, BranchesInv, [Next]_vars
  PROVE  BranchesInv'
<1> SUFFICES ASSUME restored', pc' \notin {"heuristics", "branches"}
             PROVE  /\ info'.staticBranches \in SetToSeqs(Conditional')
                    /\ InOrder(info'.staticBranches)
                    /\ pc' = "lost" \/ Len(info'.staticBranches) >= 2
  BY DEF BranchesInv, InOrder
<1>1. Kept
  BY StepKept
<1>2. restored' = restored /\ Conditional' = Conditional
  BY <1>1, Frame DEF Kept, Input
<1>3. CASE pc = "branches" /\ spuGatherStaticBranches
  <2>1. PICK s \in SetToSeqs(BranchesOf({brz, brnz, brhz, brhnz})) :
          /\ InOrder(s)
          /\ info' = [info EXCEPT !.staticBranches = s]
          /\ pc' = IF Len(s) < 2 THEN "lost" ELSE "ifs"
    BY <1>3 DEF spuGatherStaticBranches
  <2>2. s \in SetToSeqs(Conditional) /\ info'.staticBranches = s
    BY <1>3, <2>1, PositionsRead DEF TypeOK
  <2>3. Len(s) \in Nat
    BY <2>2, BranchesListed DEF TypeOK
  <2> QED
    BY <1>2, <2>1, <2>2, <2>3
<1>4. CASE pc # "branches"
  <2>1. info'.staticBranches = info.staticBranches
    BY <1>1, <1>4 DEF Kept
  <2>2. pc # "heuristics"
    BY <1>2, Moves
  <2>3. pc = "lost" => pc' = "lost"
    BY Moves
  <2> QED
    BY <1>2, <1>4, <2>1, <2>2, <2>3 DEF BranchesInv
<1>5. CASE UNCHANGED vars
  BY <1>2, <1>5 DEF BranchesInv, vars
<1> QED
  BY <1>3, <1>4, <1>5, Calls

(* The loop over the branches decides one of them in every turn. *)
LEMMA IfsKept ==
  ASSUME TypeOK, HeuristicsInv, BranchesInv, IfsInv, [Next]_vars
  PROVE  IfsInv'
<1> DEFINE s == info.staticBranches
           Decided(k) == {s[j] : j \in {i \in 1 .. k - 1 : IsIf(s, i)}}
<1>1. Kept /\ BranchesInv'
  BY StepKept, BranchesKept
<1>2. restored' = restored
  BY <1>1 DEF Kept, Input
<1>3. CASE pc \in {"heuristics", "branches"}
  <2>1. first1' = 1 /\ BrIfVector' = BrIfVector /\ ToSet(BrIfVector) = {}
    BY <1>1, <1>3 DEF Kept, branch, IfsInv
  <2>2. restored => pc' \in {"heuristics", "branches", "ifs", "lost"}
    BY <1>3, Moves
  <2>3. pc' = "ifs" => Len(s') \in Nat /\ Len(s') >= 2
    <3>1. pc' = "ifs" => restored /\ program \in Programs
      BY <1>3, Moves DEF TypeOK
    <3>2. pc' = "ifs" => s' \in SetToSeqs(Conditional) /\ Len(s') >= 2
      BY <1>1, <1>2, <3>1, Frame DEF BranchesInv, Kept
    <3> QED
      BY <3>1, <3>2, BranchesListed
  <2>4. ToSet(BrIfVector') = {}
    BY <2>1
  <2> QED
    BY <1>2, <2>1, <2>2, <2>3, <2>4 DEF IfsInv, ToIfs
<1>4. CASE pc = "ifs" /\ CollectIf
  <2>1. /\ restored /\ s \in SetToSeqs(Conditional) /\ program \in Programs
        /\ first1 \in 1 .. Len(s) /\ s' = s
    BY <1>1, <1>4 DEF TypeOK, BranchesInv, IfsInv, Kept
  <2>2. Len(s) \in Nat /\ DOMAIN s = 1 .. Len(s)
    BY <2>1, BranchesListed
  <2> HIDE DEF s
  <2> DEFINE k == first1
             n == Len(s)
  <2>3. k \in Nat /\ n \in Nat /\ k \in 1 .. n
    BY <2>1, <2>2
  <2>4. /\ first1' = k + 1
        /\ pc' = IF k = n THEN "jumps" ELSE "ifs"
        /\ BrIfVector' = IF IsIf(s, k) THEN Append(BrIfVector, s[k]) ELSE BrIfVector
    BY <1>4 DEF CollectIf, IsIf, s
  <2>5. /\ BrIfVector \in Seq(ToSet(BrIfVector)) /\ ToSet(BrIfVector) = Decided(k)
    BY DEF IfsInv, s
  <2>6. 1 .. (k + 1) - 1 = (1 .. k - 1) \cup {k}
    BY <2>3
  <2>7. Decided(k + 1) = Decided(k) \cup (IF IsIf(s, k) THEN {s[k]} ELSE {})
    BY <2>6
  <2>8. BrIfVector' \in Seq(ToSet(BrIfVector')) /\ ToSet(BrIfVector') = Decided(k + 1)
    <3>1. CASE IsIf(s, k)
      <4> DEFINE T == Decided(k) \cup {s[k]}
      <4>1. BrIfVector' = Append(BrIfVector, s[k]) /\ BrIfVector \in Seq(Decided(k))
        BY <2>4, <2>5, <3>1
      <4>2. BrIfVector' \in Seq(T) /\ ToSet(BrIfVector') = ToSet(BrIfVector) \cup {s[k]}
        <5> HIDE DEF Decided
        <5>1. BrIfVector \in Seq(T)
          BY <4>1
        <5>2. /\ Len(BrIfVector) \in Nat /\ BrIfVector' \in Seq(T)
              /\ DOMAIN BrIfVector = 1 .. Len(BrIfVector)
              /\ DOMAIN BrIfVector' = 1 .. Len(BrIfVector) + 1
              /\ \A i \in 1 .. Len(BrIfVector) : BrIfVector'[i] = BrIfVector[i]
              /\ BrIfVector'[Len(BrIfVector) + 1] = s[k]
          BY <4>1, <5>1
        <5> DEFINE m == Len(BrIfVector)
                   f == BrIfVector
                   g == BrIfVector'
        <5>3. /\ m \in Nat /\ DOMAIN f = 1 .. m /\ DOMAIN g = 1 .. m + 1
              /\ \A i \in 1 .. m : g[i] = f[i]
              /\ g[m + 1] = s[k]
          BY <5>2
        <5> HIDE DEF m, f, g
        <5>4. 1 .. m + 1 = (1 .. m) \cup {m + 1}
          BY <5>3
        <5>5. ToSet(g) = ToSet(f) \cup {s[k]}
          BY <5>3, <5>4 DEF ToSet
        <5> QED
          BY <5>2, <5>5 DEF f, g
      <4>3. ToSet(BrIfVector') = T /\ T = Decided(k + 1)
        BY <2>5, <2>7, <3>1, <4>2
      <4> QED
        BY <4>2, <4>3
    <3>2. CASE ~IsIf(s, k)
      <4>1. Decided(k + 1) = Decided(k) /\ BrIfVector' = BrIfVector
        BY <2>4, <2>7, <3>2
      <4> QED
        BY <2>5, <4>1
    <3> QED
      BY <3>1, <3>2
  <2>9. /\ k + 1 \in Nat
        /\ pc' = "ifs" => k + 1 \in 1 .. n
        /\ pc' \in {"ifs", "jumps"}
        /\ pc' = "jumps" => k + 1 = n + 1
    BY <2>3, <2>4
  <2> QED
    BY <2>1, <2>4, <2>8, <2>9 DEF IfsInv, ToIfs, s
<1>5. CASE pc \notin {"heuristics", "branches", "ifs"}
  <2>1. first1' = first1 /\ BrIfVector' = BrIfVector /\ s' = s
    BY <1>1, <1>5 DEF Kept, branch
  <2>2. pc' \notin {"heuristics", "branches", "ifs"} /\ (pc = "lost" => pc' = "lost")
    BY <1>5, Moves
  <2> QED
    BY <1>2, <1>5, <2>1, <2>2 DEF IfsInv, ToIfs
<1>6. CASE UNCHANGED vars
  <2>1. /\ first1' = first1 /\ BrIfVector' = BrIfVector /\ s' = s
        /\ pc' = pc
    BY <1>6 DEF vars, branch
  <2> QED
    BY <1>2, <2>1 DEF IfsInv, ToIfs
<1> QED
  BY <1>3, <1>4, <1>5, <1>6, Calls

(* An address is gathered as the instruction accesses it. *)
LEMMA AddressesKept ==
  ASSUME TypeOK, HeuristicsInv, AddressesAccessed, [Next]_vars
  PROVE  AddressesAccessed'
<1>1. Kept
  BY StepKept
<1>2. program' = program /\ program \in Programs
  BY <1>1 DEF Kept, Input, TypeOK
<1>3. CASE pc = "loads" /\ spuGatherLoads
  <2> SUFFICES ASSUME NEW x \in addresses'
               PROVE  LET w == program.Binary[x[1]]
                          IP == IF MnemonicOf(w) \in {lqr, stqr}
                                THEN program.VirtualBaseAddress + 4 * x[1] ELSE 0
                      IN x[2] = 16 * (((4 * SignExtend(I16(w), 65536) + IP) \div 16)
                                        % 16384)
    BY <1>2 DEF AddressesAccessed
  <2> DEFINE A == PositionsOf(lqa) \cup PositionsOf(stqa)
             R == PositionsOf(lqr) \cup PositionsOf(stqr)
             w == program.Binary[x[1]]
             S == SignExtend(I16(w), 65536)
             imm == ComponentsOf(w).IMM
             base == program.VirtualBaseAddress
  <2>1. x \in {<<i, AbsAddress(program.Binary[i])>> : i \in A}
                \cup {<<i, RelAddress(base, i, program.Binary[i])>> : i \in R}
    BY <1>3, PositionsRead DEF spuGatherLoads
  <2>2. \A m : PositionsOf(m) = {i \in Position : MnemonicOf(program.Binary[i]) = m}
    BY DEF PositionsOf
  <2>3. /\ x[1] \in Position
        /\ \/ MnemonicOf(w) \in {lqa, stqa} /\ x[2] = AbsAddress(w)
           \/ MnemonicOf(w) \in {lqr, stqr} /\ x[2] = RelAddress(base, x[1], w)
    <3>1. CASE x \in {<<i, AbsAddress(program.Binary[i])>> : i \in A}
      BY <2>2, <3>1
    <3>2. CASE x \in {<<i, RelAddress(base, i, program.Binary[i])>> : i \in R}
      BY <2>2, <3>2
    <3> QED
      BY <2>1, <3>1, <3>2
  <2>4. w \in Word /\ x[1] \in Int /\ base \in Int
    BY <1>2, <2>3, ProgramFacts, ProgramsAssumption DEF Position
  <2>5. imm = S /\ imm \in Int
    BY <2>3, <2>4, MnemonicsRead
  <2> HIDE DEF w, S, imm, base
  <2>6. CASE MnemonicOf(w) \in {lqa, stqa} /\ x[2] = AbsAddress(w)
    <3>1. MnemonicOf(w) \notin {lqr, stqr}
      BY <2>6 DEF lqa, stqa, lqr, stqr
    <3>2. x[2] = 16 * (((4 * S) \div 16) % 16384)
      BY <2>5, <2>6 DEF AbsAddress, Line, imm
    <3>3. 4 * S = 4 * S + 0
      BY <2>5
    <3>4. x[2] = 16 * (((4 * S + 0) \div 16) % 16384)
      BY <3>2, <3>3
    <3> QED
      BY <3>1, <3>4 DEF w, S, base
  <2>7. CASE MnemonicOf(w) \in {lqr, stqr} /\ x[2] = RelAddress(base, x[1], w)
    <3>1. x[2] = 16 * (((base + 4 * x[1] + 4 * S) \div 16) % 16384)
      BY <2>5, <2>7 DEF RelAddress, Line, imm
    <3>2. base + 4 * x[1] + 4 * S = 4 * S + (base + 4 * x[1])
      BY <2>4, <2>5
    <3>3. x[2] = 16 * (((4 * S + (base + 4 * x[1])) \div 16) % 16384)
      BY <3>1, <3>2
    <3> QED
      BY <2>7, <3>3 DEF w, S, base
  <2> QED
    BY <2>3, <2>6, <2>7 DEF w, base
<1>4. CASE pc # "loads"
  <2>1. addresses' = addresses
    BY <1>1, <1>4 DEF Kept
  <2> QED
    BY <1>2, <2>1 DEF AddressesAccessed
<1>5. CASE UNCHANGED vars
  BY <1>2, <1>5 DEF AddressesAccessed, vars
<1> QED
  BY <1>3, <1>4, <1>5, Calls

(* The functions are gathered once, before they are used. *)
LEMMA FunctionsKept ==
  ASSUME TypeOK, HeuristicsInv, FunctionsInv, [Next]_vars
  PROVE  FunctionsInv'
<1>1. Kept
  BY StepKept
<1>2. Size' = Size /\ Begins' = Begins
  BY <1>1, Frame DEF Kept
<1>3. FunctionsInv <=>
        (Gathered => info.FunctionRanges = Ranges(Ascending(Begins), Size))
  BY DEF FunctionsInv, Begins
<1>4. FunctionsInv' <=>
        (Gathered' => info'.FunctionRanges = Ranges(Ascending(Begins'), Size'))
  BY DEF FunctionsInv, Begins
<1>5. CASE pc = "targets" /\ spuGatherStaticCallTargets
  <2>1. info'.FunctionRanges = Ranges(Ascending(Begins), Size)
    BY <1>5, PositionsRead DEF spuGatherStaticCallTargets, TypeOK
  <2> QED
    BY <1>2, <1>4, <2>1
<1>6. CASE pc # "targets"
  <2>1. info'.FunctionRanges = info.FunctionRanges
    BY <1>1, <1>6 DEF Kept
  <2>2. Gathered' => Gathered
    BY <1>6, Moves DEF Gathered
  <2> QED
    BY <1>2, <1>3, <1>4, <2>1, <2>2
<1>7. CASE UNCHANGED vars
  <2>1. info' = info /\ pc' = pc
    BY <1>7 DEF vars
  <2> QED
    BY <1>2, <1>3, <1>4, <2>1 DEF Gathered
<1> QED
  BY <1>5, <1>6, <1>7, Calls

-----------------------------------------------------------------------------

(* What BasicBlocks assumes of its constants holds of those it has here,   *)
(* and its definitions are the ones its proofs are about.                  *)
LEMMA Searchable ==
  /\ {w \in Word : EndsBlock(w)} \subseteq Word
  /\ Zero \in {w \in Word : EndsBlock(w)}
  /\ Begin \in Nat /\ End \in Nat /\ Begin <= End
BY ZeroEndsBlock, BoundsAssumption

LEMMA SearchIInv == (Blocks!IInv <=> BP!IInv) /\ (Blocks!IInv' <=> BP!IInv')
<1>1. Blocks!IInv <=> BP!IInv
  BY DEF Blocks!IInv, BP!IInv, Blocks!TypeOK, BP!TypeOK,
         Blocks!BlocksTile, BP!BlocksTile, Blocks!BlocksStraight,
         BP!BlocksStraight, Blocks!BeginAfterBlocks, BP!BeginAfterBlocks,
         Blocks!NoBranchPassed, BP!NoBranchPassed, Blocks!BlocksCover,
         BP!BlocksCover, Blocks!Covered, BP!Covered, Blocks!HowItEnded,
         BP!HowItEnded
<1>2. Blocks!IInv' <=> BP!IInv'
  BY DEF Blocks!IInv, BP!IInv, Blocks!TypeOK, BP!TypeOK,
         Blocks!BlocksTile, BP!BlocksTile, Blocks!BlocksStraight,
         BP!BlocksStraight, Blocks!BeginAfterBlocks, BP!BeginAfterBlocks,
         Blocks!NoBranchPassed, BP!NoBranchPassed, Blocks!BlocksCover,
         BP!BlocksCover, Blocks!Covered, BP!Covered, Blocks!HowItEnded,
         BP!HowItEnded
<1> QED
  BY <1>1, <1>2

LEMMA SearchInit == Blocks!Init => Blocks!IInv
<1>1. Blocks!Init <=> BP!Init
  BY DEF Blocks!Init, BP!Init
<1>2. BP!Init => BP!IInv
  BY BP!InitIInv, Searchable, Zenon
<1> QED
  BY <1>1, <1>2, SearchIInv

LEMMA SearchNext == Blocks!IInv /\ [Blocks!Next]_(Blocks!vars) => Blocks!IInv'
<1>1. [Blocks!Next]_(Blocks!vars) <=> [BP!Next]_(BP!vars)
  BY DEF Blocks!Next, BP!Next, Blocks!vars, BP!vars, Blocks!Outer, BP!Outer,
         Blocks!Advance, BP!Advance, Blocks!Found, BP!Found, Blocks!NotFound,
         BP!NotFound
<1>2. BP!IInv /\ [BP!Next]_(BP!vars) => BP!IInv'
  BY BP!NextIInv, Searchable, Zenon
<1> QED
  BY <1>1, <1>2, SearchIInv

(* A step of this module is a step of the search or leaves it alone. *)
LEMMA SearchStep ==
  ASSUME TypeOK, [Next]_vars
  PROVE  Memory' = Memory /\ [Blocks!Next]_(Blocks!vars)
<1>1. Kept /\ Memory' = Memory
  BY StepKept, Frame DEF Kept
<1>2. CASE FindBasicBlocks
  BY <1>1, <1>2 DEF FindBasicBlocks
<1>3. CASE UNCHANGED block
  BY <1>1, <1>3 DEF block, Blocks!vars
<1>4. ReadFault \/ MakeFunctionText \/ UNCHANGED vars => UNCHANGED block
  BY DEF ReadFault, MakeFunctionText, vars
<1>5. pc # "blocks" => UNCHANGED block
  BY <1>1 DEF Kept
<1> QED
  BY <1>1, <1>2, <1>3, <1>4, <1>5, Calls

(* The implementation of BasicBlocks: seen from the blocks alone, what     *)
(* spu_execute does is their search, whatever is called between its turns. *)
LEMMA SearchStarts == Init => Blocks!Init
<1> SUFFICES ASSUME Init PROVE Blocks!Init
  OBVIOUS
<1>1. TypeOK
  BY DEF Init, TypeOK
<1>2. Memory \in [Begin .. End - 1 -> Word]
  BY <1>1, MemoryType
<1> QED
  BY <1>2 DEF Init, Blocks!Init

(* The search goes on behind words that are not 0. *)
LEMMA BlocksKept ==
  ASSUME TypeOK, BlocksInv, [Next]_vars
  PROVE  BlocksInv'
<1>1. Memory' = Memory /\ [Blocks!Next]_(Blocks!vars) /\ Blocks!IInv
  BY SearchStep DEF BlocksInv
<1>2. Blocks!IInv'
  BY <1>1, SearchNext
<1>3. begin \in Nat /\ at \in Nat /\ \A i \in Searched : i \in Nat
  <2>1. begin \in Begin .. End /\ at \in Begin .. End
    BY <1>1 DEF Blocks!IInv, Blocks!TypeOK
  <2> QED
    BY <2>1, BoundsAssumption DEF Searched
<1>4. /\ \A i \in Searched : i < at \/ i < begin => Memory[i] # Zero
      /\ bpc = "done" => at = End \/ Memory[at] = Zero
  BY DEF BlocksInv
<1>5. /\ \A i \in Searched : i < at' \/ i < begin' => Memory[i] # Zero
      /\ bpc' = "done" => at' = End \/ Memory[at'] = Zero
  <2>1. CASE Blocks!Outer
    <3>1. at' = begin /\ begin' = begin /\ (bpc' = "done" => begin = End)
      BY <2>1 DEF Blocks!Outer
    <3> QED
      BY <1>4, <3>1
  <2>2. CASE Blocks!Advance
    <3>1. /\ at' = at + 1 /\ begin' = begin /\ bpc' = bpc /\ bpc = "inner"
          /\ Memory[at] # Zero
      BY <2>2, Searchable DEF Blocks!Advance
    <3>2. \A i \in Searched : i < at + 1 => i = at \/ i < at
      BY <1>3
    <3> QED
      BY <1>4, <3>1, <3>2
  <2>3. CASE Blocks!Found
    <3>1. /\ at' = at
          /\ \/ Memory[at] = Zero /\ begin' = begin
             \/ Memory[at] # Zero /\ begin' = at + 1 /\ bpc' = "outer"
      BY <2>3 DEF Blocks!Found
    <3>2. \A i \in Searched : i < at + 1 => i = at \/ i < at
      BY <1>3
    <3> QED
      BY <1>4, <3>1, <3>2
  <2>4. CASE Blocks!NotFound
    <3>1. at' = at /\ begin' = begin /\ at = End
      BY <2>4 DEF Blocks!NotFound
    <3> QED
      BY <1>4, <3>1
  <2>5. CASE UNCHANGED Blocks!vars
    <3>1. at' = at /\ begin' = begin /\ bpc' = bpc
      BY <2>5 DEF Blocks!vars
    <3> QED
      BY <1>4, <3>1
  <2> QED
    BY <1>1, <2>1, <2>2, <2>3, <2>4, <2>5 DEF Blocks!Next
<1> QED
  BY <1>1, <1>2, <1>5 DEF BlocksInv, Searched

(* The text of the blocks is made when the search is over. *)
LEMMA PrintedKept ==
  ASSUME TypeOK, PrintedInv, [Next]_vars
  PROVE  PrintedInv'
<1> DEFINE Text == [b \in DOMAIN blocks |->
                      [k \in 1 .. blocks[b].last - blocks[b].first |->
                         Memory[blocks[b].first + k - 1]]]
<1>1. Kept /\ Memory' = Memory
  BY StepKept, Frame DEF Kept
<1>2. CASE bpc = "done" /\ UNCHANGED block
  <2>1. bpc' = "done" /\ Text' = Text /\ blocks' = blocks
    BY <1>1, <1>2 DEF block
  <2>2. printed' = printed \/ printed' = Text
    <3>1. pc # "blocks" \/ UNCHANGED vars => printed' = printed
      BY <1>1 DEF Kept, vars
    <3>2. FindBasicBlocks \/ ReadFault => printed' = printed
      BY DEF FindBasicBlocks, ReadFault
    <3>3. MakeFunctionText => printed' = Text
      BY DEF MakeFunctionText
    <3> QED
      BY <3>1, <3>2, <3>3, Calls
  <2> HIDE DEF Text
  <2>3. printed = <<>> \/ printed = Text
    BY DEF PrintedInv, Text
  <2> QED
    BY <1>2, <2>1, <2>2, <2>3 DEF PrintedInv, Text
<1>3. CASE bpc # "done"
  <2>1. printed = <<>> /\ pc \notin {"symbols", "annotate", "dump", "written"}
    BY <1>3 DEF PrintedInv
  <2>2. pc' \notin {"symbols", "annotate", "dump", "written"}
    BY <1>3, <2>1, Moves
  <2>3. printed' = printed
    <3>1. pc # "blocks" \/ UNCHANGED vars => printed' = printed
      BY <1>1 DEF Kept, vars
    <3>2. FindBasicBlocks \/ ReadFault => printed' = printed
      BY DEF FindBasicBlocks, ReadFault
    <3>3. ~MakeFunctionText
      BY <1>3 DEF MakeFunctionText
    <3> QED
      BY <3>1, <3>2, <3>3, Calls
  <2> QED
    BY <2>1, <2>2, <2>3 DEF PrintedInv
<1>4. bpc = "done" => UNCHANGED block
  <2>1. FindBasicBlocks => bpc # "done"
    BY DEF FindBasicBlocks, Blocks!Next, Blocks!Outer, Blocks!Advance,
           Blocks!Found, Blocks!NotFound
  <2>2. pc # "blocks" \/ UNCHANGED vars => UNCHANGED block
    BY <1>1 DEF Kept, vars
  <2>3. ReadFault \/ MakeFunctionText => UNCHANGED block
    BY DEF ReadFault, MakeFunctionText
  <2> QED
    BY <2>1, <2>2, <2>3, Calls
<1> QED
  BY <1>2, <1>3, <1>4

-----------------------------------------------------------------------------

(* The entry point has a name of its own until all functions get one. *)
LEMMA SymbolsKept ==
  ASSUME TypeOK, HeuristicsInv, SymbolsInv, [Next]_vars
  PROVE  SymbolsInv'
<1> DEFINE Main == [t \in {EntryPosition} |-> "main"]
           Subs == [t \in Begins |-> "sub"]
           S == info.functionSymbols
<1>1. Kept
  BY StepKept
<1>2. /\ restored' = restored /\ Main' = Main /\ Subs' = Subs
      /\ EntryPosition' = EntryPosition
  BY <1>1, Frame DEF Kept, Input
<1>3. /\ pc \in {"branches", "ifs", "jumps", "loads", "targets", "blocks", "symbols"}
           => S = Main
      /\ pc = "annotate" => S = IF restored THEN Subs ELSE Main
      /\ pc \notin {"dump", "written", "lost"} => info.jumpSymbols = <<>>
  BY DEF SymbolsInv, Begins
<1>4. /\ pc' \in {"branches", "ifs", "jumps", "loads", "targets", "blocks", "symbols"}
           => S' = Main
      /\ pc' = "annotate" => S' = IF restored THEN Subs ELSE Main
  <2> HIDE DEF Main, Subs
  <2>1. CASE pc = "heuristics" /\ spuGatherProgramHeuristics
    <3>1. S' = Main /\ pc' \in {"branches", "targets"}
      BY <2>1 DEF spuGatherProgramHeuristics, TypeOK, Main
    <3> QED
      BY <3>1
  <2>2. CASE pc = "symbols" /\ spuBuildFunctionSymbols
    <3>1. restored /\ S = Main
      BY <1>3, <2>2 DEF TypeOK
    <3>2. S' = Merged([t \in Begins |-> "sub"], Main) /\ pc' = "annotate"
      BY <2>2, <3>1, PositionsRead DEF spuBuildFunctionSymbols, TypeOK
    <3>3. EntryPosition \in Begins
      BY BeginsFacts DEF TypeOK
    <3>4. Merged([t \in Begins |-> "sub"], Main) = Subs
      BY <3>3 DEF Merged, Main, Subs
    <3> QED
      BY <3>1, <3>2, <3>4
  <2>3. CASE pc \notin {"heuristics", "symbols"}
    <3>1. S' = S
      BY <1>1, <2>3 DEF Kept
    <3>2. \/ pc' = pc
          \/ pc' \in {"branches", "ifs", "jumps", "loads", "targets", "blocks",
                      "symbols"}
               /\ pc \in {"branches", "ifs", "jumps", "loads", "targets", "blocks"}
          \/ pc' = "annotate" /\ pc = "blocks" /\ ~restored
          \/ pc' \in {"lost", "dump", "written"}
      BY <2>3, Moves
    <3> QED
      BY <1>3, <3>1, <3>2
  <2>4. CASE UNCHANGED vars
    <3>1. S' = S /\ pc' = pc
      BY <2>4 DEF vars
    <3> QED
      BY <1>3, <3>1
  <2> QED
    BY <2>1, <2>2, <2>3, <2>4, Calls
<1>5. pc' \notin {"dump", "written", "lost"} => info'.jumpSymbols = <<>>
  <2>1. CASE pc # "annotate"
    BY <1>1, <1>3, <2>1, Moves DEF Kept
  <2>2. CASE pc = "annotate" /\ pc' # "annotate"
    BY <2>2, Moves
  <2>3. CASE pc = "annotate" /\ pc' = "annotate"
    <3>1. ~Annotate
      BY <2>3 DEF Annotate
    <3>2. UNCHANGED vars
      BY <2>3, <3>1, Calls
    <3> QED
      BY <1>3, <2>3, <3>2 DEF vars
  <2> QED
    BY <2>1, <2>2, <2>3
<1> QED
  BY <1>2, <1>4, <1>5 DEF SymbolsInv, Begins

(* The marks of three lists that are appended. *)
LEMMA MarksAre ==
  ASSUME NEW f, NEW g, NEW i
  PROVE  ToSet(Marks("begin", f, i) \o Marks("label", <<>>, i) \o Marks("goto", g, i))
           = (IF i \in DOMAIN f THEN {[kind |-> "begin", name |-> f[i]]} ELSE {})
               \cup (IF i \in DOMAIN g THEN {[kind |-> "goto", name |-> g[i]]} ELSE {})
<1> DEFINE b == [kind |-> "begin", name |-> f[i]]
           c == [kind |-> "goto", name |-> g[i]]
<1>1. Marks("label", <<>>, i) = <<>>
  BY DEF Marks
<1>2. /\ Marks("begin", f, i) = IF i \in DOMAIN f THEN <<b>> ELSE <<>>
      /\ Marks("goto", g, i) = IF i \in DOMAIN g THEN <<c>> ELSE <<>>
  BY DEF Marks
<1> HIDE DEF b, c
<1>3. <<b>> \o <<>> = <<b>> /\ <<>> \o <<c>> = <<c>> /\ <<b>> \o <<c>> = <<b, c>>
      /\ <<>> \o <<>> = <<>>
  <2>1. <<b>> \o <<>> = <<b>>
    OBVIOUS
  <2>2. <<>> \o <<c>> = <<c>>
    OBVIOUS
  <2>3. <<b>> \o <<c>> = <<b, c>>
    <3> DEFINE s == <<b>>
               t == <<c>>
    <3>1. /\ s \in Seq({b, c}) /\ t \in Seq({b, c}) /\ <<b, c>> \in Seq({b, c})
          /\ Len(s) = 1 /\ Len(t) = 1 /\ Len(<<b, c>>) = 2 /\ s[1] = b /\ t[1] = c
          /\ <<b, c>>[1] = b /\ <<b, c>>[2] = c
      OBVIOUS
    <3> HIDE DEF s, t
    <3>2. /\ s \o t \in Seq({b, c}) /\ Len(s \o t) = 2
          /\ (s \o t)[1] = b /\ (s \o t)[2] = c
      <4>1. /\ s \o t \in Seq({b, c}) /\ Len(s \o t) = Len(s) + Len(t)
            /\ \A k \in 1 .. Len(s) + Len(t) :
                 (s \o t)[k] = IF k <= Len(s) THEN s[k] ELSE t[k - Len(s)]
        <5>1. s \in Seq({b, c}) /\ t \in Seq({b, c})
          BY <3>1
        <5> QED
          BY <5>1, ConcatProperties, Zenon
      <4>2. 1 \in 1 .. Len(s) + Len(t) /\ 2 \in 1 .. Len(s) + Len(t)
            /\ 2 - Len(s) = 1 /\ Len(s) + Len(t) = 2
        BY <3>1
      <4> QED
        BY <3>1, <4>1, <4>2
    <3>3. \A k \in 1 .. Len(s \o t) : (s \o t)[k] = <<b, c>>[k]
      BY <3>1, <3>2
    <3>4. s \o t = <<b, c>>
      BY <3>1, <3>2, <3>3, SeqEqual
    <3> QED
      BY <3>4 DEF s, t
  <2>4. <<>> \o <<>> = <<>>
    OBVIOUS
  <2> QED
    BY <2>1, <2>2, <2>3, <2>4
<1>4. /\ ToSet(<<b>>) = {b} /\ ToSet(<<c>>) = {c} /\ ToSet(<<b, c>>) = {b, c}
      /\ ToSet(<<>>) = {}
  <2>1. ToSet(<<b>>) = {b}
    BY DEF ToSet
  <2>2. ToSet(<<c>>) = {c}
    BY DEF ToSet
  <2>3. ToSet(<<b, c>>) = {b, c}
    BY DEF ToSet
  <2>4. ToSet(<<>>) = {}
    BY DEF ToSet
  <2> QED
    BY <2>1, <2>2, <2>3, <2>4
<1>5. <<b>> \o <<>> \o <<>> = <<b>> /\ <<>> \o <<>> \o <<c>> = <<c>>
      /\ <<b>> \o <<>> \o <<c>> = <<b, c>> /\ <<>> \o <<>> \o <<>> = <<>>
  BY <1>3
<1>6. CASE i \in DOMAIN f /\ i \in DOMAIN g
  BY <1>1, <1>2, <1>4, <1>5, <1>6 DEF b, c
<1>7. CASE i \in DOMAIN f /\ i \notin DOMAIN g
  BY <1>1, <1>2, <1>4, <1>5, <1>7 DEF b, c
<1>8. CASE i \notin DOMAIN f /\ i \in DOMAIN g
  BY <1>1, <1>2, <1>4, <1>5, <1>8 DEF b, c
<1>9. CASE i \notin DOMAIN f /\ i \notin DOMAIN g
  BY <1>1, <1>2, <1>4, <1>5, <1>9 DEF b, c
<1> QED
  BY <1>6, <1>7, <1>8, <1>9

(* The lines are labelled as the listing must be. *)
LEMMA AnnotateLabels ==
  ASSUME TypeOK, HeuristicsInv, FunctionsInv, SymbolsInv, pc = "annotate", Annotate
  PROVE  LinesLabelled(instrInfoText)' /\ hidden' = StackAccesses
<1> DEFINE names == info.functionSymbols
           targets == {info.jumps[i] : i \in DOMAIN info.jumps}
           jumpSymbols == Merged(info.jumpSymbols, [t \in targets |-> ""])
           gotos == [i \in DOMAIN info.jumps |-> jumpSymbols[info.jumps[i]]]
           main == [kind |-> "begin", name |-> "main"]
           sub == [kind |-> "begin", name |-> "sub"]
           goto == [kind |-> "goto", name |-> ""]
           marks(i) == ToSet(instrInfoText'[i].marks)
<1>1. /\ program \in Programs /\ restored \in BOOLEAN /\ Kept
      /\ info.jumpSymbols = <<>>
      /\ names = IF restored THEN [t \in Begins |-> "sub"]
                             ELSE [t \in {EntryPosition} |-> "main"]
  BY StepKept DEF TypeOK, SymbolsInv, Begins, Next
<1>2. \A i \in DOMAIN gotos : gotos[i] = ""
  <2>1. DOMAIN info.jumpSymbols = {}
    BY <1>1
  <2> QED
    BY <2>1 DEF Merged
<1>3. \A i \in Position :
        instrInfoText'[i].marks =
          Marks("begin", names, i) \o Marks("label", <<>>, i)
            \o Marks("goto", gotos, i)
  BY <1>1 DEF Annotate
<1> HIDE DEF gotos, names
<1>4. ASSUME NEW i \in Position
      PROVE  /\ marks(i) \subseteq {main, sub, goto}
             /\ main \in marks(i) <=> i = EntryPosition /\ ~restored
             /\ sub \in marks(i) <=> i \in Begins /\ restored
  <2> DEFINE B == IF i \in DOMAIN names THEN {[kind |-> "begin", name |-> names[i]]}
                                        ELSE {}
             G == IF i \in DOMAIN gotos THEN {[kind |-> "goto", name |-> gotos[i]]}
                                        ELSE {}
  <2>1. marks(i) = B \cup G
    <3>1. marks(i) = ToSet(Marks("begin", names, i) \o Marks("label", <<>>, i)
                             \o Marks("goto", gotos, i))
      BY <1>3
    <3>2. ToSet(Marks("begin", names, i) \o Marks("label", <<>>, i)
                  \o Marks("goto", gotos, i)) = B \cup G
      BY MarksAre, Zenon
    <3> QED
      BY <3>1, <3>2
  <2>2. B = IF restored THEN (IF i \in Begins THEN {sub} ELSE {})
                        ELSE (IF i = EntryPosition THEN {main} ELSE {})
    BY <1>1
  <2>3. G \subseteq {goto}
    BY <1>2
  <2>4. main # sub /\ main # goto /\ sub # goto
    OBVIOUS
  <2> HIDE DEF B, G, main, sub, goto, marks
  <2> QED
    BY <1>1, <2>1, <2>2, <2>3, <2>4
<1>5. /\ restored' = restored /\ EntryPosition' = EntryPosition
      /\ Position' = Position /\ info'.FunctionRanges = info.FunctionRanges
  BY <1>1, Frame DEF Kept, Input
<1>6. \A i : BeginsAt(i)' = BeginsAt(i)
  BY <1>5 DEF BeginsAt
<1>7. \A i \in Position : BeginsAt(i) # {} <=> i \in Begins
  <2>1. info.FunctionRanges = Ranges(Ascending(Begins), Size)
    BY DEF FunctionsInv, Gathered, Begins
  <2> QED
    BY <1>1, <2>1, RangesTile
<1>8. EntryPosition \in Begins
  BY DEF Begins
<1>9. LinesLabelled(instrInfoText)'
  <2>1. ASSUME NEW i \in Position
        PROVE  /\ (\E m \in marks(i) : m.name = "main") <=>
                    i = EntryPosition /\ ~restored
               /\ (\E m \in marks(i) : m.kind = "begin") <=>
                    IF restored THEN BeginsAt(i) # {} ELSE i = EntryPosition
               /\ \A m \in marks(i) : m.kind = "goto" => m.name = ""
               /\ \A m \in marks(i) : m.kind # "label"
    <3>1. /\ main.name = "main" /\ sub.name # "main" /\ goto.name # "main"
          /\ main.kind = "begin" /\ sub.kind = "begin" /\ goto.kind = "goto"
          /\ goto.name = ""
      OBVIOUS
    <3> HIDE DEF main, sub, goto, marks
    <3>2. (\E m \in marks(i) : m.name = "main") <=> main \in marks(i)
      BY <1>4, <3>1
    <3>3. (\E m \in marks(i) : m.kind = "begin") <=>
            main \in marks(i) \/ sub \in marks(i)
      BY <1>4, <3>1
    <3>4. \A m \in marks(i) : (m.kind = "goto" => m.name = "") /\ m.kind # "label"
      BY <1>4, <3>1
    <3> QED
      BY <1>4, <1>7, <3>2, <3>3, <3>4
  <2> QED
    BY <1>5, <1>6, <2>1 DEF LinesLabelled
<1>10. hidden' = StackAccesses
  <2>1. \A m \in {lqd, lqx, stqd, stqx} :
          HideStackOPs(m) = {i \in PositionsOf(m) : program.Binary[i].a = 1}
    <3> TAKE m \in {lqd, lqx, stqd, stqx}
    <3>1. Positions(m) = PositionsOf(m)
      BY PositionsRead
    <3>2. \A i \in PositionsOf(m) : ComponentsOf(program.Binary[i]).RA
                                      = program.Binary[i].a
      BY <1>1, ProgramFacts, MnemonicsRead DEF PositionsOf
    <3> QED
      BY <3>1, <3>2 DEF HideStackOPs
  <2>2. hidden' = UNION {HideStackOPs(m) : m \in {lqd, lqx, stqd, stqx}}
    BY DEF Annotate
  <2>3. hidden' = UNION {{i \in PositionsOf(m) : program.Binary[i].a = 1} :
                            m \in {lqd, lqx, stqd, stqx}}
    BY <2>1, <2>2
  <2>4. ASSUME NEW i
        PROVE  i \in hidden' <=>
                 \E m \in {lqd, lqx, stqd, stqx} :
                   i \in Position /\ MnemonicOf(program.Binary[i]) = m
                     /\ program.Binary[i].a = 1
    BY <2>3 DEF PositionsOf
  <2>5. \A i : i \in hidden' <=> i \in StackAccesses
    BY <2>4 DEF StackAccesses
  <2> QED
    BY <2>5
<1> QED
  BY <1>9, <1>10

(* The lines stay as they were annotated and are what is written. *)
LEMMA LinesKept ==
  ASSUME TypeOK, HeuristicsInv, FunctionsInv, SymbolsInv, LinesInv, [Next]_vars
  PROVE  LinesInv'
<1>1. Kept
  BY StepKept
<1>2. /\ restored' = restored /\ program' = program /\ Size' = Size
      /\ Position' = Position /\ EntryPosition' = EntryPosition
      /\ StackAccesses' = StackAccesses
  BY <1>1, Frame DEF Kept, Input
<1>3. ASSUME pc' \in {"dump", "written"}
      PROVE  LinesLabelled(instrInfoText)' /\ hidden' = StackAccesses'
  <2>1. CASE pc = "annotate" /\ Annotate
    BY <1>2, <2>1, AnnotateLabels
  <2>2. CASE pc # "annotate" \/ UNCHANGED vars
    <3>1. /\ instrInfoText' = instrInfoText /\ hidden' = hidden
          /\ info'.FunctionRanges = info.FunctionRanges
          /\ pc \in {"dump", "written"}
      <4>1. CASE pc # "annotate"
        <5>1. pc \in {"dump", "written"}
          BY <1>3, <4>1, Moves
        <5> QED
          BY <1>1, <5>1 DEF Kept, lines
      <4>2. CASE UNCHANGED vars
        BY <1>3, <4>2 DEF vars, lines
      <4> QED
        BY <2>2, <4>1, <4>2
    <3>2. LinesLabelled(instrInfoText) /\ hidden = StackAccesses
      BY <3>1 DEF LinesInv
    <3>3. \A i : BeginsAt(i)' = BeginsAt(i)
      BY <3>1 DEF BeginsAt
    <3> QED
      BY <1>2, <3>1, <3>2, <3>3 DEF LinesLabelled
  <2> QED
    BY <2>1, <2>2, Calls
<1>4. ASSUME pc' = "written"
      PROVE  /\ intr' \in {NoFile, InstrText'} /\ nfo' \in {NoFile, instrInfoText'}
             /\ Size' = 0 => intr' = NoFile
  <2>1. CASE pc = "dump" /\ spuDumpInstrTextToFile
    <3>1. hidden' = hidden /\ instrInfoText' = instrInfoText
      BY <2>1 DEF spuDumpInstrTextToFile, lines
    <3>2. InstrText' = InstrText
      BY <1>2, <3>1 DEF InstrText
    <3> QED
      BY <1>2, <1>4, <2>1, <3>1, <3>2 DEF spuDumpInstrTextToFile
  <2>2. CASE pc # "dump" \/ UNCHANGED vars
    <3>1. pc = "written"
      <4>1. UNCHANGED vars => pc' = pc
        BY DEF vars
      <4> QED
        BY <1>4, <2>2, <4>1, Moves
    <3>2. hidden' = hidden /\ instrInfoText' = instrInfoText /\ intr' = intr /\ nfo' = nfo
      BY <1>1, <3>1 DEF Kept, lines, files
    <3>3. InstrText' = InstrText
      BY <1>2, <3>2 DEF InstrText
    <3> QED
      BY <1>2, <3>1, <3>2, <3>3 DEF LinesInv
  <2> QED
    BY <2>1, <2>2, Calls
<1> QED
  BY <1>3, <1>4 DEF LinesInv

(* What has ended badly had too few branches, no end or no instructions.  *)
LEMMA LostKept ==
  ASSUME TypeOK, HeuristicsInv, BlocksInv, LostInv, [Next]_vars
  PROVE  LostInv'
<1>1. Kept
  BY StepKept
<1>2. NoLoop' = NoLoop /\ Unstopped' = Unstopped /\ Size' = Size
  BY <1>1, Frame DEF Kept
<1> SUFFICES ASSUME pc' = "lost" PROVE NoLoop \/ Unstopped \/ Size = 0
  BY <1>2 DEF LostInv
<1>3. program \in Programs
  BY DEF TypeOK
<1>4. CASE pc = "branches" /\ spuGatherStaticBranches
  <2>1. PICK s \in SetToSeqs(Conditional) : pc' = IF Len(s) < 2 THEN "lost" ELSE "ifs"
    BY <1>4, PositionsRead DEF spuGatherStaticBranches
  <2>2. Len(s) = Cardinality(ConditionalAt) /\ Len(s) < 2
    BY <1>3, <2>1, BranchesListed
  <2>3. restored
    BY <1>4 DEF TypeOK
  <2> QED
    BY <2>2, <2>3 DEF NoLoop
<1>5. CASE ReadFault
  <2>1. at \in Size .. End - 1 /\ Size \in Nat /\ End \in Nat /\ Begin \in Nat
    BY <1>3, <1>5, ProgramFacts, BoundsAssumption DEF ReadFault
  <2>2. ASSUME NEW i \in Begin .. Size - 1 PROVE program.Binary[i] # Zero
    <3>1. i \in Searched /\ i < at /\ i < Size
      BY <2>1 DEF Searched
    <3> QED
      BY <3>1 DEF BlocksInv, Memory
  <2> QED
    BY <2>1, <2>2 DEF Unstopped
<1>6. CASE pc = "dump" /\ spuDumpInstrTextToFile
  BY <1>6 DEF spuDumpInstrTextToFile
<1>7. CASE pc = "lost"
  BY <1>7 DEF LostInv
<1>8. UNCHANGED vars \/ FindBasicBlocks => pc = "lost"
  BY DEF vars, FindBasicBlocks
<1>9. ~MakeFunctionText
  BY DEF MakeFunctionText
<1> QED
  BY <1>4, <1>5, <1>6, <1>7, <1>8, <1>9, Calls, Moves

-----------------------------------------------------------------------------

(* When spu_execute begins nothing has been gathered. *)
LEMMA InitIInv == Init => IInv
<1> SUFFICES ASSUME Init PROVE IInv
  OBVIOUS
<1>1. TypeOK
  BY DEF Init, TypeOK
<1>2. HeuristicsInv
  <2>1. info.heuristics = <<>> /\ pc = "heuristics"
    BY DEF Init
  <2>2. {MnemonicOf(program.Binary[i]) : i \in {}} = {}
    OBVIOUS
  <2>3. <<>> = [m \in {} |-> PositionsOf(m)]
    OBVIOUS
  <2> QED
    BY <2>1, <2>2, <2>3 DEF HeuristicsInv
<1>3. IfsInv
  <2>1. BrIfVector = <<>> /\ first1 = 1 /\ pc = "heuristics"
    BY DEF Init
  <2>2. ToSet(BrIfVector) = {} /\ BrIfVector \in Seq(ToSet(BrIfVector))
    BY <2>1 DEF ToSet
  <2> QED
    BY <2>1, <2>2 DEF IfsInv, ToIfs
<1>4. BlocksInv
  <2>1. Blocks!Init
    BY SearchStarts
  <2>2. Blocks!IInv
    BY <2>1, SearchInit
  <2>3. \A i \in Searched : ~(i < Begin)
    BY BoundsAssumption DEF Searched
  <2> QED
    BY <2>2, <2>3 DEF BlocksInv, Init
<1>5. BranchesInv /\ AddressesAccessed /\ FunctionsInv
  BY DEF Init, BranchesInv, AddressesAccessed, FunctionsInv, Gathered
<1>6. PrintedInv /\ SymbolsInv /\ LinesInv /\ LostInv
  BY DEF Init, PrintedInv, SymbolsInv, LinesInv, LostInv
<1> QED
  BY <1>1, <1>2, <1>3, <1>4, <1>5, <1>6 DEF IInv

(* Every call keeps what the calls before it have left. *)
LEMMA NextIInv == IInv /\ [Next]_vars => IInv'
<1> SUFFICES ASSUME IInv, [Next]_vars PROVE IInv'
  OBVIOUS
<1>1. /\ TypeOK /\ HeuristicsInv /\ BranchesInv /\ IfsInv /\ AddressesAccessed
      /\ FunctionsInv /\ BlocksInv /\ PrintedInv /\ SymbolsInv /\ LinesInv
      /\ LostInv
  BY DEF IInv
<1>2. TypeOK' /\ HeuristicsInv'
  BY <1>1, TypeKept, HeuristicsKept
<1>3. BranchesInv' /\ IfsInv'
  BY <1>1, BranchesKept, IfsKept
<1>4. AddressesAccessed' /\ FunctionsInv'
  BY <1>1, AddressesKept, FunctionsKept
<1>5. BlocksInv' /\ PrintedInv'
  BY <1>1, BlocksKept, PrintedKept
<1>6. SymbolsInv' /\ LinesInv'
  BY <1>1, SymbolsKept, LinesKept
<1>7. LostInv'
  BY <1>1, LostKept
<1> QED
  BY <1>2, <1>3, <1>4, <1>5, <1>6, <1>7 DEF IInv

(* IInv is inductive: between any two calls of spu_execute, whichever of   *)
(* the commented-out ones are made, what was gathered is what the calls    *)
(* after it rely on.                                                       *)
THEOREM Invariance == Spec => []IInv
BY InitIInv, NextIInv, PTL DEF Spec

(* The loops of FindBasicBlockInRange are BasicBlocks, on the words of the *)
(* program and the memory behind it: what BasicBlocksProofs shows of the   *)
(* blocks holds of those spu_execute finds.                                *)
THEOREM SearchImplemented == Spec => Blocks!Spec
<1>1. IInv /\ [Next]_vars => [Blocks!Next]_(Blocks!vars)
  BY SearchStep DEF IInv
<1> QED
  BY <1>1, Invariance, SearchStarts, PTL DEF Spec, Blocks!Spec

(* The functions spuGatherStaticCallTargets finds tile the program, for    *)
(* every program and all its calls, and are ranges inside it exactly when  *)
(* no call leaves it; the addresses spuGatherLoads finds are those the     *)
(* loads and stores access.                                                *)
THEOREM Gathering == Spec => []GatheredRight
<1>1. ASSUME IInv PROVE GatheredRight
  <2>1. program \in Programs /\ AddressesAccessed /\ FunctionsInv
    BY <1>1 DEF IInv, TypeOK
  <2>2. ASSUME Gathered
        PROVE  info.FunctionRanges = Ranges(Ascending(Begins), Size)
    BY <2>1, <2>2 DEF FunctionsInv, Begins
  <2>3. Callees \subseteq Begins /\ Callees \cup {EntryPosition} = Begins
    BY DEF Begins
  <2>4. FunctionsTile
    <3> SUFFICES ASSUME Gathered
        PROVE  LET F == ToSet(info.FunctionRanges)
               IN /\ \A i \in Position :
                       Cardinality(RangesWith(i)) =
                         IF \E f \in F : f.begin <= i THEN 1 ELSE 0
                  /\ \A t \in Callees :
                       \E f \in BeginsAt(t) : t < Size => f \in RangesWith(t)
                  /\ (\A f \in F : f.begin < f.end /\ f.end <= Size)
                       <=> Callees \cup {EntryPosition} \subseteq Position
      BY DEF FunctionsTile
    <3> QED
      BY <2>1, <2>2, <2>3, RangesTile
  <2> QED
    BY <2>1, <2>4 DEF GatheredRight
<1> QED
  BY <1>1, Invariance, PTL

(* Comparing each branch with the next one only, the loop behind the sort  *)
(* of spuGatherStaticBranches finds exactly the simple ifs, in every order *)
(* the sort may leave branches that begin together in.                     *)
THEOREM Ifs == Spec => []IfsAreSimple
<1>1. ASSUME IInv PROVE IfsAreSimple
  <2> SUFFICES ASSUME restored, ToIfs PROVE IfsAreSimple
    BY DEF IfsAreSimple
  <2> DEFINE s == info.staticBranches
  <2>1. program \in Programs /\ s \in SetToSeqs(Conditional) /\ InOrder(s)
    BY <1>1 DEF IInv, TypeOK, BranchesInv, ToIfs
  <2>2. Len(s) \in Nat
    BY <2>1, BranchesListed
  <2>3. first1 = Len(s) + 1
    BY <1>1 DEF IInv, IfsInv
  <2>4. first1 - 1 = Len(s)
    <3> HIDE DEF s
    <3> QED
      BY <2>2, <2>3
  <2>5. ToSet(BrIfVector) = {s[k] : k \in {j \in 1 .. Len(s) : IsIf(s, j)}}
    BY <1>1, <2>4 DEF IInv, IfsInv
  <2> QED
    BY <2>1, <2>5, IfsSimple DEF IfsAreSimple
<1> QED
  BY <1>1, Invariance, PTL

(* Both texts are right: only the last word of a paragraph of the blocks'  *)
(* text returns, jumps or stops, but for stopd; the lines of the listing   *)
(* have the marks and the comments they should.                            *)
THEOREM Texts == Spec => []TextsRight
<1>1. ASSUME IInv PROVE ReturnsEndBlocks
  <2> SUFFICES ASSUME NEW b \in DOMAIN printed, NEW k \in DOMAIN printed[b],
                      LET w == printed[b][k]
                      IN \/ IsUnconditionalReturn(w) \/ IsConditionalReturn(w)
                         \/ GetJumpAmount(w) # 0 \/ IsSTOP(w)
               PROVE  k = Len(printed[b]) \/ printed[b][k].op = 320
    BY DEF ReturnsEndBlocks
  <2>1. /\ Blocks!IInv /\ Memory \in [Begin .. End - 1 -> Word]
        /\ Begin \in Nat /\ End \in Nat
    BY <1>1, MemoryType, BoundsAssumption DEF IInv, BlocksInv
  <2>2. printed = [c \in DOMAIN blocks |->
                     [j \in 1 .. blocks[c].last - blocks[c].first |->
                        Memory[blocks[c].first + j - 1]]]
    BY <1>1 DEF IInv, PrintedInv
  <2>3. b \in 1 .. Len(blocks) /\ blocks[b] \in [first : Begin .. End, last : Begin .. End]
    <3>1. blocks \in Seq([first : Begin .. End, last : Begin .. End])
      BY <2>1 DEF Blocks!IInv, Blocks!TypeOK
    <3>2. b \in DOMAIN blocks
      BY <2>2
    <3> DEFINE B == [first : Begin .. End, last : Begin .. End]
    <3> HIDE DEF B
    <3>3. blocks \in Seq(B)
      BY <3>1 DEF B
    <3>4. b \in 1 .. Len(blocks) /\ blocks[b] \in B
      BY <3>2, <3>3
    <3> QED
      BY <3>4 DEF B
  <2> DEFINE first == blocks[b].first
             last == blocks[b].last
             i == first + k - 1
  <2>4. /\ first < last
        /\ \A j \in first .. last - 2 : Memory[j] \notin {w \in Word : EndsBlock(w)}
    BY <2>1, <2>3 DEF Blocks!IInv, Blocks!BlocksTile, Blocks!BlocksStraight
  <2>5. /\ printed[b] = [j \in 1 .. last - first |-> Memory[first + j - 1]]
        /\ first \in Begin .. End /\ last \in Begin .. End
    BY <2>2, <2>3
  <2> HIDE DEF first, last
  <2>6. /\ first \in Nat /\ last \in Nat /\ last - first \in Nat
        /\ k \in 1 .. last - first /\ printed[b][k] = Memory[i]
        /\ Len(printed[b]) = last - first
    BY <2>1, <2>4, <2>5
  <2>7. i \in Begin .. End - 1
    BY <2>1, <2>5, <2>6
  <2>8. printed[b][k] \in Word
    BY <2>1, <2>6, <2>7
  <2>9. EndsBlock(printed[b][k]) \/ printed[b][k].op = 320
    BY <2>8, ClassifiedEndsBlock
  <2>10. EndsBlock(printed[b][k]) => i \notin first .. last - 2
    BY <2>4, <2>6, <2>8
  <2>11. i \in first .. last - 2 \/ k = last - first
    BY <2>6
  <2> QED
    BY <2>6, <2>9, <2>10, <2>11
<1>2. ASSUME IInv PROVE ListingLabelled
  <2>1. ASSUME pc = "written"
        PROVE  /\ LinesLabelled(instrInfoText) /\ hidden = StackAccesses
               /\ intr \in {NoFile, InstrText} /\ nfo \in {NoFile, instrInfoText}
    BY <1>2, <2>1 DEF IInv, LinesInv
  <2>2. ASSUME pc = "written", intr # NoFile, NEW i \in Position
        PROVE  intr[i].prefix = "//" <=>
                 /\ MnemonicOf(intr[i].word) \in {lqd, lqx, stqd, stqx}
                 /\ intr[i].word.a = 1
    <3>1. /\ intr[i].prefix = IF i \in hidden THEN "//" ELSE ""
          /\ intr[i].word = program.Binary[i]
      <4>1. intr = InstrText
        BY <2>1, <2>2
      <4>2. /\ InstrText[i].prefix = IF i \in hidden THEN "//" ELSE ""
            /\ InstrText[i].word = program.Binary[i]
        BY DEF InstrText
      <4> QED
        BY <4>1, <4>2
    <3>2. intr[i].prefix = "//" <=> i \in StackAccesses
      BY <2>1, <2>2, <3>1
    <3> QED
      BY <3>1, <3>2 DEF StackAccesses
  <2> QED
    BY <2>1, <2>2 DEF ListingLabelled
<1> QED
  BY <1>1, <1>2, Invariance, PTL DEF TextsRight

(* Where something outside a vector can be read or written, for programs   *)
(* of every length: with fewer than two branches, without instructions,    *)
(* and behind a program without a word 0 in the range that is searched.    *)
THEOREM Bounds == Spec => []OutOfBounds
<1>1. ASSUME IInv PROVE OutOfBounds
  <2>1. program \in Programs /\ Size \in Nat /\ Begin \in Nat /\ End \in Nat
    BY <1>1, ProgramFacts, BoundsAssumption DEF IInv, TypeOK
  <2>2. pc = "lost" => NoLoop \/ Unstopped \/ Size = 0
    BY <1>1 DEF IInv, LostInv
  <2>3. ASSUME pc = "written" PROVE ~NoLoop /\ (Size = 0 => intr = NoFile)
    <3>1. ASSUME restored PROVE ~(Cardinality(ConditionalAt) < 2)
      <4>1. /\ info.staticBranches \in SetToSeqs(Conditional)
            /\ Len(info.staticBranches) >= 2
        BY <1>1, <2>3, <3>1 DEF IInv, BranchesInv
      <4>2. /\ Len(info.staticBranches) = Cardinality(ConditionalAt)
            /\ Len(info.staticBranches) \in Nat
        BY <2>1, <4>1, BranchesListed
      <4> QED
        BY <4>1, <4>2
    <3>2. Size = 0 => intr = NoFile
      BY <1>1, <2>3 DEF IInv, LinesInv
    <3> QED
      BY <3>1, <3>2 DEF NoLoop
  <2>4. ASSUME bpc = "done", Size < End PROVE at >= Size <=> Unstopped
    <3>1. /\ at \in Begin .. End
          /\ \A i \in Searched : i < at => Memory[i] # Zero
          /\ at = End \/ Memory[at] = Zero
      BY <1>1, <2>4 DEF IInv, BlocksInv, Blocks!IInv, Blocks!TypeOK
    <3>2. \A i \in Begin .. Size - 1 : i \in Searched /\ Memory[i] = program.Binary[i]
      BY <2>1, <2>4 DEF Searched, Memory
    <3>3. ASSUME at >= Size PROVE Unstopped
      <4>1. ASSUME NEW i \in Begin .. Size - 1 PROVE program.Binary[i] # Zero
        <5>1. i \in Searched /\ i < at
          BY <2>1, <3>1, <3>2, <3>3
        <5> QED
          BY <3>1, <3>2, <5>1
      <4> QED
        BY <2>4, <4>1 DEF Unstopped
    <3>4. ASSUME Unstopped, ~(at >= Size) PROVE FALSE
      <4>1. at \in Begin .. Size - 1 /\ at # End
        BY <2>1, <2>4, <3>1, <3>4
      <4>2. program.Binary[at] = Zero
        BY <3>1, <3>2, <4>1
      <4> QED
        BY <3>4, <4>1, <4>2 DEF Unstopped
    <3> QED
      BY <3>3, <3>4
  <2> QED
    BY <2>2, <2>3, <2>4 DEF OutOfBounds
<1> QED
  BY <1>1, Invariance, PTL
=============================================================================
