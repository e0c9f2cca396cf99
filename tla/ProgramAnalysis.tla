--------------------------- MODULE ProgramAnalysis --------------------------
(***************************************************************************)
(* What spu_execute does with one extracted program: gather the positions  *)
(* of every instruction, the functions, the basic blocks (BasicBlocks,     *)
(* whose steps are steps of this module) and their text, then annotate and *)
(* write a line for each instruction into two files.                       *)
(*                                                                         *)
(* Four calls of spu_execute are commented out, and the functions behind   *)
(* them have no other caller.  restored says whether they are called at    *)
(* the places of those lines, so that both programs are modelled: the one  *)
(* that is built and the one its authors switch to.                        *)
(*                                                                         *)
(* A line of text is what it is made of: the pseudo code of a word is the  *)
(* word, as PseudoForms says what is printed of it.                        *)
(***************************************************************************)
EXTENDS StaticFlow

CONSTANTS
  Programs,     \* the programs the driver extracts
  Garbage,      \* words the memory behind a program may hold
  Begin, End    \* 66 and 193: what is searched for basic blocks

ASSUME BoundsAssumption == Begin \in Nat /\ End \in Nat /\ Begin <= End

(* The words of a program are numbered from 0 on by a uint32_t, and the    *)
(* entry point is not in front of the segment it lies in.                  *)
ASSUME ProgramsAssumption ==
  \A p \in Programs :
    /\ LET n == Cardinality(DOMAIN p.Binary)
       IN n \in Nat /\ n <= UInt /\ p.Binary \in [0 .. n - 1 -> Word]
    /\ p.EntryPoint \in Nat /\ p.VirtualBaseAddress \in Nat
    /\ p.EntryPoint >= p.VirtualBaseAddress

ASSUME GarbageAssumption == Garbage \subseteq Word

VARIABLES
  restored,      \* the commented-out calls are made
  program,       \* Binary, EntryPoint and VirtualBaseAddress
  heap,          \* the words behind a Binary that is shorter than End
  pc,            \* the call spu_execute is in, or "lost": what the code does
                 \* is undefined from there on
  info,          \* spu_info_t
  BrIfVector,    \* local to spuGatherStaticBranches, as first1 is
  first1,
  addresses,     \* the sets of spuGatherLoads, in one
  bpc, begin, at, blocks,   \* BasicBlocks
  printed,       \* the text of the blocks, as words
  instrInfoText, \* a line for each instruction: its address and its marks
  hidden,        \* the instructions whose line in the text is commented out
  intr, nfo      \* the two files, NoFile if they could not be opened

block == <<bpc, begin, at, blocks>>
branch == <<BrIfVector, first1>>
lines == <<instrInfoText, hidden>>
files == <<intr, nfo>>
vars == <<restored, program, heap, pc, info, branch, addresses, block, printed,
          lines, files>>

NoFile == <<"not opened">>

Size == Cardinality(DOMAIN program.Binary)
Position == 0 .. Size - 1
Searched == Begin .. End - 1

(* program->Binary[i] of any i that is searched. *)
Memory == [i \in Searched |-> IF i < Size THEN program.Binary[i] ELSE heap[i]]

Zero == WordOf(0, 0, 0, 0)

Blocks == INSTANCE BasicBlocks WITH
  IsBrach <- {w \in Word : EndsBlock(w)},
  Binary <- Memory, pc <- bpc

Init ==
  /\ restored \in BOOLEAN
  /\ program \in Programs
  /\ heap \in [{i \in Searched : i >= Size} -> Garbage]
  /\ pc = "heuristics"
  /\ info = [heuristics |-> <<>>, staticBranches |-> <<>>,
             FunctionRanges |-> <<>>, functionSymbols |-> <<>>,
             jumps |-> <<>>, jumpSymbols |-> <<>>]
  /\ BrIfVector = <<>>
  /\ first1 = 1
  /\ addresses = {}
  /\ bpc = "outer" /\ begin = Begin /\ at = Begin /\ blocks = <<>>
  /\ printed = <<>>
  /\ instrInfoText = <<>>
  /\ hidden = {}
  /\ intr = NoFile /\ nfo = NoFile

-----------------------------------------------------------------------------

(* The positions heuristics holds under a mnemonic. *)
Positions(mnemonic) ==
  IF mnemonic \in DOMAIN info.heuristics THEN info.heuristics[mnemonic] ELSE {}

EntryPosition == (program.EntryPoint - program.VirtualBaseAddress) \div 4

spuGatherProgramHeuristics ==
  /\ pc = "heuristics"
  /\ pc' = IF restored THEN "branches" ELSE "targets"
  /\ LET mnemonics == {MnemonicOf(program.Binary[i]) : i \in Position}
     IN info' = [info EXCEPT
          !.heuristics = [m \in mnemonics |->
            {i \in Position : MnemonicOf(program.Binary[i]) = m}],
          !.functionSymbols = [t \in {EntryPosition} |-> "main"]]
  /\ UNCHANGED <<restored, program, heap, branch, addresses, block, printed,
                 lines, files>>

BranchesOf(mnemonics) ==
  {Branch(i, program.Binary[i]) : i \in UNION {Positions(m) : m \in mnemonics}}

InOrder(s) ==
  \A i, j \in DOMAIN s :
    i < j => s[i].BranchBlockBegin <= s[j].BranchBlockBegin

(* Mutant: one branch is enough to start the loop. *)
StaticBranchesFromOne ==
  /\ pc = "branches"
  /\ \E s \in SetToSeqs(BranchesOf({brz, brnz, brhz, brhnz})) :
       /\ InOrder(s)
       /\ info' = [info EXCEPT !.staticBranches = s]
       /\ pc' = IF s = <<>> THEN "lost" ELSE "ifs"
  /\ UNCHANGED <<restored, program, heap, branch, addresses, block, printed,
                 lines, files>>

(* The branches are sorted by where their blocks begin, those that begin   *)
(* together in any order.  With fewer than two of them the loop behind     *)
(* this starts or runs outside the vector.                                 *)
spuGatherStaticBranches ==
  /\ pc = "branches"
  /\ \E s \in SetToSeqs(BranchesOf({brz, brnz, brhz, brhnz})) :
       /\ InOrder(s)
       /\ info' = [info EXCEPT !.staticBranches = s]
       /\ pc' = IF Len(s) < 2 THEN "lost" ELSE "ifs"
  /\ UNCHANGED <<restored, program, heap, branch, addresses, block, printed,
                 lines, files>>

(* Mutant: whatever begins later is taken to begin outside. *)
CollectIfUnchecked ==
  /\ pc = "ifs"
  /\ LET s == info.staticBranches
     IN /\ BrIfVector' = IF s[first1].AdvanceAmount > 0
                         THEN Append(BrIfVector, s[first1]) ELSE BrIfVector
        /\ first1' = first1 + 1
        /\ pc' = IF first1 = Len(s) THEN "jumps" ELSE "ifs"
  /\ UNCHANGED <<restored, program, heap, info, addresses, block, printed,
                 lines, files>>

(* A turn of the loop over the branches: one that jumps forward, and whose *)
(* block the next branch's does not begin in, is an if.  The last branch   *)
(* has no next.                                                            *)
CollectIf ==
  /\ pc = "ifs"
  /\ LET s == info.staticBranches
         last == first1 = Len(s)
         isIf == /\ s[first1].AdvanceAmount > 0
                 /\ last \/ ~Overlaps(s[first1], s[first1 + 1])
     IN /\ BrIfVector' = IF isIf THEN Append(BrIfVector, s[first1])
                                 ELSE BrIfVector
        /\ first1' = first1 + 1
        /\ pc' = IF last THEN "jumps" ELSE "ifs"
  /\ UNCHANGED <<restored, program, heap, info, addresses, block, printed,
                 lines, files>>

spuGatherJumps ==
  /\ pc = "jumps"
  /\ pc' = "loads"
  /\ info' = [info EXCEPT !.jumps =
       [i \in Positions(br) |->
          Target(i, ComponentsOf(program.Binary[i]).IMM)]]
  /\ UNCHANGED <<restored, program, heap, branch, addresses, block, printed,
                 lines, files>>

spuGatherLoads ==
  /\ pc = "loads"
  /\ pc' = "targets"
  /\ addresses' =
       {<<i, AbsAddress(program.Binary[i])>> :
          i \in Positions(lqa) \cup Positions(stqa)}
       \cup {<<i, RelAddress(program.VirtualBaseAddress, i, program.Binary[i])>> :
               i \in Positions(lqr) \cup Positions(stqr)}
  /\ UNCHANGED <<restored, program, heap, info, branch, block, printed, lines,
                 files>>

StaticCallTargets ==
  {EntryPosition} \cup
  {Target(i, ComponentsOf(program.Binary[i]).IMM) : i \in Positions(brsl)}

(* The first part of spuGatherStaticCallTargets, up to the basic blocks.   *)
spuGatherStaticCallTargets ==
  /\ pc = "targets"
  /\ pc' = "blocks"
  /\ info' = [info EXCEPT !.FunctionRanges =
       Ranges(Ascending(StaticCallTargets), Size)]
  /\ UNCHANGED <<restored, program, heap, branch, addresses, block, printed,
                 lines, files>>

(* FindBasicBlockInRange, step by step. *)
FindBasicBlocks ==
  /\ pc = "blocks"
  /\ UNCHANGED <<restored, program, heap, pc, info, branch, addresses, printed,
                 lines, files>>
  /\ Blocks!Next

(* A word behind the program can be read, as heap says, or cannot. *)
ReadFault ==
  /\ pc = "blocks"
  /\ bpc = "inner"
  /\ at \in Size .. End - 1
  /\ pc' = "lost"
  /\ UNCHANGED <<restored, program, heap, info, branch, addresses, block,
                 printed, lines, files>>

MakeFunctionText ==
  /\ pc = "blocks"
  /\ bpc = "done"
  /\ pc' = IF restored THEN "symbols" ELSE "annotate"
  /\ printed' = [b \in DOMAIN blocks |->
       [k \in 1 .. blocks[b].last - blocks[b].first |->
          Memory[blocks[b].first + k - 1]]]
  /\ UNCHANGED <<restored, program, heap, info, branch, addresses, block, lines,
                 files>>

(* f, and what g has besides. *)
Merged(f, g) ==
  [x \in DOMAIN f \cup DOMAIN g |-> IF x \in DOMAIN f THEN f[x] ELSE g[x]]

(* The entry point is one of the begins, and loses its name. *)
spuBuildFunctionSymbols ==
  /\ pc = "symbols"
  /\ pc' = "annotate"
  /\ info' = [info EXCEPT !.functionSymbols =
       Merged([t \in StaticCallTargets |-> "sub"], @)]
  /\ UNCHANGED <<restored, program, heap, branch, addresses, block, printed,
                 lines, files>>

Marks(kind, names, i) ==
  IF i \in DOMAIN names THEN <<[kind |-> kind, name |-> names[i]]>> ELSE <<>>

HideStackOPs(mnemonic) ==
  {i \in Positions(mnemonic) : ComponentsOf(program.Binary[i]).RA = 1}

(* The lines: the address, "begin" with the name of a function, a label, a *)
(* "goto" with the label of its target, which asking for creates.          *)
Annotate ==
  /\ pc = "annotate"
  /\ pc' = "dump"
  /\ LET targets == {info.jumps[i] : i \in DOMAIN info.jumps}
         jumpSymbols == Merged(info.jumpSymbols, [t \in targets |-> ""])
         gotos == [i \in DOMAIN info.jumps |-> jumpSymbols[info.jumps[i]]]
     IN /\ info' = [info EXCEPT !.jumpSymbols = jumpSymbols]
        /\ instrInfoText' = [i \in Position |->
             [address |-> program.VirtualBaseAddress + 4 * i,
              marks |-> Marks("begin", info.functionSymbols, i)
                          \o Marks("label", info.jumpSymbols, i)
                          \o Marks("goto", gotos, i)]]
  /\ hidden' = UNION {HideStackOPs(m) : m \in {lqd, lqx, stqd, stqx}}
  /\ UNCHANGED <<restored, program, heap, branch, addresses, block, printed,
                 files>>

InstrText ==
  [i \in Position |-> [prefix |-> IF i \in hidden THEN "//" ELSE "",
                       word |-> program.Binary[i],
                       address |-> program.VirtualBaseAddress + 4 * i]]

(* Either file can fail to open.  The text of no instructions has no last  *)
(* line to leave the line end away from.                                   *)
spuDumpInstrTextToFile ==
  /\ pc = "dump"
  /\ intr' \in {NoFile, InstrText}
  /\ nfo' \in {NoFile, instrInfoText}
  /\ pc' = IF Size = 0 /\ intr' # NoFile THEN "lost" ELSE "written"
  /\ UNCHANGED <<restored, program, heap, info, branch, addresses, block,
                 printed, lines>>

Next ==
  \/ spuGatherProgramHeuristics
  \/ spuGatherStaticBranches \/ CollectIf
  \/ spuGatherJumps \/ spuGatherLoads
  \/ spuGatherStaticCallTargets
  \/ FindBasicBlocks \/ ReadFault \/ MakeFunctionText
  \/ spuBuildFunctionSymbols
  \/ Annotate \/ spuDumpInstrTextToFile

Spec == Init /\ [][Next]_vars

-----------------------------------------------------------------------------

(* Where the ranges of functions are used, from the basic blocks on. *)
Gathered == pc \in {"blocks", "symbols", "annotate", "dump", "written"}

BeginsAt(i) == {f \in ToSet(info.FunctionRanges) : f.begin = i}
RangesWith(i) ==
  {f \in ToSet(info.FunctionRanges) : f.begin <= i /\ i < f.end}

Callees ==
  {Target(i, ComponentsOf(program.Binary[i]).IMM) :
     i \in {j \in Position : MnemonicOf(program.Binary[j]) = brsl}}

(* The functions tile the program: every word from the first function on   *)
(* belongs to exactly one of them, a call leads to where one begins, and   *)
(* code in front of the first belongs to none.  The ranges are not empty   *)
(* and inside the program exactly when no call leaves it and the entry     *)
(* point is in it: the code checks neither.                                *)
FunctionsTile ==
  Gathered =>
    LET F == ToSet(info.FunctionRanges)
    IN /\ \A i \in Position :
            Cardinality(RangesWith(i)) =
              IF \E f \in F : f.begin <= i THEN 1 ELSE 0
       /\ \A t \in Callees : \E f \in BeginsAt(t) : t < Size => f \in RangesWith(t)
       /\ (\A f \in F : f.begin < f.end /\ f.end <= Size) <=>
            Callees \cup {EntryPosition} \subseteq Position

(* The addresses gathered are those spu_lqa and spu_lqr access when the    *)
(* instruction pointer is the address of the instruction.                  *)
AddressesAccessed ==
  \A x \in addresses :
    LET w == program.Binary[x[1]]
        IP == IF MnemonicOf(w) \in {lqr, stqr}
              THEN program.VirtualBaseAddress + 4 * x[1] ELSE 0
    IN x[2] = 16 * (((4 * SignExtend(I16(w), 65536) + IP) \div 16) % 16384)

(* What is gathered for later uses is right: the functions, and the        *)
(* addresses of loads and stores.                                          *)
GatheredRight == FunctionsTile /\ AddressesAccessed

ToIfs == pc \notin {"heuristics", "branches", "ifs", "lost"}

(* An if is a forward branch in whose block no other branch's block begins *)
(* - a loop that begins with the very instruction may be sorted either way *)
(* - and no two ifs share a word.  Blocks that begin earlier and reach into *)
(* it are not looked at.                                                   *)
IfsAreSimple ==
  restored /\ ToIfs =>
    LET all == ToSet(info.staticBranches)
        ifs == ToSet(BrIfVector)
    IN /\ \A x \in all :
            LET inside == {y \in all \ {x} : Overlaps(x, y)}
                together == {y \in inside :
                               y.BranchBlockBegin = x.BranchBlockBegin}
            IN IF x.AdvanceAmount <= 0 \/ inside \ together # {}
               THEN x \notin ifs
               ELSE x \in ifs \/ together # {}
       /\ \A x, y \in ifs : x = y \/ ~Overlaps(x, y)

ConditionalAt ==
  {i \in Position : MnemonicOf(program.Binary[i]) \in {brz, brnz, brhz, brhnz}}

NoLoop == restored /\ Cardinality(ConditionalAt) < 2
Unstopped == Size < End /\ \A i \in Begin .. Size - 1 : program.Binary[i] # Zero

(* Nothing is read or written outside a vector but by the search for ifs   *)
(* among fewer than two branches, by writing the text of no instructions,  *)
(* neither of which ends well, and by the search for blocks: its range     *)
(* does not depend on the program, and a shorter program is read past its  *)
(* end exactly when no word 0 ends a block before.                         *)
OutOfBounds ==
  /\ pc = "lost" => NoLoop \/ Unstopped \/ Size = 0
  /\ pc = "written" => ~NoLoop /\ (Size = 0 => intr = NoFile)
  /\ bpc = "done" /\ Size < End => (at >= Size <=> Unstopped)

(* In the text of the basic blocks, an instruction the classifiers know as *)
(* a return, a jump or a stop is the last of its paragraph, except stopd.  *)
ReturnsEndBlocks ==
  \A b \in DOMAIN printed : \A k \in DOMAIN printed[b] :
    LET w == printed[b][k]
    IN (IsUnconditionalReturn(w) \/ IsConditionalReturn(w)
         \/ GetJumpAmount(w) # 0 \/ IsSTOP(w))
         => k = Len(printed[b]) \/ w.op = 320

(* The marks of the lines: begins of functions, where main is, and gotos.  *)
LinesLabelled(text) ==
  \A i \in Position : LET marks == ToSet(text[i].marks) IN
    /\ (\E m \in marks : m.name = "main") <=>
         i = EntryPosition /\ ~restored
    /\ (\E m \in marks : m.kind = "begin") <=>
         IF restored THEN BeginsAt(i) # {} ELSE i = EntryPosition
    /\ \A m \in marks : m.kind = "goto" =>
         /\ m.name = ""
         /\ \A j \in Position : \A n \in ToSet(text[j].marks) : n.kind # "label"

(* What the reader of the files gets: the name main stands at the entry    *)
(* point exactly when the functions are not named, a goto never has a      *)
(* label to go to, and the lines of accesses through the stack pointer are *)
(* those that are commented out.                                           *)
ListingLabelled ==
  /\ pc = "written" /\ nfo # NoFile => LinesLabelled(nfo)
  /\ pc = "written" /\ intr # NoFile =>
       \A i \in Position :
         intr[i].prefix = "//" <=>
           /\ MnemonicOf(intr[i].word) \in {lqd, lqx, stqd, stqx}
           /\ intr[i].word.a = 1

(* Both texts keep to the program: the blocks that are printed and the     *)
(* listing that is written.                                                *)
TextsRight == ReturnsEndBlocks /\ ListingLabelled

-----------------------------------------------------------------------------

(* The parts of the inductive invariant, by what has been gathered. *)
TypeOK ==
  /\ restored \in BOOLEAN
  /\ program \in Programs
  /\ heap \in [{i \in Searched : i >= Size} -> Garbage]
  /\ pc \in {"heuristics", "targets", "blocks", "annotate", "dump", "written",
             "lost"}
       \cup IF restored THEN {"branches", "ifs", "jumps", "loads", "symbols"}
                        ELSE {}
  /\ info = [heuristics |-> info.heuristics,
             staticBranches |-> info.staticBranches,
             FunctionRanges |-> info.FunctionRanges,
             functionSymbols |-> info.functionSymbols,
             jumps |-> info.jumps, jumpSymbols |-> info.jumpSymbols]

PositionsOf(mnemonic) ==
  {i \in Position : MnemonicOf(program.Binary[i]) = mnemonic}

HeuristicsInv ==
  info.heuristics =
    [m \in {MnemonicOf(program.Binary[i]) :
              i \in IF pc = "heuristics" THEN {} ELSE Position}
       |-> PositionsOf(m)]

Conditional == {Branch(i, program.Binary[i]) : i \in ConditionalAt}

(* There are two branches, or the search for ifs is not reached. *)
BranchesInv ==
  restored /\ pc \notin {"heuristics", "branches"} =>
    /\ info.staticBranches \in SetToSeqs(Conditional)
    /\ InOrder(info.staticBranches)
    /\ pc = "lost" \/ Len(info.staticBranches) >= 2

IsIf(s, k) ==
  s[k].AdvanceAmount > 0 /\ (k = Len(s) \/ ~Overlaps(s[k], s[k + 1]))

(* The ifs are those among the branches the loop has passed. *)
IfsInv ==
  LET s == info.staticBranches
  IN /\ first1 \in Nat
     /\ BrIfVector \in Seq(ToSet(BrIfVector))
     /\ ToSet(BrIfVector) = {s[k] : k \in {j \in 1 .. first1 - 1 : IsIf(s, j)}}
     /\ pc \in {"heuristics", "branches"} => first1 = 1
     /\ pc = "ifs" => first1 \in 1 .. Len(s)
     /\ restored /\ ToIfs => first1 = Len(s) + 1

FunctionsInv ==
  Gathered =>
    info.FunctionRanges = Ranges(Ascending(Callees \cup {EntryPosition}), Size)

(* A word 0 ends the search for blocks, or was not met. *)
BlocksInv ==
  /\ Blocks!IInv
  /\ \A i \in Searched : i < at \/ i < begin => Memory[i] # Zero
  /\ bpc = "done" => at = End \/ Memory[at] = Zero

(* The text of the blocks is made once there are all of them. *)
PrintedInv ==
  /\ printed = <<>> \/
       /\ bpc = "done"
       /\ printed = [b \in DOMAIN blocks |->
            [k \in 1 .. blocks[b].last - blocks[b].first |->
               Memory[blocks[b].first + k - 1]]]
  /\ pc \in {"symbols", "annotate", "dump", "written"} => bpc = "done"

SymbolsInv ==
  /\ pc \in {"branches", "ifs", "jumps", "loads", "targets", "blocks", "symbols"}
       => info.functionSymbols = [t \in {EntryPosition} |-> "main"]
  /\ pc = "annotate" =>
       info.functionSymbols =
         IF restored THEN [t \in Callees \cup {EntryPosition} |-> "sub"]
                     ELSE [t \in {EntryPosition} |-> "main"]
  /\ pc \notin {"dump", "written", "lost"} => info.jumpSymbols = <<>>

StackAccesses ==
  {i \in Position : /\ MnemonicOf(program.Binary[i]) \in {lqd, lqx, stqd, stqx}
                    /\ program.Binary[i].a = 1}

LinesInv ==
  /\ pc \in {"dump", "written"} =>
       LinesLabelled(instrInfoText) /\ hidden = StackAccesses
  /\ pc = "written" =>
       /\ intr \in {NoFile, InstrText} /\ nfo \in {NoFile, instrInfoText}
       /\ Size = 0 => intr = NoFile

LostInv == pc = "lost" => NoLoop \/ Unstopped \/ Size = 0

(* What each call has left for the calls after it: the inductive invariant *)
(* behind the properties above.                                            *)
IInv ==
  /\ TypeOK /\ HeuristicsInv /\ BranchesInv /\ IfsInv /\ AddressesAccessed
  /\ FunctionsInv /\ BlocksInv /\ PrintedInv /\ SymbolsInv /\ LinesInv
  /\ LostInv
=============================================================================
