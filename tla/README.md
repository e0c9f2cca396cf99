# Formal models of spuc

spuc takes a Cell SPU program apart: it maps an ELF file, finds SPU ELF images in it, decodes their
instructions with a table-driven decoder, splits them into functions and basic blocks, and prints C text that
calls SPU intrinsics, which a header implements with SSE2. This directory holds TLA+ modules of the parts that
carry logic of their own, TLC configurations that check them on small instances, and TLAPS proofs for the
results that should hold whatever the sizes are. File names below are those of the repository's `src/`.

Check one run with `tlc -config MemMap.cfg MemMap`, one set of proofs with `tlapm FileAccessProofs.tla`.
`PROJECT.json` lists the runs, the lines each definition translates, the mutants and the hazards.

## 1. Inventory

| Component | Source | State it keeps | Operations | What makes it correct |
|---|---|---|---|---|
| Memory-map cache | raw.cpp, raw.h | `MappedFiles`: path -> (count, `memmap_t*`); heap objects; mapped views | `open`, `close`, `begin`, `end`, `size` | the count is the number of users; `close` finds its own record; no view disappears under a user; nothing leaks |
| ELF reader | elf_helper.h | `raw_file_`, header, `PData_`, `SData_` pointing into the view | constructor, destructor, `EndSwap` by layout string, symbol tables | pointers live no longer than the view; every field is swapped once |
| Instruction database | spu_idb.cpp, spu_idb.h, spu-insns.h | `db_op_type`, `_mnemonic`, `_solver`, `_arglist`, `opcodes_parsed` | lazy build, link handlers, decode opcode, decode operands | each word of a format decodes to its row; every later answer is the one the tables just built would give |
| Basic blocks | spu_emu_parser.cpp 290-311, 538-574 | two loop positions, list of blocks | `FindBasicBlock`, `FindBasicBlockInRange` | blocks tile the code, are straight-line, lose nothing; the loops end |
| Program analysis | spu_emu_parser.cpp, the rest | `spu_info_t`: positions by mnemonic, ranges, branches, jumps, symbols | call targets, function ranges, static branches, jumps and loads, text of the blocks, annotated listing | functions tile the program; ifs do not overlap; nothing is read outside a vector; the listing marks what it should |
| Driver | spu_emu_parser.cpp 190-250, 268-287, 1025-1213 | copy of the file, list of ELF offsets, number of the next listing | `spu_execute`, ELF scan, extraction | every image is found; each listing is of the image found; the file is given back |
| Range planner | dump.cpp 74-156 | `RangeList_`, half-open ranges | constructor, `Remove` | the list stays ordered; the bytes asked for are removed and no others |
| Streamer | dump.cpp 1-72 | overlapped-read state | `Start`, `Done`, ... | no caller; `Process` is empty |
| SPU intrinsics | spu_internals_x86.h, sse_extensions.h | none | one function per SPU instruction | each equals the instruction spu-insns.h describes |
| SPU state and handlers | spu_emu.h, spu_emu_*.cpp | registers, local store, PC | one handler per instruction | as the intrinsics; aliasing of source and target |
| Assembler, disassembler | spu_assembler.cpp, spu_disassembler.cpp | none of its own; reads the database tables | text to word, word to text | a round trip keeps the word |
| Pseudo-code printer | spu_pseudo*.{cpp,h} | none | word to text | wording only |
| Test driver | main.cpp, spu_unittest.* | none | unit tests of intrinsics | - |
| PowerPC disassembler | ppcdis.*, ppc_ilist.h | none | table lookup, no caller | - |
| Vendored | elf.h, features.h | - | - | - |

How they interact: `spu_execute` opens a file through the cache, copies it, closes it, scans the copy for ELF
headers, and for each one constructs an `ElfFile`, which opens the file again and keeps pointers into the view
until its destructor closes it. The text section is decoded through the instruction database, whose first call
builds the tables. The assembler and the disassembler read the same tables. The generated text calls the
intrinsics; the handlers are linked into the table by mnemonic.

What is hard to test here. Nothing runs concurrently. The hazards are orders of calls (users sharing a cached
mapping, calls before the tables are built, repeated `Remove`s), addresses that are reused, failures nobody
checks (`CreateFile`, `MapViewOfFile`), a file that changes between two opens, edges of half-open ranges, programs
shorter than the constants assume, conversions there and back, and machine arithmetic that has to be put
together from SSE instructions that do not exist as such. `PROJECT.json` lists each at its line.

## 2. Modules, and what their state and actions are in the code

| Module | Models | State and actions |
|---|---|---|
| `FileLease` | what the users of the cache rely on (abstract) | `lease`, `image`; `Acquire`, `Share`, `Release` |
| `MemMap` | raw.cpp with the `ElfFile` objects of elf_helper.h | `MappedFiles`, heap (`live`, `begin_`), address space (`backing`), and each user's `raw_file_`, `FilePath`, `data_`. `OpenHit` and `OpenMiss` are the two ways through `open`, `Close` is `close` with the search by pointer in `Records` and the two branches in `ReleaseRecord` |
| `SpuInsns` | spu-insns.h and the `_solvers` list | data: the rows of the instruction table by format, and the mnemonics with a handler |
| `OpDb` | spu_idb.cpp 402-607, decoding of an opcode | the four tables, `opcodes_parsed`, and the last call's word and answer. One action, `spu_decode_op_opcode`, includes the build on the first call (`BuildOnce`) and the chain of masks (`Lookup`) |
| `BasicBlocks` | `FindBasicBlock` inside `FindBasicBlockInRange` | `begin`, `at`, `blocks`, loop label `pc`. `Outer`, `Advance`, `Found`, `NotFound` are turns of the two loops |
| `DecoderLink` | the link between `OpDb` and `Decoder` | states `AnswersOfDecoder` over the variables of `OpDb` |
| `PlannedBytes` | what `RangePlanner` promises (abstract) | the set `planned` and the last `request`; `Inside`, `OpenEnded`, `Nothing` |
| `RangePlanner` | dump.cpp 74-156 | `RangeList_` and the last call's `request`; `Remove` and `RemoveNothing` are the two ways through the one method |
| `LaneOps` | add, subtract, carry, borrow and unsigned compare on one lane | operators, shared by the two modules below |
| `MultiWord` | a two-word addition or subtraction as the instructions are meant to be chained | `AddLow`, `AddHigh`, `SubLow`, `SubHigh`: one per instruction pair |
| `Intrinsics` | multiply, `sfi` | operands, the intrinsic that ran, its result |
| `SpuState` | what the handlers share of an `SPU_t` | `GPR` |
| `QuadMove` | the handlers that shift and rotate a quadword by bytes | the instruction that runs, its loop index `i`, and the registers `before` it. A handler is the action of its name, which computes the count; `RotateTurn`, `ShiftTurn`, `MaskTurn` are turns of the three loops |
| `QuadStore` | what loads and stores promise (abstract) | one quadword a line; `Load`, `Store` |
| `SpuMemory` | the loads and stores of spu_emu_mem.cpp | the bytes of `LocalStorage`, the last `address`; one action per handler |
| `InsnWord` | the union `SPU_INSTRUCTION`, field packing (end of `spu_assemble`), `spu_decode_op_components` | operators on words of 11 + 7 + 7 + 7 bits |
| `Decoder` | the database once it is built | the tables, from `SpuInsns` and the look-up of `OpDb` |
| `PseudoForms` | the templates of spu_pseudo.cpp and what fills their placeholders | operators |
| `AsmCodec` | spu_assembler.cpp, spu_disassembler.cpp, `spu_decode_op_components`, `spu_make_pseudo` | one line of text or one word and what each of the four calls makes of it; the calls come in any order, the first builds the tables |
| `BitLanes` | a register as the set of its bits that are 1, and the SSE operations on its lanes | operators |
| `LaneShift` | shifts and rotates of lanes and by bits, spu_emu_rot, _rotmask, _shift | operators, one per handler |
| `LaneLogic` | constants, adds, compares, selection, counts, logic, sign extension, sums | operators, one per intrinsic or handler |
| `Shuffle` | insertion controls, `shufb`, masks from bits and bits from masks | operators, one per handler |
| `LaneMachine` | straight-line programs of the instructions above | `gpr`, `pc`; a step runs the handler of the instruction at `pc` on its registers. The operators in front of the properties are what spu-insns.h pictures |
| `StaticFlow` | what spu_emu_parser.cpp reads off single instructions | operators: block ends, returns, targets, addresses, ranges |
| `ProgramAnalysis` | the calls `spu_execute` makes for one program, and the four that are commented out | `info`, the locals of the loop over branches, the state of `BasicBlocks`, the texts and the two files; one action per call, turns of loops where a property looks into the loop |
| `ElfReader` | the constructor and name look-ups of `ElfFile<ELF_32_traits_t>` | operators on an image; `GetSymbolName` answers with the name and the string table it leaves, one entry longer if `operator[]` did not find its key |
| `SymbolNames` | an `ElfFile` that is asked for names of symbols | `object`, `asked`, `answer` and, as history, the offsets `missed`; `AskName` is one call of `GetSymbolName` |
| `Execute` | `spu_execute` with the cache and the file | `MemMap`'s variables, the file on disk, the copy, the offsets, the object, the listings and, as history, the file as it was `opened` for each offset; `Replace` is somebody else writing the file |

`MC*` modules instantiate these for TLC (the instance of `DecoderLink` is `MCOpDb`), but for the three whose configuration says all there is to say of the
instance (`MemMap`, `BasicBlocks`, `RangePlanner`); `*Proofs` modules hold theorems. `MultiWord` and `Intrinsics` compose
`LaneOps` and are checked together in `MCLaneArithmetic`; `OpDb` is built over `SpuInsns`, `AsmCodec` over `Decoder`, `InsnWord` and `PseudoForms`, and `DecoderLink`
shows that the constant answers of `Decoder` are those of `OpDb` after any calls; `SymbolNames` and `Execute` are built over
`ElfReader`; `LaneMachine`
composes `LaneShift`, `LaneLogic` and `Shuffle`; `ProgramAnalysis` runs `BasicBlocks` on decoded words (its
`IsBrach` is the code's, not a constant any more), and `Execute` runs `MemMap` for three users. `MemMap` implements
`FileLease`, `RangePlanner` implements `PlannedBytes`, and `SpuMemory` implements `QuadStore`.

Abstractions worth knowing:

* `MemMap`: addresses are model values, and any free one may be returned by the next allocation or mapping, so
  reuse is included. A mapping that fails yields the null view; the record is made all the same, as in the code.
  `begin`, `end` and `size` only read. The user side is one object that opens, keeps the pointers, and closes:
  each handle is closed once. What the implicit copy constructor of `ElfFile` and a constructor that throws do to
  this is in `Execute`.
* `OpDb`: a mnemonic is the pair (format, opcode); two rows of the table have equal text exactly when they have
  equal pairs. The 21 low bits of a word play no part in decoding the opcode and are left out.
* `BasicBlocks`: a word is what `IsBrach` and the comparison with 0 can tell apart. `Begin` and `End` are 66 and
  193 in the code.
* `RangePlanner`: a call has `begin <= end`, which the class takes for granted. Ranges asked for reach
  one byte past the planner's own: any end further behind acts alike. `clip_back` and `clip_front` have no caller.
* `LaneOps`: lanes of any width, by the value `Msb` of their top bit; 2^31 in the code.
* `SpuState`: a register is its 16 bytes as `m128_u8` numbers them, byte 15 being the architecture's byte 0.
  The top byte of a preferred word is left out: loads and stores keep 18 bits of it, the others fewer.
* `QuadMove`: registers start with any contents:
  loads put them there. `before` is bookkeeping of the model; the code keeps no copy, which is the point.
* `SpuMemory`: the masks of an address are remainders, and the size of the storage is any number of lines. `IP` is 0: no handler that
  is compiled moves it. The test for a null `LocalStorage` always succeeds, since the constructor allocates it.

* `AsmCodec`: a token is a number or a name. Punctuation, which the assembler turns into blanks, and comments are left
  out. The column of eight letters is not: `Padded` cuts `rotqmbybi` to `rotqmbyb`, which is no mnemonic, and what it adds
  to a shorter name is taken off again by the assembler but defeats the comparisons with channel mnemonics.
  Reading past the last number keeps the value read before, as a failed stream does. `IP` is the address of the instruction, at any place of its line.
* `LaneMachine`: undefined results (a 64-bit word shifted by 64) are any of those the processor or the compiler may
  give. A 32-bit word shifted by 32 and more is shifted as x86 does, by the count modulo 32.
* `ProgramAnalysis`: `restored` chooses between the program that is built and the one with the commented-out calls.
  Positions by mnemonic are sets: the vectors are filled in order of position, and no use depends on it. `std::sort`
  leaves branches whose blocks begin together in any order. The entry point is not in front of its segment. A line
  of text is its marks and the word it shows. Reading outside a vector is a word of any contents or the end of what
  is defined (`lost`).
* `Execute`: the magic is one byte, a header `HeaderSize` of them (52 in the code) with the machine at `MachineAt`
  (19). The file can be replaced only while nothing maps it, at most `MaxReplaced` times: Windows refuses otherwise.
  What is at an offset where no image lies is one of `Noise`. `elided` says whether the compiler leaves the copy of
  the `ElfFile` out, which C++ before 17 permits and does not require. Opening and mapping fail at any time.
* `ElfReader`: a struct is its fields and their widths by elf.h; a field comes out right if the layout string
  reverses its bytes and no others. ELF_64 is never instantiated. `memcpy` and pointers past the end are `lost`.
* `SymbolNames`: nothing in the repository calls `GetSymbolName` yet; the user is anybody who asks for the names of the
  symbols the object holds, in any order and again. A name is its characters, 0 ends it.

## 3. What the runs check

| Run | Instance | What it shows |
|---|---|---|
| `memmap` | 2 files, 3 users, 3 handles, 3 views | `CloseFindsOwnRecord`, `NoDanglingUser`, `NoLeak` in every order of opens and closes, with failing mappings and reused addresses; `LeaseSpec`: the cache implements `FileLease` |
| `opdb` | the real table, all 2048 values of the opcode bits | `DecodesExactly`: which words decode to their documented row, and that no other does; `HandlersInPlace`: handlers sit at their own mnemonics; `AnswersOfDecoder`: after any calls, tables and answers are those of `Decoder`, which the other modules read |
| `basic_blocks` | every program of 5 words of 4 kinds | `BlocksTile`, `BlocksStraight`, `NothingLost`, and the loops end (`Terminates`) |
| `range_planner` | 8 bytes, every sequence of removals | `Ordered`, and `PlannerSpec`: the list implements `PlannedBytes`, call by call |
| `lane_arithmetic` | 4-bit lanes: all pairs of two-word numbers; all operands of single intrinsics | `SumIsRight`, `DifferenceIsRight` with `SumsNotPictured`: `bg` and `sfx` borrow and subtract, and do not carry and add as their rows picture; `CarryOutExcept` and `BorrowOutExcept`: for exactly which operands the carry and borrow out are wrong; `ProductsWhole`; `SfiUnlessBorrow` and `HalvesMisplaced`: for exactly which operands `sfi`, `mpyh` and `mpys` are right |
| `quad_move` | 2 registers, 20 counts, every immediate | `ShiftsMove`, also in place; `RotatesApart` for different registers; `RotatesInPlace`: what a rotate in place makes of a register |
| `spu_memory` | 2 registers of 32 different bytes, 4 lines | `StoreSpec`: bytes, masks and word reversal implement one quadword a line; `BytesReversedExcept`: for which lines the words reversed are the bytes reversed |
| `asm_codec` | a line of every mnemonic with every combination of two or three tokens per operand; words of every opcode with operand fields at their limits; an address inside a line | `AssemblesPictured`: exactly which lines become the word the pictures give them; `ReadsBack`: exactly which words survive disassembler and assembler; `ComponentsAreTheWord`: the components determine the word; `PseudoShowsOperands`: exactly which instructions are shown with the registers they name, and for which displacements with the line they access |
| `lanes` | each handler on operands with signs, carries and counts at the edges of 8, 16, 32 and 64 bits; pairs of programs that should agree; insertion at every offset | `AsPictured`: exactly for which operands each handler does what spu-insns.h pictures, `nor` with the picture of `nand` included; `FormsAgree`: immediate and register forms, and identities between instructions; `InsertThenShuffle`: which bytes a control and `shufb` move |
| `analysis` | every program of up to 4 words over three alphabets, 3 words over a fourth | `GatheredRight`: functions tile the program, gathered addresses are those accessed; `IfsAreSimple`; `TextsRight`: blocks end at returns, listings are labelled; `OutOfBounds`: exactly which programs are read outside their vectors |
| `execute` | every file of up to 4 bytes, every make-up of an image, one replacement, failures anywhere | `ScanFinds`: which images the search finds, and why it misses one; `ListingsMatch`: listing n is of what lies at the n-th offset in the file as it was opened for it, whole, even when the file was replaced after the search; `CacheReleased`: nothing stays mapped, except after a throw or a copy |
| `symbol_names` | every table of five characters of two kinds, shorter and missing tables; six symbols asked for in any order | `NamesFound`: every field is read right, and for exactly which symbols the name is found, after which misses |

Where code and documentation disagree the property says exactly for which inputs, with `<=>`: it is broken both by a
code that departs elsewhere and by one that no longer departs. Section 6 lists the disagreements.

Why these bounds are enough. *memmap*: a count moves between 1, 2 and 3, so both branches of `close` and a
record shared while another is reopened occur; more handles and views than records leave one free to reuse at
every moment. The theorems lift the bound. *opdb*: nothing is cut but the order of the calls: a call leaves
nothing behind but the tables, so what matters is whether it is first. *basic_blocks*: five words hold two
blocks with code behind them, an empty tail, and padding. *range_planner*: eight bytes hold four ranges, so `b`
and `e` can be equal, adjacent, further apart, or missing. *lane_arithmetic*: lanes of two bits are enough for every
combination of carry in, halves equal, and top bit set, and halves of two bits have a sign and a magnitude; addends are
drawn from the edges and one inside. The chain and the single intrinsic share nothing but the operators of
`LaneOps`, so one stands still while the other runs. *quad_move*: one
instruction, since the registers it leaves are covered by any contents it may start with; the counts lie at both
sides of 8, 16, 32 and 128, with and without higher bits, and the bytes are different so that a wrong one shows.
*spu_memory*: four lines have a first, a last and two inside; displacements reach both neighbours and both ends,
absolute addresses fall inside a line, and after a few steps the registers, and so the indexes, hold what loads
put there. *asm_codec*: an operand field is independent of the others but for the slots they share, so two or three
values of each, negative, large and small, and the two aliases in every combination show every mix-up. *lanes*: a
handler treats its lanes alike, so eight quadwords with different lanes and counts below, at and behind the widths,
in different lanes at once, show a lane that is taken for another. *analysis*: four words hold two functions, a loop
around an if, two ifs in a row or one in the other, and three searched words (`Begin` 1, `End` 4) lie before, across
and behind the end of the program. *execute*: headers of two bytes in files of four are apart, adjacent, overlapping
and cut off; one handle and one view are enough, as there is one path, and a second open finds the first closed or
the run shows it. *symbol_names*: five characters hold up to five names, empty ones among them, and the six symbols have
every offset in and one behind; enough may be missed for the bound to grow past an offset that was out of it.

Deadlock checking is off where the modelled program ends: the loops of `BasicBlocks`, the two instructions of a
`MultiWord` chain, the single step of `Intrinsics`, the one instruction of `MCQuadMove`, the
calls of `AsmCodec`, the programs of `LaneMachine`, `ProgramAnalysis` and `Execute`, which return or are lost, and
`SymbolNames`, where an image without a string table has no symbols to ask about. The cache, the decoder, the planner, loads and stores can always be called again and are checked for deadlock.

Fairness. Only `BasicBlocks` has it: `FairSpec` adds `WF_vars(Next)`, which says that the one thread that runs
the loops is not stopped for good in the middle of them. No choice between actions is forced by it: at most one
is enabled in any state. No other module claims liveness.

## 4. What is proved

Proofs are machine-checked for all values of the constants under the assumptions the modules name.

| Module | Theorems | Assumptions |
|---|---|---|
| `FileAccessProofs`, of `MemMap` | `Invariance`, `TypeCorrect`, `CountCorrect`, `CloseFinds`, `NoDangling`, `NothingLeaks`, `Refinement` (`Spec => LeaseSpec`) | `NullAssumption` (null is no address, `NoImage` no view), `FiniteClients` |
| `FileAccessProofs`, of `RangePlanner` | `RangesInvariance`, `RangesTypeCorrect`, `StaysOrdered`, `Shrinks`, `RangesRefinement` (`RangesSpec => PlannerSpec`) | `RangeAssumption` (two naturals) |
| `OpDbProofs` | `Invariance`, `TypeCorrect`, `Decodes`, `AnswersAreDecoders`, `HandlersLinked` | `MarksAssumption` (the marks of empty entries are none of the table's), `TableAssumption` (the table is prefix-free: no opcode lies among the words of another instruction; `mtspr` is the one mnemonic that another row replaces; the arguments of a row are kinds of arguments). TLC evaluates both on the real table |
| `BasicBlocksProofs` | `Invariance`, `TypeCorrect`, `Tiling`, `StraightLine`, `Complete` | `WordAssumption` (0 is a branch, as in `IsBrach`), `RangeAssumption` |
| `MultiWordProofs` | `Invariance`, `TypeCorrect`, `SumCorrect`, `DifferenceCorrect`, `CarryCorrectExcept`, `BorrowCorrectExcept` | `MsbAssumption` (`Msb > 1`; neither 32 bits nor a power of two is used) |
| `MultiWordProofs`, of `Intrinsics` | `IntrinsicsInvariance`, `ProductsCorrect`, `SfiCorrectUnlessBorrow`, `HalvesMisplacedExactly` | `MsbAssumption`, `HalfAssumption` (a lane is two halves of equal width: `Modulus` is the square of 2 * `HalfMsb`) |
| `SpuStateProofs`, of `QuadMove` | `Invariance`, `TypeCorrect`, `ShiftsCorrect`, `RotatesCorrect`, `InPlaceCorrect` | `RegAssumption` (registers are numbers of seven bits), `NoInsnAssumption` |
| `SpuStateProofs`, of `SpuMemory` | `MemoryTypeCorrect`, `Refinement` (`Spec => StoreSpec`), `LoadsReverse` | `LinesAssumption` (there is a line), `ImmAssumption` (immediates of 10 and 16 bits) |
| `AsmCodecProofs` | `Invariance`, `ComponentsCorrect`; `TextInvariance`, `ReadsBackCorrect`; `InputInvariance`, `AssemblesPicturedCorrect`; `PseudoInvariance`, `PseudoCorrect` | `WordsAssumption` (the words looked at are words of 32 bits: any of them, or all), `InputsAssumption` (the lines are of any mnemonic, each operand an alias or any number that fits its field), `IPAssumption` (an address). Of the table: `MarksAssumption`, `TableAssumption` (its rows have one of the formats, and 0x7FF has no row), `FormsAssumption` (the argument lists each format has), `TemplatesAssumption` (the argument lists of the rows with a template of their own). TLC evaluates all of them, those of the table on the real one |
| `ExecuteProofs`, of `Execute` | `Invariance`, `CacheCorrect`, `ScanCorrect`, `ListingsCorrect` | `HeaderAssumption` (the second byte of `e_machine` lies inside the header), `AddressAssumption` (null is no path, handle or view), `ContentsAssumption` (what a file may hold is a sequence of naturals, and what it has at an ELF offset is an image), `NoiseAssumption` (so is what other bytes are taken for) |
| `ExecuteProofs`, of `SymbolNames` | `NamesCorrect` (`NamesSpec => []NamesFound`) | `ImagesAssumption` (images whose tables lie inside the file) |
| `ProgramAnalysisProofs` | `Invariance`, `SearchImplemented` (`Spec => Blocks!Spec`), `Gathering`, `Ifs`, `Texts`, `Bounds` | `BoundsAssumption` (a range of naturals), `ProgramsAssumption` (words numbered by a `uint32_t`, the entry point not in front of the segment), `GarbageAssumption` (memory holds words), `UIntAssumption`, `NoMnemonicAssumption`, `TableAssumption` (the eleven rows the classifiers name are in the table at their opcodes; TLC evaluates it) |

The arguments:

* **MemMap.** None of the four properties is inductive. A close that leaves the count right may still unmap a
  view another record holds, unless records and objects correspond one to one. `IInv` adds that: no two records
  share a handle (`HandlesDistinct`), a record has a handle exactly when its count is positive, and its view
  shows its file (`RecordsOwn`), whatever is allocated or mapped belongs to a record (`NothingUnowned`), and each
  user holds the record of its path (`UsersHold`). Under `IInv` the search in `close` finds one record, so
  `Close` has two cases. Counting needs cardinalities of the set of users before and after, hence
  `FiniteClients`. The refinement maps `FilePath` to `lease` and the view of the recorded object to `image`.
* **BasicBlocks.** `IInv` says where the loops stand: `begin` is where the blocks end, no word from `begin` to
  `at` is a branch, the blocks cover everything before `begin`, and how the search ended. `NothingLost` follows
  from the last part when `pc` is "done".
* **RangePlanner.** `RangesTypeOK /\ Ordered` is inductive. The list after `Splice` is described once by where its
  elements come from; order and membership follow by cases on the four parts. For the refinement, `Finds` says
  that the two searches of `Remove` succeed exactly when `begin` and `end - 1` are planned, and `Takes` which
  bytes are left; together they pick the action of `PlannedBytes`, which is determined by the arguments.
* **OpDb.** `IInv` says that the tables are empty before the first call, and after it those the rows ask for, and that
  the answer is the one they give to the last word. The rest is about one look-up: a word has an instruction it
  encodes at most once, because the table is prefix-free (`EncodedOnce`); what a mask finds is such an instruction
  (`FoundIsEncoded`), and the mask of its format finds it (`EncodedIsFound`). So the order of the tests does not
  matter, but each format needs its own test; RI8, whose test compares with another format, is found only by the
  words the property names. That the answers are those of `Decoder` (`AnswersAreDecoders`) needs the tables row by row, lists
  of arguments included, which `IInv` says of the variables and `TableOfDecoder` of the constants.
* **MultiWord.** `IInv` adds `LowSum` and `LowDifference`, the equation the carry or borrow between the words
  restores. The lemmas say what each emulated instruction computes: the signed compare of halved words is the
  unsigned compare, and the top bit of the halved sum is the carry. `CarryGenerateExtended` names the exact
  inputs for which `si_cgx` differs from a carry, and `CarryMisplaced` that they are wrong: `CarryOutExcept` is exact;
  `BorrowGenerateExtended` says what `si_bgx` computes instead of a borrow. `DifferenceNoSum`: a sum and a difference of the same
  words differ by an odd number, so that no borrow makes `sfx` what its row pictures.
* **QuadMove.** What holds at the end does not say what the next turn may read. `IInv` does: the bytes the loop
  has passed are the ones it should write, computed from the registers `before`, and all others are untouched
  (`Progress`); the count in the loop is the operand's, whatever way it was cut (`CountFits`). A turn keeps
  `Progress` because the byte it reads is ahead of the loop or in it: true of the two shifts even in place, and of
  the rotate only when the registers differ, which is where the code goes wrong.
* **SpuMemory.** `LSALine`: an address is cut down to the first byte of the line `QuadStore` means, so 16 bytes from
  there are in the storage and in one line. `ReversedTwice`: a load undoes what a store did to the words. With
  these, a load reads and a store writes exactly one line of the refinement mapping. `LoadsReverse` compares the two
  orders of bytes word by word.
* **QuadMove, in place.** `ProgressInPlace` is the part of `IInv` for a rotate whose source is its target: the bytes
  behind the loop are those of `TargetInPlace`, in which the first bytes of the register recur with the period of
  the count, because the loop reads what it wrote that many turns ago.
* **Intrinsics.** One step, so that all the work is arithmetic without a width: a product of halves cut into two
  halves and put together again is the product (`ProductsWhole`), a quotient is determined by its bounds, and a
  subtraction in two halves is one in a whole exactly when the lower half does not borrow.
* **AsmCodec.** The components are those of the word of the state (`OfTheWord`), so that the rest is about one word.
  `DecodedField`: whichever mask finds the opcode, it agrees with the word in the bits the format leaves to the opcode
  (`MaskedField`). Format by format, each operand cut to its field gives back its digits of the word, signed or not
  (`Signed7` to `Signed18`, `Hint`), and the opcode's field and the upper bits of the immediate add up to the opcode
  bits (`OpcodeBits`); `Repacks` puts the nine cases together.
* **AsmCodec, the assembler.** `TextOfTheWord` and `TextOfTheInput` are inductive: whatever the order of the calls, a
  line is assembled after the look-up that builds the tables. The rest is about one line. The assembler's two loops
  over argument lists are folds; no list has more than four arguments and no mnemonic more than two lists, so they
  are unrolled, and what the k-th reading yields is said without them (`ReadValue`: the k-th token, unless a name
  came before it (`Ended`); `ReadRight`: every value is right exactly when no name ends the reading too early). The fields of a
  word are equal when the operands are equal modulo their widths (`SameRR` to `SameLBTI`), and a number that fits a
  field is determined by its low bits. `FormsAssumption` leaves two dozen forms of argument lists; each is covered by a lemma,
  which says which slots it fills and when they hold what the picture wants (`DisplacedForm`, `BranchForm`,
  `HintForm`, `SourcesForm`, `StopForm`, `SyscallForm`, ...). Each exception of `Garbled` is shown to happen and to be
  needed: the theorem is an equivalence.
* **AsmCodec, the pseudo code.** `PseudoOfTheWord` is inductive. What a text shows depends on the template and on what
  the switch replaces (`RegistersOfForm`), what it should show on the argument lists (`RegistersNamed`). Where the
  mnemonic has a template of its own, the rows of the template table are compared with those of the instruction
  table one by one (`OwnShape`); all others have the template of their format (`DefaultShape`). `LineShown`: half the
  way and the whole way end in one line of 16 bytes exactly for the displacements of `CloseBy`, although lines are
  numbered modulo 2^14, because no displacement reaches far enough to come back to the line.
* **AsmCodec, the disassembler.** `LinePrinted` and `PrintedForms` say which tokens a word's text has, `BackRR` to `BackRI18`
  that the fields read from them are the word's. `CutNameLost` is the exception: no mnemonic is `rotqmbyb`, so the look-up
  of the cut name finds no opcode, and 0x7FF is not the opcode of `rotqmbybi`.
* **Execute.** None of the three properties is inductive. `IInv` says for every step of `spu_execute` who has the
  file open (`CacheInv`: the cache has one entry while the file is copied and while an image is opened or used, none
  in between, and keeps one after a constructor that threw; an object that was really copied no longer owns the
  entry, which went with the temporary), what the search has found up to its frontier
  (every image that does not begin inside another header found before), and which offset, object, program and number
  belong together in each step: listings, offsets and numbers (`NumberInv`), the file on disk and the one opened for the
  offset, which agree as long as it is mapped (`OpenedInv`), and object and program with the image in it (`ShownInv`). So
  listing n can be traced back to offset n, and to one state of the file, when it is written.
* **SymbolNames.** `NamesInv`: calls change nothing of the object but the string table, which has a string wherever
  one starts and an empty one at each offset that was missed. `StringsCounted` makes its size the number of the one and the
  other, so that the bound of each call is known (`NameLookedUp`). What the constructor reads is independent of the calls
  (`StructsRead`, `StringsShown`, `SymbolsShown`).
* **ProgramAnalysis.** `IInv` says what each call has left for those after it: the positions held by mnemonic are
  all of them (`HeuristicsInv`), the sorted branches are all conditional branches, each once (`BranchesInv`), the
  ifs are those among the branches the loop has passed (`IfsInv`), the ranges are those of the ordered call targets
  (`FunctionsInv`), the search has met no word 0 before where it is (`BlocksInv`). The lemmas: a finite set of
  positions can be put in order by counting (`AscendingIs`), consecutive members of an ordered set tile what lies
  behind the first (`RangesTile`), no two branches have the same block, because a position determines its
  successor modulo 2^32 (`BranchInjective`), and in a sorted list, if any later block begins in a branch's block,
  the next one does (`NextOverlaps`): that is why one comparison per branch is enough. The search for blocks is an
  instance of `BasicBlocks`, and its theorems are used, not proved again (`SearchNext`).

Only model-checked:

* `LaneMachine` (`AsPictured`, `FormsAgree`, `InsertThenShuffle`). Its handlers take registers apart into bits: lanes
  are values of sums of powers of two over sets of bits, by a fold, and counts select `2^n`. None of the installed
  provers expands a fold over a set or a power with a variable exponent, and what a fold yields for every set needs
  induction over data. TLC tries each handler at the edges of every width.
* `Terminates`: liveness under fairness.

## 5. Not modelled, and why

* `Streamer` (no caller, `Process` is empty), the file watch (unused), the unit tests of main.cpp (read as the
  reference of the intrinsics), the PowerPC disassembler (no caller, a third-party table), features.h.
* Floating-point handlers and intrinsics: floating-point arithmetic has no useful counterpart in TLA+.
* Branch, channel and hint handlers (empty or commented out) and the halts (they set `Run`, which nothing reads). So
  no instruction moves `IP`, and there is no run of a whole SPU program to model.
* `ELF_64_traits_t`, never instantiated; of elf.h only the four structs of 32-bit files.
* Conversions between scalars and registers other than the one all of `si_to_*` share.
* Wording and layout of the texts, indentation (commented out).

## 6. What the code and its documentation disagree on

Each is stated exactly by a property of a passing run, which says for which operands, words or files the code departs
from what is documented. `PROJECT.json` quotes the documentation.

1. `DecodesExactly` (proved for every prefix-free table): spu_idb.cpp:496 compares with `SPU_OP_TYPE_RI18` where RI8 is meant. The conversion instructions
   decode to 0x7FF when the low opcode bit, part of their immediate, is set.
2. `HandlersInPlace` (proved): the row of `syscall` shares opcode 0x10c with `mtspr` and replaces its mnemonic, so the handler
   listed for `mtspr`, and no other, is never linked.
3. `CarryOutExcept` (proved for every width): `si_cgx` adds the carry in to the halved sum, where it counts double.
4. `BorrowOutExcept` (proved for every width): `si_bgx` never reads `RA`. The reference is the comment in it; the picture at
   spu-insns.h:358, a carry of `RA+RB+RT`, is a third thing (item 16).
5. `HalvesMisplaced` (proved for every even width): `si_mpyh` does not shift the product into the high half, `si_mpys` returns the low half.
6. `SfiUnlessBorrow` (proved for every even width): `si_sfi` subtracts in 16-bit lanes.
7. `RotatesInPlace` (proved for every count): `spu_rotqbyi` overwrites bytes it has yet to read when source and target are one register.
8. `BytesReversedExcept` (proved for every size of the storage): loads and stores reverse the words of a quadword; the comment above them says bytes.
9. `AssemblesPictured` (proved for every line): the fields RT and RC of RRR are exchanged; RA of `hbr` is read from the slot of an immediate;
   a second argument list is read from a line that is used up; an alias used twice ends the reading.
10. `ReadsBack` (proved for every word): register 1 is printed SR and read as SP; the name of `rotqmbybi` is cut to eight
    letters (spu_disassembler.cpp:29), and the assembler does not find it.
11. `ComponentsAreTheWord` (proved for every word): offsets of hints are never negative.
12. `PseudoShowsOperands` (proved for every word and address): `iohl`, `mfspr`, `wrch` and a few others show the wrong operands; the address shown for
    `lqr` and `stqr` is right only close to the instruction.
13. `AsPictured`: `roti`, `shl` and `shli`, `rotqmbi`, `shlqbi` and their immediate forms, `rotmah`, `absdb`, `xswd`,
    `eqv`, `orx`, `nor` (spu-insns.h:294 has the picture of `nand`), `iohl`, `fsmbi`, `selb`, `clz`, and scalars, which are taken from word 2. For `selb` the one test
    (main.cpp:494) agrees with the code and the picture of spu-insns.h:333 does not.
14. `InsertThenShuffle`: `shufb` takes some indexes for constants, and numbers bytes from the other end.
15. `NamesFound` (proved for every image and every order of questions): the names of most symbols are not found, since an
    offset is compared with the number of strings; and each miss inserts one (elf_helper.h:85), so that a name that was
    not found may be when it is asked for again.
16. `DifferenceIsRight` (proved for every width): spu-insns.h:356-357 picture `sfx` as `RT<-RA+RB+RT` and `bg` as `cout(RA+RB)`, and :358 `bgx`
    as `cout(RA+RB+RT)`, the rows of the adds over again. Code, comments (spu_internals_x86.h:153, :160) and unit tests
    (main.cpp:429-459) subtract and borrow; `sfx` never returns the sum, and `bg` the carry only where the two are the same bit.

spu-insns.h uses `<<` loosely: row 203 writes `rotqbybi` with it, where the other rotates (:182, :200) have `<<<`, and row 204
`rotqmbybi`, which shifts to the right. `RotatesApart` and `RotatesInPlace` take the first for a rotate and `ShiftsMove` the second for a
shift to the right, as their names and the code have it.

Not a disagreement, but what the code does to itself: `OutOfBounds` and `CacheReleased` say when vectors are read
outside their bounds, and when the file stays mapped or is taken away. `OutOfBounds` and `IfsAreSimple` also cover
`spuGatherStaticBranches`, whose only call is commented out (spu_emu_parser.cpp:1080): `restored` chooses between the two programs,
and what goes wrong there is no hazard of the one that is built.

## 7. Plan

Done, in this order: `MemMap` with `FileLease`, `OpDb`, `BasicBlocks`, `RangePlanner` with `PlannedBytes`,
`MultiWord`, `Intrinsics`, `QuadMove`, `SpuMemory` with `QuadStore`, and the proofs of section 4; then `AsmCodec` with
`InsnWord`, `Decoder` and `PseudoForms`, `LaneMachine` with its operator modules, `ProgramAnalysis` with `StaticFlow`,
and `Execute` with `ElfReader`; then the theorems about each of these but one; then `DecoderLink`, which ties the decoder the
others read to the one that is built, and `SymbolNames`, the look-ups that change what they look in. What is left is `LaneMachine`: its
properties would need a theory of bits as sets, with lanes and counts proved by induction, before any handler can be
reasoned about.
