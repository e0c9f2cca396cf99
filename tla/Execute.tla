------------------------------- MODULE Execute ------------------------------
(***************************************************************************)
(* spu_execute, from the file to the listings: copy the file through the   *)
(* memory-map cache (MemMap, whose steps are steps of this module), find   *)
(* the SPU images in the copy, and for each of them open the file again,   *)
(* read the image (ElfReader), take its program, and write the listing     *)
(* with the next number.                                                   *)
(*                                                                         *)
(* The file is written by others: whenever it is not mapped it can become  *)
(* another.  Opening and mapping can fail, and nothing checks whether they *)
(* did.  ElfFile has the implicit copy constructor and is initialized from *)
(* a temporary; elided says whether the compiler leaves that copy out.     *)
(*                                                                         *)
(* The bytes of the file are the magic, taken as one byte, and others; a   *)
(* header has HeaderSize of them and the machine MachineAt from its start. *)
(***************************************************************************)
EXTENDS ElfReader

CONSTANTS
  Contents,      \* what the file may hold: its bytes and, by offset, images
  Replacements,  \* what others may write into it
  Noise,         \* images that bytes which are none may be taken for
  HeaderSize,    \* sizeof(Elf32_Ehdr), 52
  MachineAt,     \* of the second byte of e_machine, 19
  MaxReplaced,   \* bound: how often the file becomes another
  Handle, View, NULL, NoImage   \* as in MemMap

ASSUME HeaderAssumption ==
  HeaderSize \in Nat /\ MachineAt \in Nat /\ MachineAt < HeaderSize

Eboot == "eboot.elf"

ASSUME AddressAssumption == NULL \notin {Eboot} \cup Handle \cup View

ASSUME ContentsAssumption ==
  \A content \in Contents \cup Replacements :
    /\ content.bytes \in Seq(Nat)
    /\ \A p \in DOMAIN content.elf : IsImage(content.elf[p])

ASSUME NoiseAssumption == \A image \in Noise : IsImage(image)

MAG == 127
ELF_SPU_ARCH_ID == 23

VARIABLES
  MappedFiles, live, begin_, backing, raw_file_, FilePath, data_,   \* MemMap
  disk,          \* the file
  replaced,      \* how often it became another
  elided,
  pc,            \* what spu_execute does next; "lost": undefined from there on
  fraw,          \* the copy of the file
  ELF_offsets,   \* where images were found in it
  off,           \* of the search, and then of the image
  next,          \* how many offsets were gone through
  opened,        \* history: the file as it was opened for each of them
  SPU,           \* the ElfFile
  program,       \* what spuExtractProgram took out of it
  data,          \* and spuExtractData
  counter,       \* the number of the next listing
  listings       \* by number: the program listed, as a set, which
                 \* is empty if the files could not be opened

map == <<MappedFiles, live, begin_, backing, raw_file_, FilePath, data_>>
found == <<fraw, ELF_offsets, off, next, opened>>
extracted == <<SPU, program, data>>
written == <<counter, listings>>
vars == <<map, disk, replaced, elided, pc, found, extracted, written>>

MM == INSTANCE MemMap WITH
  Path <- {Eboot}, Client <- {"bearelf", "temporary", "SPU"}

Npos == -1
Nothing == <<>>

Init ==
  /\ MM!Init
  /\ disk \in Contents
  /\ replaced = 0
  /\ elided \in BOOLEAN
  /\ pc = "open"
  /\ fraw = <<>> /\ ELF_offsets = <<>> /\ off = 0 /\ next = 0 /\ opened = <<>>
  /\ SPU = Nothing /\ program = Nothing /\ data = Nothing
  /\ counter = 0 /\ listings = <<>>

-----------------------------------------------------------------------------

Mapped == \E v \in View : backing[v] # NULL

(* Somebody writes the file. *)
Replace ==
  /\ ~Mapped
  /\ replaced < MaxReplaced
  /\ \E content \in Replacements \ {disk} : disk' = content
  /\ replaced' = replaced + 1
  /\ UNCHANGED <<map, elided, pc, found, extracted, written>>

(* open(...): a file without bytes cannot be mapped. *)
OpenFile(client) ==
  \E h \in Handle, v \in View \cup {NULL} :
    /\ MM!OpenMiss(client, Eboot, h, v)
    /\ v # NULL => disk.bytes # <<>>

(* Opening and copying: nobody writes a file that is mapped, so this is    *)
(* one step.  size(bearelf) is 0 when there is no file, and that of the    *)
(* file when only the mapping failed: then memcpy reads from null.         *)
OpenAndCopy ==
  /\ pc = "open"
  /\ OpenFile("bearelf")
  /\ \E size \in {0, Len(disk.bytes)} :
       /\ data_'["bearelf"] # NULL => size = Len(disk.bytes)
       /\ pc' = IF data_'["bearelf"] = NULL /\ size > 0 THEN "lost" ELSE "close"
       /\ fraw' = SubSeq(disk.bytes, 1, size)
  /\ UNCHANGED <<disk, replaced, elided, ELF_offsets, off, next, opened,
                 extracted, written>>

CloseCopy ==
  /\ pc = "close"
  /\ pc' = "scan"
  /\ MM!Close("bearelf")
  /\ UNCHANGED <<disk, replaced, elided, found, extracted, written>>

MagicAt(bytes, p) == p + 1 \in DOMAIN bytes /\ bytes[p + 1] = MAG

(* What rawFile[p] may be: 0 at the end of the string, anything behind it. *)
ByteAt(bytes, p) ==
  IF p < Len(bytes) THEN {bytes[p + 1]}
  ELSE IF p = Len(bytes) THEN {0} ELSE {0, ELF_SPU_ARCH_ID}

(* rawFile.find(ELFMAG, from) *)
Find(bytes, from) ==
  LET at == {p \in from .. Len(bytes) - 1 : MagicAt(bytes, p)}
  IN IF at = {} THEN Npos ELSE CHOOSE p \in at : \A q \in at : p <= q

(* Mutant: one byte more is skipped than a header has. *)
ScanSkippingMore ==
  /\ pc = "scan"
  /\ IF off = Npos
     THEN pc' = "each" /\ UNCHANGED <<ELF_offsets, off>>
     ELSE /\ \E machine \in ByteAt(fraw, off + MachineAt) :
               ELF_offsets' = IF machine = ELF_SPU_ARCH_ID
                              THEN Append(ELF_offsets, off) ELSE ELF_offsets
          /\ off' = Find(fraw, off + HeaderSize + 1)
          /\ UNCHANGED pc
  /\ UNCHANGED <<map, disk, replaced, elided, fraw, next, opened, extracted,
                 written>>

(* A turn of the loop of spuFindSPUOffsetsInELFFile.  The first looks at   *)
(* offset 0, whether the magic is there or not.                            *)
Scan ==
  /\ pc = "scan"
  /\ IF off = Npos
     THEN pc' = "each" /\ UNCHANGED <<ELF_offsets, off>>
     ELSE /\ \E machine \in ByteAt(fraw, off + MachineAt) :
               ELF_offsets' = IF machine = ELF_SPU_ARCH_ID
                              THEN Append(ELF_offsets, off) ELSE ELF_offsets
          /\ off' = Find(fraw, off + HeaderSize)
          /\ UNCHANGED pc
  /\ UNCHANGED <<map, disk, replaced, elided, fraw, next, opened, extracted,
                 written>>

-----------------------------------------------------------------------------

(* The object that is used: the temporary itself, or a copy of it. *)
Object == IF elided THEN "temporary" ELSE "SPU"

(* ElfFile( ..., off ) opens the file, *)
OpenElf ==
  /\ pc = "each"
  /\ IF next < Len(ELF_offsets)
     THEN /\ next' = next + 1
          /\ off' = ELF_offsets[next + 1]
          /\ opened' = Append(opened, disk)
          /\ pc' = "construct"
          /\ OpenFile("temporary")
     ELSE /\ pc' = "returned"
          /\ UNCHANGED <<map, off, next, opened>>
  /\ UNCHANGED <<disk, replaced, elided, fraw, ELF_offsets, extracted, written>>

(* the bytes read at the offset: the image that is there, or none *)
ImagesAt(content, p) ==
  IF p \in DOMAIN content.elf THEN {content.elf[p]} ELSE Noise

(* and reads the image.  There may be nothing to read, or too much; and    *)
(* memory may run out, which nothing catches.                              *)
Construct ==
  /\ pc = "construct"
  /\ \E image \in ImagesAt(disk, off) :
       \/ /\ data_["temporary"] # NULL /\ off < Len(disk.bytes)
          /\ Readable(image)
          /\ SPU' = ElfFile(image)
          /\ pc' = IF elided THEN "extract" ELSE "duplicate"
       \/ /\ \/ data_["temporary"] = NULL
             \/ off \notin DOMAIN disk.elf
             \/ ~Readable(image)
          /\ pc' = "lost"
          /\ UNCHANGED SPU
       \/ /\ data_["temporary"] # NULL
          /\ pc' = "thrown"
          /\ UNCHANGED SPU
  /\ UNCHANGED <<map, disk, replaced, elided, found, program, data, written>>

(* The copy has the pointers of the temporary and was not opened. *)
CopyElf ==
  /\ pc = "duplicate"
  /\ pc' = "drop"
  /\ MM!Take("SPU", Eboot, raw_file_["temporary"], data_["temporary"])
  /\ UNCHANGED <<MappedFiles, live, begin_, backing, disk, replaced, elided,
                 found, extracted, written>>

DropTemporary ==
  /\ pc = "drop"
  /\ pc' = "extract"
  /\ MM!Close("temporary")
  /\ UNCHANGED <<disk, replaced, elided, found, extracted, written>>

(* The pointers of PData_ point into the file. *)
Accessible == backing[data_[Object]] = Eboot

WordsOf(image, range) ==
  [k \in 1 .. range.length_ \div 4 |-> image.words[range.data_ + 4 * (k - 1)]]

(* spuExtractProgram and spuExtractData.  There must be a segment, and it  *)
(* must have whole words: assert, or what is left of it in a release.      *)
Extract ==
  /\ pc = "extract"
  /\ IF ~Accessible \/ SPU.PData_ = <<>>
     THEN pc' = "lost" /\ UNCHANGED <<program, data>>
     ELSE \E image \in ImagesAt(disk, off) :
            \/ /\ Readable(image) /\ SPU = ElfFile(image)
               /\ pc' = "switch"
               /\ program' =
                    [EntryPoint |-> SPU.HeaderLE_.e_entry,
                     VirtualBaseAddress |-> SPU.ProgramHeaders_[1].p_vaddr,
                     Binary |-> WordsOf(image, SPU.PData_[1])]
               /\ data' = IF Len(SPU.PData_) = 3
                          THEN [virtual_offset |-> SPU.ProgramHeaders_[2].p_vaddr,
                                data |-> WordsOf(image, SPU.PData_[2])]
                          ELSE [virtual_offset |-> 0, data |-> <<>>]
            \/ /\ \/ SPU.PData_[1].length_ % 4 # 0
                  \/ Len(SPU.PData_) = 3 /\ SPU.PData_[2].length_ % 4 # 0
               /\ pc' = "lost"
               /\ UNCHANGED <<program, data>>
  /\ UNCHANGED <<map, disk, replaced, elided, found, SPU, written>>

(* The words are turned around, the data is left as it is. *)
spuSwitchEndianness ==
  /\ pc = "switch"
  /\ pc' = "list"
  /\ program' = [program EXCEPT !.Binary =
       [k \in DOMAIN @ |-> Reverse(@[k])]]
  /\ UNCHANGED <<map, disk, replaced, elided, found, SPU, data, written>>

(* Mutant: the numbers start again with every program. *)
ListAgain ==
  /\ pc = "list"
  /\ pc' = "destroy"
  /\ \E listing \in {{program}, {}} :
       listings' = [n \in {0} |-> listing]
  /\ counter' = 1
  /\ UNCHANGED <<map, disk, replaced, elided, found, extracted>>

(* The analysis (ProgramAnalysis) and the two files, which get the number  *)
(* whether they can be opened or not.                                      *)
List ==
  /\ pc = "list"
  /\ \/ /\ pc' = "destroy"
        /\ counter' = counter + 1
        /\ \E listing \in {{program}, {}} :
             listings' = [n \in DOMAIN listings \cup {counter} |->
                            IF n = counter THEN listing ELSE listings[n]]
     \/ /\ pc' = "lost"
        /\ UNCHANGED written
  /\ UNCHANGED <<map, disk, replaced, elided, found, extracted>>

Destroy ==
  /\ pc = "destroy"
  /\ pc' = "each"
  /\ MM!Close(Object)
  /\ SPU' = Nothing /\ program' = Nothing /\ data' = Nothing
  /\ UNCHANGED <<disk, replaced, elided, found, written>>

Next ==
  \/ OpenAndCopy \/ CloseCopy \/ Scan
  \/ OpenElf \/ Construct \/ CopyElf \/ DropTemporary
  \/ Extract \/ spuSwitchEndianness \/ List \/ Destroy
  \/ Replace

Spec == Init /\ [][Next]_vars

-----------------------------------------------------------------------------

Scanned == pc \notin {"open", "close", "scan", "lost"}

(* The search finds the images of SPUs, in order, a header's size apart;   *)
(* one it misses begins within the header of another image or of what is   *)
(* taken for one at 0, where no magic is asked for; and a machine that is  *)
(* behind the end of the file can be taken for an SPU's.                   *)
ScanFinds ==
  Scanned =>
    LET offsets == ToSet(ELF_offsets)
        machine(p) == ByteAt(fraw, p + MachineAt)
        ours == {p \in 0 .. Len(fraw) - 1 :
                   MagicAt(fraw, p) /\ machine(p) = {ELF_SPU_ARCH_ID}}
    IN /\ \A i \in 2 .. Len(ELF_offsets) :
            ELF_offsets[i] >= ELF_offsets[i - 1] + HeaderSize
       /\ \A p \in offsets :
            /\ p = 0 \/ MagicAt(fraw, p)
            /\ ELF_SPU_ARCH_ID \in machine(p)
       /\ \A p \in ours \ offsets :
            \E q \in p - HeaderSize + 1 .. p - 1 : q = 0 \/ MagicAt(fraw, q)
       /\ machine(0) = {ELF_SPU_ARCH_ID} => 0 \in offsets

(* What a listing should show of the image at an offset: its first segment,*)
(* every word most significant byte first in the file and last in memory.  *)
Program(image) ==
  LET text == image.phdrs[1]
  IN [EntryPoint |-> image.header.e_entry,
      VirtualBaseAddress |-> text.p_vaddr,
      Binary |-> [k \in 1 .. text.p_filesz \div 4 |->
                    Reverse(image.words[text.p_offset + 4 * (k - 1)])]]

ProgramsAt(content, p) ==
  {Program(image) : image \in {i \in ImagesAt(content, p) : i.phdrs # <<>>}}

(* Listing n is of the n-th offset of the search, numbers are never used   *)
(* twice and none is left out.  It shows the image that was there when the *)
(* file was opened for it, every word of it from then; which has the bytes *)
(* the search went through only if nobody replaced the file in between.    *)
ListingsMatch ==
  /\ DOMAIN listings = 0 .. counter - 1
  /\ counter \in {next - 1, next} \/ next = 0
  /\ pc \in {"each", "returned"} => counter = next
  /\ \A n \in DOMAIN listings :
       listings[n] \subseteq ProgramsAt(opened[n + 1], ELF_offsets[n + 1])
  /\ \A i \in DOMAIN opened :
       opened[i].bytes = fraw \/ fraw = <<>> \/ replaced > 0

(* The file is mapped while an image is used, and nothing is mapped or     *)
(* allocated in between and at the end - if the copy of the ElfFile was    *)
(* left out.  If it was made, the temporary takes the file away from its   *)
(* copy, and nothing is ever listed.  A constructor that throws leaves the *)
(* file mapped.                                                            *)
CacheReleased ==
  /\ pc \in {"scan", "each", "returned"} => live = {} /\ ~Mapped
  /\ pc \in {"extract", "switch", "list", "destroy"} => (Accessible <=> elided)
  /\ ~elided => listings = <<>>
  /\ pc = "thrown" => live # {} /\ Mapped

-----------------------------------------------------------------------------

(* The parts of the inductive invariant behind the three properties above. *)

TypeOK ==
  /\ pc \in {"open", "close", "scan", "each", "construct", "duplicate", "drop",
            "extract", "switch", "list", "destroy", "returned", "lost", "thrown"}
  /\ elided \in BOOLEAN
  /\ counter \in Nat /\ replaced \in Nat
  /\ fraw \in Seq(Nat) /\ ELF_offsets \in Seq(Nat)
  /\ disk \in Contents \cup Replacements
  /\ opened \in Seq(Contents \cup Replacements)

Closed == MappedFiles[Eboot] = MM!NoRecord /\ live = {} /\ ~Mapped

(* The record of the file is the one this client made when it opened it. *)
OpenedBy(client) ==
  LET h == raw_file_[client]
  IN /\ h \in Handle
     /\ MappedFiles[Eboot] = [first |-> 1, second |-> h]
     /\ live = {h}
     /\ begin_[h] = data_[client]
     /\ \A v \in View : backing[v] = IF v = data_[client] THEN Eboot ELSE NULL

(* Who has the file open, and which pointer into it is used, at every step.*)
CacheInv ==
  /\ MM!TypeOK
  /\ pc \in {"open", "scan", "each", "returned"} => Closed
  /\ pc = "close" => OpenedBy("bearelf")
  /\ pc \in {"construct", "duplicate", "drop", "thrown"} => OpenedBy("temporary")
  /\ pc \in {"duplicate", "drop", "thrown"} => data_["temporary"] # NULL
  /\ pc \in {"duplicate", "drop"} => ~elided
  /\ pc = "drop" => data_["SPU"] = data_["temporary"]
  /\ pc \in {"extract", "switch", "list", "destroy"} =>
       IF elided THEN OpenedBy("temporary") /\ data_["temporary"] # NULL
                 ELSE pc = "extract" /\ Closed /\ data_["SPU"] \in View
  /\ ~elided => listings = <<>>

MachineOf(p) == ByteAt(fraw, p + MachineAt)

(* What the search has made of the file up to a frontier. *)
SearchedTo(frontier) ==
  /\ \A i \in 2 .. Len(ELF_offsets) :
       ELF_offsets[i] >= ELF_offsets[i - 1] + HeaderSize
  /\ \A i \in 1 .. Len(ELF_offsets) :
       /\ ELF_offsets[i] = 0 \/ MagicAt(fraw, ELF_offsets[i])
       /\ ELF_SPU_ARCH_ID \in MachineOf(ELF_offsets[i])
  /\ \A p \in 0 .. Len(fraw) - 1 :
       \/ p >= frontier
       \/ \E i \in 1 .. Len(ELF_offsets) : ELF_offsets[i] = p
       \/ ~(MagicAt(fraw, p) /\ MachineOf(p) = {ELF_SPU_ARCH_ID})
       \/ \E q \in p - HeaderSize + 1 .. p - 1 : q = 0 \/ MagicAt(fraw, q)

FirstTaken ==
  MachineOf(0) = {ELF_SPU_ARCH_ID} =>
    \E i \in 1 .. Len(ELF_offsets) : ELF_offsets[i] = 0

SearchInv ==
  /\ pc \in {"open", "close"} => ELF_offsets = <<>> /\ off = 0
  /\ pc = "scan" =>
       /\ off \in Nat \cup {Npos}
       /\ SearchedTo(IF off = Npos THEN Len(fraw) ELSE off)
       /\ off = 0 => ELF_offsets = <<>>
       /\ off # 0 => FirstTaken
       /\ off \in Nat \ {0} => MagicAt(fraw, off)
       /\ off # Npos =>
            \A i \in 1 .. Len(ELF_offsets) : ELF_offsets[i] + HeaderSize <= off
  /\ Scanned => SearchedTo(Len(fraw)) /\ FirstTaken

(* The program before its words are turned around. *)
Unswitched(image) ==
  LET text == image.phdrs[1]
  IN [EntryPoint |-> image.header.e_entry,
      VirtualBaseAddress |-> text.p_vaddr,
      Binary |-> [k \in 1 .. text.p_filesz \div 4 |->
                    image.words[text.p_offset + 4 * (k - 1)]]]

(* Which offset the file is at, *)
NumberInv ==
  /\ next \in 0 .. Len(ELF_offsets)
  /\ DOMAIN listings = 0 .. counter - 1
  /\ pc \in {"open", "close", "scan"} => next = 0 /\ counter = 0
  /\ pc \in {"each", "returned", "destroy"} => counter = next
  /\ pc \in {"construct", "duplicate", "drop", "thrown", "extract", "switch", "list"} =>
       next = counter + 1 /\ off = ELF_offsets[next]
  /\ pc = "lost" => counter \in {next - 1, next} \/ next = 0

(* what was opened there, which nobody replaces while it is mapped, *)
OpenedInv ==
  /\ Len(opened) = next
  /\ pc \in {"construct", "duplicate", "drop", "extract"} /\ Mapped =>
       opened[next] = disk
  /\ replaced = 0 =>
       /\ fraw \in {<<>>, disk.bytes}
       /\ \A i \in DOMAIN opened : opened[i] = disk

(* and what was taken from there. *)
ShownInv ==
  /\ pc = "switch" =>
       \E image \in ImagesAt(opened[next], off) :
         image.phdrs # <<>> /\ program = Unswitched(image)
  /\ pc = "list" => program \in ProgramsAt(opened[next], off)
  /\ \A n \in DOMAIN listings :
       listings[n] \subseteq ProgramsAt(opened[n + 1], ELF_offsets[n + 1])

ListInv == NumberInv /\ OpenedInv /\ ShownInv

IInv == TypeOK /\ CacheInv /\ SearchInv /\ ListInv
=============================================================================
