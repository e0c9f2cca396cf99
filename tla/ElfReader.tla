------------------------------ MODULE ElfReader -----------------------------
(***************************************************************************)
(* The constructor and the name lookups of ElfFile<ELF_32_traits_t>, elf_  *)
(* helper.h, over the ELF image at an offset of a mapped file.             *)
(*                                                                         *)
(* The fields of a struct of elf.h are stored most significant byte first; *)
(* ReverseBytesInRange, told the widths of the fields by a layout string,  *)
(* turns each around.  A field comes out right when its own bytes, and no  *)
(* others, were turned; otherwise it is Garbled.                           *)
(*                                                                         *)
(* An image is its header and the fields the code uses of its two tables,  *)
(* of its symbols, the words of its segments and the characters of its     *)
(* string tables, by offset; 0 ends a string.                              *)
(***************************************************************************)
EXTENDS Integers, Sequences, SequencesExt

Garbled == -1

Ones(n) == [i \in 1 .. n |-> 1]
Fours(n) == [i \in 1 .. n |-> 4]
Twos(n) == [i \in 1 .. n |-> 2]

(* The widths of the fields, by elf.h. *)
Elf32_Ehdr == Ones(16) \o Twos(2) \o Fours(5) \o Twos(6)
Elf32_Phdr == Fours(8)
Elf32_Shdr == Fours(10)
Elf32_Sym == Fours(3) \o Ones(2) \o Twos(1)

(* The layouts of ELF_32_traits_t. *)
header_layout == Ones(16) \o Twos(2) \o Fours(5) \o Twos(6)
pheader_layout == Fours(8)
sheader_layout == Fours(10)
symbol_layout == Fours(3) \o Ones(2) \o Twos(1)

(* The bytes of the first fields of some widths, the first byte of the     *)
(* k-th, and how many bytes they all have.                                 *)
BytesBefore(widths, k) == UNION {{j} \X (1 .. widths[j]) : j \in 1 .. k - 1}

FirstByte(widths, k) == 1 + Cardinality(BytesBefore(widths, k))

BytesOf(widths) == FirstByte(widths, Len(widths) + 1) - 1

RunOf(widths, i) ==
  {k \in DOMAIN widths :
     FirstByte(widths, k) <= i /\ i < FirstByte(widths, k) + widths[k]}

ReverseBytesInRange(data, range_map) ==
  [i \in DOMAIN data |->
     LET run == RunOf(range_map, i)
         k == CHOOSE r \in run : TRUE
     IN IF run = {} THEN data[i]
        ELSE data[2 * FirstByte(range_map, k) + range_map[k] - 1 - i]]

(* Which fields of a struct come out as they were stored. *)
FieldsRead(widths, layout) ==
  LET stored == [i \in 1 .. BytesOf(widths) |-> i]
      read == ReverseBytesInRange(stored, layout)
      field(s, k) == SubSeq(s, FirstByte(widths, k),
                            FirstByte(widths, k) + widths[k] - 1)
  IN {k \in DOMAIN widths : field(read, k) = Reverse(field(stored, k))}

HeaderFields == FieldsRead(Elf32_Ehdr, header_layout)
ProgramHeaderFields == FieldsRead(Elf32_Phdr, pheader_layout)
SectionHeaderFields == FieldsRead(Elf32_Shdr, sheader_layout)
SymbolFields == FieldsRead(Elf32_Sym, symbol_layout)

ReadField(fields, k, value) == IF k \in fields THEN value ELSE Garbled

-----------------------------------------------------------------------------

ReadHeader(h) ==
  LET Read(k, value) == ReadField(HeaderFields, k, value)
  IN [e_entry |-> Read(20, h.e_entry), e_phnum |-> Read(26, h.e_phnum),
      e_shnum |-> Read(28, h.e_shnum), e_shstrndx |-> Read(29, h.e_shstrndx)]

ReadProgramHeader(p) ==
  LET Read(k, value) == ReadField(ProgramHeaderFields, k, value)
  IN [p_offset |-> Read(2, p.p_offset), p_vaddr |-> Read(3, p.p_vaddr),
      p_filesz |-> Read(5, p.p_filesz)]

ReadSectionHeader(s) ==
  LET Read(k, value) == ReadField(SectionHeaderFields, k, value)
  IN [sh_name |-> Read(1, s.sh_name), sh_offset |-> Read(5, s.sh_offset),
      sh_size |-> Read(6, s.sh_size)]

ReadSymbol(s) == [st_name |-> ReadField(SymbolFields, 1, s.st_name)]

MemRange(offset, size) == [data_ |-> offset, length_ |-> size]

(* The end of the string at an offset: the first 0 from there on; a string *)
(* without one is read past the end of the image.                          *)
StringEnds(strings, from) ==
  {e \in DOMAIN strings : e >= from /\ strings[e] = 0}

Terminated(strings, from) == StringEnds(strings, from) # {}

CString(strings, from) ==
  LET end == Min(StringEnds(strings, from))
  IN SubSeq([i \in 1 .. end - from |-> strings[from + i - 1]], 1, end - from)

(* The first section of that name, as a set. *)
SectionNamed(names, name) ==
  {k \in DOMAIN names : names[k] = name /\ \A j \in 1 .. k - 1 : names[j] # name}

(* _ReadStringTable goes from the string at 0 to the one behind its end,   *)
(* until it is behind the table.                                           *)
StringTable(strings, table) ==
  LET starts == {at \in 0 .. table.length_ - 1 :
                   at = 0 \/ strings[table.data_ + at - 1] = 0}
  IN [at \in starts |-> CString(strings, table.data_ + at)]

strtab == <<5, 6>>   \* ".strtab"
symtab == <<7>>      \* ".symtab"

(* Is nothing outside the image read?  The section with the names must be  *)
(* one, every string must end, and a symbol table has whole symbols.       *)
Readable(image) ==
  LET shstrndx == image.header.e_shstrndx
      base == image.shdrs[shstrndx + 1].sh_offset
      names == [k \in DOMAIN image.shdrs |->
                  CString(image.strings, base + image.shdrs[k].sh_name)]
  IN shstrndx # 0 =>
       /\ shstrndx < image.header.e_shnum
       /\ \A s \in ToSet(image.shdrs) : Terminated(image.strings, base + s.sh_name)
       /\ \A k \in SectionNamed(names, strtab) :
            LET s == image.shdrs[k]
            IN s.sh_size > 0 =>
                 Terminated(image.strings, s.sh_offset + s.sh_size - 1)
       /\ \A k \in SectionNamed(names, symtab) :
            image.shdrs[k].sh_size % BytesOf(Elf32_Sym) = 0

(* The object the constructor leaves, when the image is Readable. *)
ElfFile(image) ==
  LET header == ReadHeader(image.header)
      phdrs == [k \in DOMAIN image.phdrs |-> ReadProgramHeader(image.phdrs[k])]
      shdrs == [k \in DOMAIN image.shdrs |-> ReadSectionHeader(image.shdrs[k])]
      sdata == [k \in DOMAIN shdrs |-> MemRange(shdrs[k].sh_offset, shdrs[k].sh_size)]
      names == IF header.e_shstrndx = 0 THEN <<>>
               ELSE [k \in DOMAIN shdrs |->
                       CString(image.strings,
                               sdata[header.e_shstrndx + 1].data_ + shdrs[k].sh_name)]
      tables(name) == {sdata[k] : k \in SectionNamed(names, name)}
  IN [HeaderLE_ |-> header,
      ProgramHeaders_ |-> phdrs,
      PData_ |-> [k \in DOMAIN phdrs |->
                    MemRange(phdrs[k].p_offset, phdrs[k].p_filesz)],
      SHNames_ |-> names,
      StringTBL_ |-> IF tables(strtab) = {} THEN <<>>
                     ELSE StringTable(image.strings,
                                      CHOOSE t \in tables(strtab) : TRUE),
      Symbols |-> IF tables(symtab) = {} THEN <<>>
                  ELSE LET t == CHOOSE t \in tables(symtab) : TRUE
                       IN [k \in 1 .. t.length_ \div BytesOf(Elf32_Sym) |->
                             ReadSymbol(image.symbols[k])]]

(* What an image can be: numbers in its fields, and as many symbols as the *)
(* table of them has room for.                                             *)
IsImage(image) ==
  /\ image.header \in [e_entry : Nat, e_phnum : Nat, e_shnum : Nat, e_shstrndx : Nat]
  /\ image.phdrs \in Seq([p_offset : Nat, p_vaddr : Nat, p_filesz : Nat])
  /\ image.shdrs \in Seq([sh_name : Nat, sh_offset : Nat, sh_size : Nat])
  /\ image.symbols \in Seq([st_name : Nat])
  /\ Readable(image) =>
       DOMAIN ElfFile(image).Symbols \subseteq DOMAIN image.symbols

(* Mutant: looking for a key that is absent leaves the table as it is. *)
GetSymbolNameByFind(elf, index) ==
  [name |-> IF index < Cardinality(DOMAIN elf.StringTBL_)
               /\ index \in DOMAIN elf.StringTBL_
            THEN elf.StringTBL_[index] ELSE <<>>,
   StringTBL_ |-> elf.StringTBL_]

(* The index is compared with the number of strings, though the table is   *)
(* looked up by where strings start.  What is absent is the empty string,  *)
(* which operator[] then also inserts: the table has one more.             *)
GetSymbolName(elf, index) ==
  LET bound == Cardinality(DOMAIN elf.StringTBL_)
      absent == IF index < bound THEN {index} \ DOMAIN elf.StringTBL_ ELSE {}
      table == [at \in DOMAIN elf.StringTBL_ \cup absent |->
                  IF at \in absent THEN <<>> ELSE elf.StringTBL_[at]]
  IN [name |-> IF index < bound THEN table[index] ELSE <<>>,
      StringTBL_ |-> table]
=============================================================================
