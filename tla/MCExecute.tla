------------------------------ MODULE MCExecute -----------------------------
(* Files of up to four bytes, a header being two of them: headers at every *)
(* offset, next to and inside one another, cut off by the end, of other    *)
(* machines, and bytes at 0 that only look like one.  And one file for     *)
(* every way an image can be put together.                                 *)
EXTENDS Execute

(* "", ".strtab", ".symtab", and from 6 on "", two names and an end that   *)
(* is cut off or not.                                                      *)
Strings(last) ==
  LET s == <<0, 5, 6, 0, 7, 0, 0, 1, 2, 0, 3, last>>
  IN [i \in 0 .. 11 |-> s[i + 1]]

Segment(offset, size) == [p_offset |-> offset, p_vaddr |-> 64 + offset, p_filesz |-> size]
Section(name, offset, size) ==
  [sh_name |-> name, sh_offset |-> offset, sh_size |-> size]

Segments(count, size) ==
  [k \in 1 .. count |-> IF k = 1 THEN Segment(8, size) ELSE Segment(0, 4)]

Image(entry, segments, size, shstrndx, last, symbols) ==
  [header |-> [e_entry |-> entry, e_phnum |-> segments, e_shnum |-> 3,
               e_shstrndx |-> shstrndx],
   phdrs |-> Segments(segments, size),
   shdrs |-> <<Section(0, 0, 6), Section(1, 6, 6), Section(4, 0, symbols)>>,
   symbols |-> [k \in 1 .. 4 |-> [st_name |-> <<0, 1, 2, 4>>[k]]],
   words |-> [a \in {0, 4, 8, 12} |-> <<a, a + 1, a + 2, a + 3>>],
   strings |-> Strings(last)]

Plain(p) == Image(100 + p, 1, 8, 0, 0, 64)

Content(bytes) ==
  [bytes |-> bytes,
   elf |-> [p \in {q \in 0 .. Len(bytes) - 1 : MagicAt(bytes, q)} |-> Plain(p)]]

One == <<MAG, ELF_SPU_ARCH_ID, 0>>

Images ==
  {Image(100, segments, size, shstrndx, last, symbols) :
     segments \in 0 .. 3, size \in {6, 8}, shstrndx \in {0, 3},
     last \in {0}, symbols \in {64}}
  \cup {Image(100, 3, 8, 0, last, 64) : last \in {0, 4}}

(* The section with the names is the first, so its index is not 0 only if  *)
(* the sections are numbered from behind a null section.                   *)
Named(last, symbols) ==
  LET plain == Image(100, 2, 8, 1, last, symbols)
  IN [plain EXCEPT !.header.e_shnum = 4,
                   !.shdrs = <<Section(0, 0, 0)>> \o @]

MCContents ==
  {Content(bytes) : bytes \in UNION {[1 .. n -> {MAG, ELF_SPU_ARCH_ID, 0}] : n \in 0 .. 4}}
  \cup {[bytes |-> One, elf |-> (0 :> image)] : image \in
          Images \cup {Named(last, symbols) : last \in {0, 4}, symbols \in {64, 60, 32}}}

MCReplacements ==
  {[bytes |-> <<>>, elf |-> <<>>],
   [bytes |-> One, elf |-> (0 :> Image(200, 3, 4, 0, 0, 64))]}

MCNoise == {Image(300, 1, 4, 0, 0, 64), Image(300, 0, 4, 3, 0, 64)}
=============================================================================
