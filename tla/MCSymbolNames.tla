---------------------------- MODULE MCSymbolNames ---------------------------
(* Every string table of five characters, with a symbol at each of them and*)
(* one behind; a table that is a character shorter, or empty; and an image *)
(* without one.                                                            *)
EXTENDS SymbolNames

Section(name, offset, size) ==
  [sh_name |-> name, sh_offset |-> offset, sh_size |-> size]

(* "", ".strtab", ".symtab", and from 6 on the names. *)
Image(names, size, shstrndx) ==
  LET strings == <<0, 5, 6, 0, 7, 0>> \o names \o <<0, 0>>
  IN [header |-> [e_entry |-> 100, e_phnum |-> 1, e_shnum |-> 4,
                  e_shstrndx |-> shstrndx],
      phdrs |-> <<[p_offset |-> 0, p_vaddr |-> 64, p_filesz |-> 4]>>,
      shdrs |-> <<Section(0, 0, 0), Section(0, 0, 6), Section(1, 6, size),
                  Section(4, 0, 6 * 16)>>,
      symbols |-> [k \in 1 .. 6 |-> [st_name |-> k - 1]],
      words |-> [a \in {0} |-> <<1, 2, 3, 4>>],
      strings |-> [i \in 0 .. 12 |-> strings[i + 1]]]

MCImages ==
  {Image(names, 5, 1) : names \in [1 .. 5 -> {0, 1}]}
  \cup {Image(<<0, 1, 1, 0, 1>>, size, 1) : size \in {0, 4}}
  \cup {Image(<<0, 1, 1, 0, 1>>, 5, 0)}
=============================================================================
