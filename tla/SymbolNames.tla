----------------------------- MODULE SymbolNames ----------------------------
(***************************************************************************)
(* An ElfFile (ElfReader) that is asked for the names of its symbols, in   *)
(* any order and as often as its user likes: GetSymbolName inserts what it *)
(* does not find, so an answer depends on what was asked before.           *)
(***************************************************************************)
EXTENDS ElfReader

CONSTANT Images   \* what the ElfFile may have been made of

ASSUME ImagesAssumption ==
  \A image \in Images : IsImage(image) /\ Readable(image)

VARIABLES
  source,   \* the image
  object,   \* the ElfFile
  asked,    \* the symbol whose name was asked for last, 0 at first
  answer,   \* what GetSymbolName returned
  missed    \* history: the offsets asked for where no string starts, but
            \* which were less than the number of strings and of these

namesVars == <<source, object, asked, answer, missed>>

(* The header of the section with the strings, as a set; where strings     *)
(* start in it; and how many there are with what was inserted.             *)
StringSections == {source.shdrs[t] : t \in SectionNamed(object.SHNames_, strtab)}

StringStarts(section) ==
  {at \in 0 .. section.sh_size - 1 :
     at = 0 \/ source.strings[section.sh_offset + at - 1] = 0}

Strings(section) == Cardinality(StringStarts(section)) + Cardinality(missed)

NamesInit ==
  /\ source \in Images
  /\ object = ElfFile(source)
  /\ asked = 0 /\ answer = <<>>
  /\ missed = {}

(* Somebody asks for the name of the k-th symbol. *)
AskName(k) ==
  LET found == GetSymbolName(object, object.Symbols[k].st_name)
      at == source.symbols[k].st_name
  IN /\ asked' = k
     /\ answer' = found.name
     /\ object' = [object EXCEPT !.StringTBL_ = found.StringTBL_]
     /\ missed' = IF \E section \in StringSections :
                       at < Strings(section) /\ at \notin StringStarts(section)
                  THEN missed \cup {at} ELSE missed
     /\ UNCHANGED source

NamesNext == \E k \in DOMAIN object.Symbols : AskName(k)

NamesSpec == NamesInit /\ [][NamesNext]_namesVars

-----------------------------------------------------------------------------

(* The ElfFile holds what the image says, whatever the byte order of this  *)
(* machine; but a symbol's name is found only if it starts a string of the *)
(* table and its offset is less than the number of strings and of offsets  *)
(* inserted: a name that was not found may be when it is asked for again.  *)
NamesFound ==
  /\ object.HeaderLE_ = source.header
  /\ object.ProgramHeaders_ = source.phdrs
  /\ asked # 0 =>
       \A section \in StringSections :
         LET at == source.symbols[asked].st_name
             name == CString(source.strings, section.sh_offset + at)
         IN answer = name <=>
              \/ name = <<>>
              \/ at \in StringStarts(section) /\ at < Strings(section)

-----------------------------------------------------------------------------

(* The inductive invariant behind it: nothing but the table changes, and   *)
(* it has an empty string for every offset that was missed.                *)
NamesInv ==
  LET made == ElfFile(source)
  IN /\ source \in Images
     /\ object = [made EXCEPT !.StringTBL_ = object.StringTBL_]
     /\ \A section \in StringSections :
          /\ missed \subseteq (0 .. section.sh_size - 1) \ StringStarts(section)
          /\ object.StringTBL_ =
               [at \in StringStarts(section) \cup missed |->
                  IF at \in missed THEN <<>>
                  ELSE CString(source.strings, section.sh_offset + at)]
     /\ NamesFound
=============================================================================
