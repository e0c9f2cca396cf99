---------------------------- MODULE PseudoForms -----------------------------
(***************************************************************************)
(* The pseudo code spu_pseudo.cpp prints for an instruction: a template    *)
(* whose placeholders, $RT$, $IMM$, ..., spu_make_pseudo replaces by the   *)
(* operands of the word.  A template is the set of its placeholders; the   *)
(* text around them and the numbers' layout are left out.                  *)
(***************************************************************************)
EXTENDS InsnWord

(* CustomIntrins: templates for single mnemonics.  Most of the table is    *)
(* inside comments; mnemonics without an opcode of their own are left out. *)
Forms(ops, placeholders) == ops \X {placeholders}

CustomConstants ==
  Forms({\h20c, \h208, \h204, \h194}, {"RT", "IMM"})
    \cup Forms({\h210}, {"RT", "IMM18"})
    \cup Forms({\h304}, {"RT", "RA", "IMM"})

CustomFloats ==
  Forms({\h3b4, \h3b0, \h3b6, \h3b2}, {"RT", "RA", "IMM"})
    \cup Forms({\h3b9, \h3b8}, {"RT", "RA"})
    \cup Forms({\h3c2, \h3ca, \h2c2, \h2ca}, {"RT", "RA", "RB"})

CustomControl ==
  Forms({\h000}, {"IMM"})
    \cup Forms({\h140}, {"RT", "RA", "RB"})
    \cup Forms({\h002, \h003, \h398, \h001, \h201}, {})
    \cup Forms({\h00c}, {"RT", "IMM"})
    \cup Forms({\h3ba}, {"RA"})
    \cup Forms({\h00d, \h00f}, {"RT", "CA"})
    \cup Forms({\h10d}, {"CA", "RA"})
    \cup Forms({\h1ac}, {"RA", "BRTARG"})
    \cup Forms({\h080, \h090}, {"BRINST", "BRTARG"})

CustomMemory ==
  Forms({\h1a0, \h120}, {"RT", "RA", "IMM"})
    \cup Forms({\h1c4, \h144}, {"RT", "RA", "RB"})
    \cup Forms({\h184, \h104}, {"RT", "IMM"})
    \cup Forms({\h19c, \h11c}, {"RT", "ADDR_REL"})

CustomBranches ==
  Forms({\h118, \h110, \h108, \h100, \h198, \h188}, {"RT", "IMM"})
    \cup Forms({\h12b, \h12a, \h129, \h128, \h1a9}, {"RT", "RA"})
    \cup Forms({\h190, \h180}, {"IMM"})
    \cup Forms({\h1a8}, {"RA"})
    \cup Forms({\h1aa, \h1ab}, {})

CustomForms ==
  CustomConstants \cup CustomFloats \cup CustomControl \cup CustomMemory
    \cup CustomBranches

CustomIntrins ==
  [o \in {entry[1] : entry \in CustomForms} |->
     (CHOOSE entry \in CustomForms : entry[1] = o)[2]]

(* IntrinsicTemplates: the form every other instruction of a type has. *)
IntrinsicTemplates ==
  [RRR  |-> {"RT", "RA", "RB", "RC"},
   RR   |-> {"RT", "RA", "RB"},
   RI7  |-> {"RT", "RA", "IMM"},
   RI8  |-> {"RT", "RA", "IMM"},
   RI10 |-> {"RT", "RA", "IMM"},
   RI16 |-> {"RT", "RA", "IMM"},
   RI18 |-> {"RT", "RA", "IMM18"},
   LBT  |-> {},
   LBTI |-> {}]

(* Mutant: every instruction has the form of its type. *)
GetIntrinsicFormPlain(opcode, type) == IntrinsicTemplates[type]

GetIntrinsicForm(opcode, type) ==
  IF opcode \in DOMAIN CustomIntrins THEN CustomIntrins[opcode]
                                     ELSE IntrinsicTemplates[type]

-----------------------------------------------------------------------------

(* The placeholders replaced for a type: RRR falls through RR, and RR      *)
(* through the immediate types.                                            *)
Replaced(type) ==
  {"RT"} \cup
    CASE type = "RRR" -> {"RC", "RB", "CA", "RA", "IMM", "ADDR_REL"}
      [] type = "RR" -> {"RB", "CA", "RA", "IMM", "ADDR_REL"}
      [] type \in {"RI7", "RI8", "RI10", "RI16"} -> {"RA", "IMM", "ADDR_REL"}
      [] type = "RI18" -> {"RA", "IMM18"}
      [] OTHER -> {"RA", "BRINST", "BRTARG"}

(* 0x3fff0 & (IP + IMM * 2) *)
LineOf(address) == 16 * (Cut(address, 262144) \div 16)
AddrRel(comp, IP) == LineOf(IP + comp.IMM * 2)

(* What replaces each placeholder. *)
Replacements(comp, IP) ==
  [RT |-> comp.RT, RA |-> comp.RA, RB |-> comp.RB, RC |-> comp.RC,
   CA |-> comp.RA, IMM |-> comp.IMM, ADDR_REL |-> AddrRel(comp, IP),
   IMM18 |-> Cut(comp.IMM, 262144), BRINST |-> comp.IMM, BRTARG |-> comp.BRTARG]

spu_make_pseudo(opcode, type, comp, IP) ==
  LET form == GetIntrinsicForm(opcode, type)
  IN [left |-> form \ Replaced(type),
      shown |-> [p \in form \cap Replaced(type) |->
                   Replacements(comp, IP)[p]]]
=============================================================================
