----------------------------- MODULE MCSpuMemory ----------------------------
(* Two registers of 32 different bytes, whose preferred words point into   *)
(* the middle of two of four lines; displacements to the next and the last *)
(* line and past both ends; absolute addresses in the middle of a line.    *)
EXTENDS SpuMemory

MCInit ==
  /\ GPR = [r \in Reg |-> [j \in Index |-> 16 * r + j + 1]]
  /\ MemoryInit

MCSpec == MCInit /\ [][MemoryNext]_memoryVars
=============================================================================
