----------------------------- MODULE MCQuadMove -----------------------------
(* Two registers with 32 different bytes but for the count in one of them, *)
(* at both sides of 8, 16, 32 and 128 of its bits; one instruction of      *)
(* every kind, with every immediate and every choice of registers.         *)
EXTENDS QuadMove

MCCounts == {0, 1, 7, 8, 15, 16, 31, 127, 128, 255}

MCRegisters ==
  {[r \in Reg |-> [j \in Index |->
      CASE j = 12 /\ r = 1 -> count
        [] j = 13 /\ r = 1 -> high
        [] OTHER -> 20 + 40 * r + j]] : count \in MCCounts, high \in {0, 3}}

MCInit == GPR \in MCRegisters /\ Init

MCNext ==
  \/ insn = NoInsn /\ Execute
  \/ RotateTurn \/ ShiftTurn \/ MaskTurn

MCSpec == MCInit /\ [][MCNext]_vars
=============================================================================
