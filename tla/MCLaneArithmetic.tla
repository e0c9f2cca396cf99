------------------------- MODULE MCLaneArithmetic ---------------------------
(* Either a chain of two-word instructions runs, on every pair of numbers, *)
(* or a single intrinsic, on every pair of operands with every immediate   *)
(* and addends at the edges and inside.  The other has been run already,   *)
(* on zeros.  Lanes have four bits with halves of two.                     *)
EXTENDS MultiWord, Intrinsics

ChainRan ==
  /\ op = "add" /\ done = 2 /\ carry = 0
  /\ RA = <<0, 0>> /\ RB = <<0, 0>> /\ RT = <<0, 0>>

IntrinsicRan ==
  /\ insn = "mpyu" /\ rt = 0
  /\ ra = 0 /\ rb = 0 /\ rc = 0 /\ imm = 0

MCInit ==
  \/ Init /\ IntrinsicRan
  \/ LaneInit /\ rc \in {0, 3, Modulus - 1} /\ ChainRan

MCNext ==
  \/ Next /\ UNCHANGED laneVars
  \/ LaneNext /\ UNCHANGED vars

MCSpec == MCInit /\ [][MCNext]_<<vars, laneVars>>
=============================================================================
