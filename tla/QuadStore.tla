------------------------------ MODULE QuadStore -----------------------------
(***************************************************************************)
(* What loads and stores of an SPU promise: the local storage holds one    *)
(* quadword a line, an address means the line it falls into, counted from  *)
(* the start again behind the last line, and a load returns what was       *)
(* stored into its line last.                                              *)
(***************************************************************************)
EXTENDS Integers

CONSTANTS
  Reg,     \* the registers
  Lines,   \* how many lines there are, at least one
  Quad     \* what a register or a line holds

VARIABLES
  GPR,       \* the registers
  storage,   \* the lines
  address    \* of the last load or store

vars == <<GPR, storage, address>>

Line == 0 .. Lines - 1

LineOf(a) == (a \div 16) % Lines

Init ==
  /\ GPR \in [Reg -> Quad]
  /\ storage \in [Line -> Quad]
  /\ address = 0

Load(RT) ==
  /\ address' \in Int
  /\ GPR' = [GPR EXCEPT ![RT] = storage[LineOf(address')]]
  /\ UNCHANGED storage

Store(RT) ==
  /\ address' \in Int
  /\ storage' = [storage EXCEPT ![LineOf(address')] = GPR[RT]]
  /\ UNCHANGED GPR

Next == \E RT \in Reg : Load(RT) \/ Store(RT)

Spec == Init /\ [][Next]_vars
=============================================================================
