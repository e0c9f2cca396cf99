---------------------------- MODULE PlannedBytes ----------------------------
(***************************************************************************)
(* What RangePlanner (dump.cpp) promises, as a set of bytes: it starts as  *)
(* one range, and a call takes out the bytes it asks for, provided the     *)
(* first and the last of them are planned.  The two other cases are what   *)
(* the code does with a request that sticks out: nothing, when its first   *)
(* byte is not planned; and everything from its first byte on, when its    *)
(* last byte is not.                                                       *)
(***************************************************************************)
EXTENDS Naturals

CONSTANTS Lo, Hi   \* the range the planner is made with

VARIABLES
  planned,   \* the bytes still to be read
  request    \* the arguments of the last call

vars == <<planned, request>>

Init ==
  /\ planned = Lo .. Hi - 1
  /\ request = [begin |-> Lo, end |-> Lo]

Inside(begin, end) ==
  /\ begin < end /\ begin \in planned /\ end - 1 \in planned
  /\ planned' = planned \ (begin .. end - 1)

OpenEnded(begin, end) ==
  /\ begin < end /\ begin \in planned /\ end - 1 \notin planned
  /\ planned' = {x \in planned : x < begin}

Nothing(begin, end) ==
  /\ begin = end \/ begin \notin planned
  /\ UNCHANGED planned

Next ==
  \E begin, end \in Lo .. Hi + 1 :
    /\ request' = [begin |-> begin, end |-> end]
    /\ Inside(begin, end) \/ OpenEnded(begin, end) \/ Nothing(begin, end)

Spec == Init /\ [][Next]_vars
=============================================================================
