------------------------------- MODULE MCOpDb -------------------------------
(* The real table and every value of the 11 bits.  A call leaves nothing   *)
(* behind but the tables, so only the order of the calls is bounded: word  *)
(* 0 or the last word comes first, every word comes after the last word,   *)
(* and word 0 after every other word.                                      *)
EXTENDS DecoderLink

MCNext ==
  \E op \in CASE asked = -1 -> {0, Unknown}
              [] asked = Unknown -> Opcode
              [] OTHER -> {0} :
    spu_decode_op_opcode(op)

MCSpec == Init /\ [][MCNext]_vars
=============================================================================
