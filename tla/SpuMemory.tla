------------------------------ MODULE SpuMemory -----------------------------
(***************************************************************************)
(* Loads and stores of spu_emu_mem.cpp.  The local storage is an array of  *)
(* bytes; a load or store moves the 16 bytes at its address, cut down to a *)
(* multiple of 16 and to the size of the storage, with _mm_loadr_ps and    *)
(* _mm_storer_ps, which reverse the four words.                            *)
(*                                                                         *)
(* The masks LSLR and -16 are written as remainders: the size is a power   *)
(* of two, 16 * 2^14 bytes in the code.  They leave 18 bits of a 32-bit    *)
(* sum, so the top byte of a word is left out.                             *)
(***************************************************************************)
EXTENDS SpuState

CONSTANTS
  Lines,   \* the size of the local storage in quadwords
  Imm10,   \* the values of I10 looked at
  Imm16    \* the values of I16 looked at

ASSUME LinesAssumption == Lines \in Nat \ {0}
ASSUME ImmAssumption == Imm10 \subseteq 0 .. 1023 /\ Imm16 \subseteq 0 .. 65535

LSSize == 16 * Lines

VARIABLES
  LocalStorage,   \* the bytes of the local storage
  address         \* of the last load or store, before it was cut down

memoryVars == <<GPR, LocalStorage, address>>

MemoryTypeOK ==
  /\ GPR \in [Reg -> Quad]
  /\ LocalStorage \in [0 .. LSSize - 1 -> Byte]
  /\ address \in Int

(* SPU_t::SPU_t clears the storage.  The registers hold anything. *)
MemoryInit ==
  /\ GPR \in [Reg -> Quad]
  /\ LocalStorage = [a \in 0 .. LSSize - 1 |-> 0]
  /\ address = 0

-----------------------------------------------------------------------------

(* SignExtend( x, bits ), the sign of a number of so many bits. *)
SignExtend(x, bits) == IF x < 2^(bits - 1) THEN x ELSE x - 2^bits

(* No handler that is compiled moves the instruction pointer. *)
IP == 0

(* ... & SPU_t::SPU_LSLR & -16 *)
LSA(x) ==
  LET a == x % LSSize IN a - (a % 16)

(* Which byte of a quadword goes with which when the words are reversed.   *)
Reversed(j) == 4 * (3 - (j \div 4)) + (j % 4)

(* Mutant: a load reverses the bytes, too. *)
LoadReversed(RT, x) ==
  /\ GPR' = [GPR EXCEPT ![RT] =
               [j \in Index |-> LocalStorage[LSA(x) + 15 - j]]]
  /\ address' = x
  /\ UNCHANGED LocalStorage

COPY_LSA_TO_GPR(RT, x) ==
  /\ GPR' = [GPR EXCEPT ![RT] =
               [j \in Index |-> LocalStorage[LSA(x) + Reversed(j)]]]
  /\ address' = x
  /\ UNCHANGED LocalStorage

(* Mutant: the words are not reversed. *)
StoreUnreversed(RT, x) ==
  /\ LocalStorage' = [a \in DOMAIN LocalStorage |->
                        IF a - LSA(x) \in Index
                        THEN GPR[RT][a - LSA(x)] ELSE LocalStorage[a]]
  /\ address' = x
  /\ UNCHANGED GPR

COPY_GPR_TO_LSA(RT, x) ==
  /\ LocalStorage' = [a \in DOMAIN LocalStorage |->
                        IF a - LSA(x) \in Index
                        THEN GPR[RT][Reversed(a - LSA(x))]
                        ELSE LocalStorage[a]]
  /\ address' = x
  /\ UNCHANGED GPR

(* The four ways to an address: displacement, index, absolute, relative.   *)
AddressD(RA, I10) == PrefWord(GPR[RA]) + SignExtend(16 * I10, 14)
AddressX(RA, RB) == PrefWord(GPR[RA]) + PrefWord(GPR[RB])
AddressA(I16) == SignExtend(4 * I16, 18)
AddressR(I16) == SignExtend(4 * I16, 18) + IP

spu_lqd(RT, RA, I10) == COPY_LSA_TO_GPR(RT, AddressD(RA, I10))
spu_lqx(RT, RA, RB) == COPY_LSA_TO_GPR(RT, AddressX(RA, RB))
spu_lqa(RT, I16) == COPY_LSA_TO_GPR(RT, AddressA(I16))
spu_lqr(RT, I16) == COPY_LSA_TO_GPR(RT, AddressR(I16))
spu_stqd(RT, RA, I10) == COPY_GPR_TO_LSA(RT, AddressD(RA, I10))
spu_stqx(RT, RA, RB) == COPY_GPR_TO_LSA(RT, AddressX(RA, RB))
spu_stqa(RT, I16) == COPY_GPR_TO_LSA(RT, AddressA(I16))
spu_stqr(RT, I16) == COPY_GPR_TO_LSA(RT, AddressR(I16))

MemoryNext ==
  \E RT \in Reg :
    \/ \E RA \in Reg, I10 \in Imm10 :
         spu_lqd(RT, RA, I10) \/ spu_stqd(RT, RA, I10)
    \/ \E RA, RB \in Reg : spu_lqx(RT, RA, RB) \/ spu_stqx(RT, RA, RB)
    \/ \E I16 \in Imm16 : spu_lqa(RT, I16) \/ spu_stqa(RT, I16)
    \/ \E I16 \in Imm16 : spu_lqr(RT, I16) \/ spu_stqr(RT, I16)

MemorySpec == MemoryInit /\ [][MemoryNext]_memoryVars

-----------------------------------------------------------------------------

(* The quadwords a load can get at. *)
QuadAt(line) == [j \in Index |-> LocalStorage[16 * line + Reversed(j)]]

Abstract ==
  INSTANCE QuadStore WITH storage <- [line \in 0 .. Lines - 1 |-> QuadAt(line)]

(* The bytes of the storage implement one quadword a line: no load or store *)
(* touches two lines or leaves the storage, whatever the address is, and   *)
(* what a store puts into a line is what the next load gets out.           *)
StoreSpec == Abstract!Spec

(* "reverse byte order when moving qwords between GPRS and local storage.  *)
(* LS: big endian, GPR: little endian" is not what a load does: it reverses *)
(* the words, so the bytes come out in reverse order exactly when each     *)
(* word of the line reads the same from both ends.                         *)
BytesReversedExcept ==
  [][\A RT \in Reg : GPR'[RT] # GPR[RT] =>
       LET line == LSA(address')
       IN (\A j \in Index : GPR'[RT][j] = LocalStorage[line + 15 - j])
            <=> \A j \in Index :
                  LocalStorage[line + j] =
                    LocalStorage[line + 4 * (j \div 4) + 3 - (j % 4)]]_memoryVars
=============================================================================
