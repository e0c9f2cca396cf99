------------------------- MODULE MCProgramAnalysis -------------------------
(* Every program of four words over loops and ifs of several lengths, over *)
(* calls, returns and padding, and over calls, loops and ifs; every one of *)
(* three words, one less than are searched, over the other instructions    *)
(* that are looked at; and the shortest programs.                          *)
EXTENDS ProgramAnalysis

Call(imm) == PackRI16(\h198, 0, imm)
If(imm) == PackRI16(\h100, 3, imm)
Loop(imm) == PackRI16(\h118, 3, imm)
Goto(imm) == PackRI16(\h190, 0, imm)
Bi(ra) == PackRR(\h1a8, 0, ra, 0)
Binz(ra) == PackRR(\h129, 3, ra, 0)
Stopd == PackRR(\h140, 0, 0, 0)
Lqd(ra) == PackRI10(\h1a0, 3, ra, 2)
Stqx(ra) == PackRR(\h144, 3, ra, 1)
Lqr(imm) == PackRI16(\h19c, 3, imm)
Stqa(imm) == PackRI16(\h104, 3, imm)
Nop == PackRR(\h201, 0, 0, 0)

Over(words, size) == [0 .. size - 1 -> words]

Binaries ==
  Over({Nop, Loop(-1), Loop(0), If(1), If(2), If(3)}, 4)
    \cup Over({Nop, Bi(0), Zero, Call(-2), Call(1), Call(3)}, 4)
    \cup Over({Stopd, Binz(0), Binz(5), Lqd(1), Stqx(1), Lqd(2), Lqr(-3),
               Stqa(20000), Goto(-2), Goto(1), If(1)}, 3)
    \cup Over({Call(1), Call(-2), Loop(-1), If(1)}, 4)
    \cup Over({Nop, Zero}, 1) \cup Over({}, 0)

MCPrograms ==
  [Binary : Binaries, EntryPoint : {32, 40}, VirtualBaseAddress : {32}]

MCGarbage == {Nop, Bi(7)}
=============================================================================
