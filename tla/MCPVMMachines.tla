---------------------------- MODULE MCPVMMachines ----------------------------
(* Small programs for the inner machines: one byte is one bit, so that the  *)
(* address space has 16 bytes in 8 pages, the guard zone is the first four  *)
(* and a dynamic jump to 12 halts.                                          *)
EXTENDS PVMMachines

Ins(i, args) == <<i>> \o [k \in 1 .. args |-> Arg]
Op(type, op) == [type |-> type, op |-> op, a |-> 0, b |-> 1, x |-> 0, y |-> 0, lx |-> 0,
                 n |-> 1, signed |-> FALSE, cond |-> "eq"]
Program(cells, table) == [cells |-> cells, table |-> table, gas |-> [s \in 0 .. 15 |-> 1 + (s % 2)]]

\* Stores two bytes at 8 for ever.
StoreLoop == Program(Ins([Op("imm_imm", "store_imm") EXCEPT !.lx = 4, !.x = 8, !.y = 1, !.n = 2], 6)
                     \o Ins([Op("offset", "jump") EXCEPT !.x = 9], 4), <<>>)
\* A host call, then a dynamic jump: back, to itself, into a block, or to the halt address.
HostThenJump == Program(Ins([Op("imm", "ecalli") EXCEPT !.x = 1], 2)
                        \o Ins(Op("none", "unlikely"), 0) \o Ins(Op("none", "fallthrough"), 0)
                        \o Ins(Op("reg_imm", "jump_ind"), 1), <<0, 3>>)
\* A dynamic jump by -1 or by -2.
ShortJump == Program(Ins(Op("none", "fallthrough"), 0) \o Ins(Op("none", "unlikely"), 0)
                     \o Ins(Op("reg_imm", "jump_ind"), 1), <<1, 0>>)
\* Loads and stores at the address in register 1, across pages; then a conditional loop.
CopyAcross == Program(Ins([Op("reg_reg_imm", "load_ind") EXCEPT !.n = 2, !.signed = TRUE], 1)
                      \o Ins([Op("reg_reg_imm", "store_ind") EXCEPT !.n = 4], 1)
                      \o Ins([Op("reg_reg_offset", "branch") EXCEPT !.x = 12, !.cond = "ne"], 5)
                      \o Ins(Op("none", "trap"), 0), <<>>)
\* Jumps that load a register first, the first one the register it jumps to.
LoadJump == Program(Ins([Op("reg_reg_imm_imm", "load_imm_jump_ind") EXCEPT !.b = 0, !.lx = 1, !.x = 1], 3)
                    \o Ins([Op("reg_imm_offset", "load_imm_jump") EXCEPT !.a = 1, !.lx = 1, !.y = 8], 6), <<4>>)
\* A full-width immediate and a direct store.
LoadStore == Program(Ins([Op("reg_ext_imm", "load_imm_64") EXCEPT !.x = 85], 9)
                     \o Ins([Op("reg_imm", "store") EXCEPT !.x = 4], 4) \o Ins(Op("none", "trap"), 0), <<>>)
\* A branch on an immediate over an indirect store and a direct load.
BranchStore == Program(Ins([Op("reg_imm", "load_imm") EXCEPT !.x = 1], 2)
                       \o Ins([Op("reg_imm_offset", "branch_imm") EXCEPT !.y = 6, !.cond = "lt_s"], 5)
                       \o Ins([Op("reg_imm_imm", "store_imm_ind") EXCEPT !.a = 1, !.y = 1], 2)
                       \o Ins([Op("reg_imm", "load") EXCEPT !.x = 4, !.signed = TRUE], 4), <<>>)
\* A jump out of the code.
BadJump == Program(Ins([Op("offset", "jump") EXCEPT !.x = 1], 1), <<>>)
\* Not valid: the last instruction does not end a block.
Unfinished == Program(Ins(Op("none", "unlikely"), 0), <<>>)
Unknown == Program(<<Illegal>>, <<>>)

MCCodes ==
    [StoreLoop |-> StoreLoop, HostThenJump |-> HostThenJump, ShortJump |-> ShortJump,
     CopyAcross |-> CopyAcross, LoadJump |-> LoadJump, LoadStore |-> LoadStore,
     BranchStore |-> BranchStore, BadJump |-> BadJump, Unfinished |-> Unfinished,
     Unknown |-> Unknown]
MCRegisters == {0, 1}
MCFrames == {<<12, 8>>, <<2, 11>>, <<4, 12>>}
Frame(p) == [r \in MCRegisters |-> p[r + 1]]
MCFrameSet == {Frame(p) : p \in MCFrames}
MCPageArgs == {<<4, 2, 2>>, <<4, 1, 0>>, <<5, 1, 3>>, <<6, 1, 2>>, <<1, 1, 2>>, <<7, 1, 1>>, <<4, 1, 5>>}
MCCopyArgs == {<<8, 8, 2>>, <<10, 9, 2>>, <<8, 13, 2>>, <<8, 3, 0>>}
MCOuterMemory == [r |-> {4, 5}, w |-> {4}, data |-> [a \in Addr |-> IF a \in {10, 11} THEN 1 ELSE 0]]
=============================================================================
