------------------------------- MODULE PVMCode -------------------------------
(***************************************************************************)
(* The code of a PVM program as basic_block.py decodes it.  A program is   *)
(* known by a name; Codes gives for each name a record:                    *)
(*   cells   the bytes, each an instruction (where the opcode bitmask is   *)
(*           set) or Arg, an operand byte of the instruction before it;    *)
(*   table   the jump table;                                               *)
(*   gas     the price of each basic block (module GasModel computes it).  *)
(* Addresses count from 0.  An instruction is a record: its opcode op, its *)
(* InstructionType type, the registers a and b, the raw immediates x and   *)
(* y, the length lx that is encoded for x if there are two of them, and    *)
(* for a memory access the number of bytes n and whether it is signed.     *)
(* The interpreter decodes a program once; so do the functions below.      *)
(***************************************************************************)
EXTENDS PVMWords

CONSTANTS Codes,        \* the programs, by name
          MaxArgs       \* operand bytes of one instruction (24)

Arg == [op |-> "arg"]
Illegal == [op |-> "illegal"]    \* a byte at an instruction's position that is no opcode

Name == DOMAIN Codes
CodeLength(c) == Len(Codes[c].cells)
at(c, pc) == Codes[c].cells[pc + 1]

TERMINATION_OPCODES ==
    {"trap", "fallthrough", "jump", "jump_ind", "load_imm_jump", "load_imm_jump_ind",
     "branch_imm", "branch"}

inst_pos == [c \in Name |-> {pc \in 0 .. CodeLength(c) - 1 : at(c, pc).op # "arg"}]

\* The operand bytes after an instruction: up to the next one, or to the end.
inst_arg_len ==
    [c \in Name |-> [pc \in inst_pos[c] |->
        Min({q \in inst_pos[c] \cup {CodeLength(c)} : q > pc}) - pc - 1]]

is_terminator(c, pc) == at(c, pc).op \in TERMINATION_OPCODES

\* The whole blob: it starts with an instruction, every instruction is known and has
\* at most MaxArgs operand bytes, and the last one ends a block.
code_valid ==
    [c \in Name |->
        /\ CodeLength(c) > 0
        /\ 0 \in inst_pos[c]
        /\ \A pc \in inst_pos[c] : at(c, pc).op # "illegal" /\ inst_arg_len[c][pc] <= MaxArgs
        /\ is_terminator(c, Max(inst_pos[c]))]

is_valid(c, pc) == code_valid[c] /\ pc \in inst_pos[c]

detect_basic_blocks ==
    [c \in Name |-> {0} \cup {pc \in inst_pos[c] :
        \E q \in inst_pos[c] : is_terminator(c, q) /\ pc = q + inst_arg_len[c][q] + 1}]

get_block_start(c, pc) == Max({s \in detect_basic_blocks[c] : s <= pc})

\* (Mutant) A block that starts at 0 is taken for none.
block_cost_falsy(c, pc) ==
    LET s == get_block_start(c, pc) IN IF s = 0 THEN 0 ELSE Codes[c].gas[s]

block_cost(c, pc) == Codes[c].gas[get_block_start(c, pc)]

\* The lengths of the immediates of each type of instruction, from the operand bytes.
Least(m, n) == IF m < n THEN m ELSE n
Length(n) == IF n < 0 THEN 0 ELSE Least(4, n)
l_only(c, pc, before) == Length(inst_arg_len[c][pc] - before)
l_first(i) == Least(4, i.lx)
l_second(c, pc, i, before) == Length(inst_arg_len[c][pc] - l_first(i) - before)
=============================================================================
