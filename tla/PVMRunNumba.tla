--------------------------- MODULE PVMRunNumba ------------------------------
(***************************************************************************)
(* The execution loop of the numba interpreter                             *)
(* (numba/interpreter_numba_jit.py, invoke_native) and its jumps, which    *)
(* tell their outcome by a number.                                         *)
(***************************************************************************)
EXTENDS PVMCode, PVMMemory, PVMNumba

\* Whether pc + b, and the fallthrough of a conditional branch (-1: none), start blocks.
branch_jit(c, pc, b, fallthrough) ==
    /\ pc + b \in detect_basic_blocks[c]
    /\ fallthrough >= 0 => fallthrough \in detect_basic_blocks[c]

sjump_jit(c, vm, b) ==
    IF branch_jit(c, vm.pc, b, -1) THEN [vm EXCEPT !.skip = b] ELSE PanicError(vm)

Branch_jit(c, vm, b, cond) ==
    CASE ~branch_jit(c, vm.pc, b, vm.pc + vm.skip) -> PanicError(vm)
      [] branch_jit(c, vm.pc, b, vm.pc + vm.skip)  -> IF cond THEN [vm EXCEPT !.skip = b] ELSE vm

\* (Mutant) The last entry of the jump table is out of range.
djump_code_short(c, pc, a) ==
    LET index == a \div Align
    IN  CASE a = HaltAddress -> -1
          [] a # HaltAddress /\ (a = 0 \/ a % Align # 0 \/ a >= Len(Codes[c].table) * Align) -> -2
          [] OTHER -> IF Codes[c].table[index] \in detect_basic_blocks[c] THEN Codes[c].table[index] - pc ELSE -2

\* -1 stands for halt, -2 for panic, any other number is the distance to jump.
djump_code(c, pc, a) ==
    LET index == a \div Align
    IN  CASE a = HaltAddress -> -1
          [] a # HaltAddress /\ (a = 0 \/ a % Align # 0 \/ a > Len(Codes[c].table) * Align) -> -2
          [] OTHER -> IF Codes[c].table[index] \in detect_basic_blocks[c] THEN Codes[c].table[index] - pc ELSE -2

djump_jit(c, vm, a) ==
    LET code == djump_code(c, vm.pc, a)
    IN  CASE code = -1          -> Exit([vm EXCEPT !.skip = 0], "halt", 0)
          [] code = -2          -> PanicError(vm)
          [] code \notin {-1, -2} -> [vm EXCEPT !.skip = code]

-----------------------------------------------------------------------------
none_jit(c, vm, i) ==
    CASE i.op = "trap"        -> PanicError(vm)
      [] i.op = "fallthrough" -> sjump_jit(c, vm, vm.skip)
      [] i.op = "unlikely"    -> vm

\* The number of the host call is kept as a signed integer.
imm_jit(c, vm, i) == Exit(vm, "host_halt", I64(pvm_X_jit(i.x, l_only(c, vm.pc, 0))))

reg_ext_imm_jit(c, vm, i) == [vm EXCEPT !.reg[i.a] = i.x]

imm_imm_jit(c, vm, i) ==
    LET v_x == pvm_X_jit(i.x, l_first(i))
        v_y == pvm_X_jit(i.y, l_second(c, vm.pc, i, 1))
    IN  Stored(vm, mem_write_jit(vm.mem, v_x, i.n, v_y % 2^(i.n * B)))

offset_jit(c, vm, i) ==
    LET l_x == l_only(c, vm.pc, 0) IN sjump_jit(c, vm, pvm_Z_jit(i.x, l_x))

reg_imm_jit(c, vm, i) ==
    LET v_x == pvm_X_jit(i.x, l_only(c, vm.pc, 1))
        f   == mem_read_jit(vm.mem, v_x, i.n)
    IN  CASE i.op = "jump_ind" -> djump_jit(c, vm, U32(vm.reg[i.a] + v_x))
          [] i.op = "load_imm" -> [vm EXCEPT !.reg[i.a] = v_x]
          [] i.op = "load"     -> Loaded(vm, i.a, f, load_value_jit(i.signed, FALSE, f.value, i.n))
          [] i.op = "store"    ->
                Stored(vm, mem_write_jit(vm.mem, v_x, i.n, vm.reg[i.a] % 2^(i.n * B)))

reg_imm_imm_jit(c, vm, i) ==
    LET v_x == pvm_X_jit(i.x, l_first(i))
        v_y == pvm_X_jit(i.y, l_second(c, vm.pc, i, 1))
    IN  Stored(vm, mem_write_jit(vm.mem, U64(vm.reg[i.a] + v_x), i.n, v_y % 2^(i.n * B)))

\* load_imm_jump has set its register when the jump panics.
reg_imm_offset_jit(c, vm, i) ==
    LET v_x == pvm_X_jit(i.x, l_first(i))
        l_y == l_second(c, vm.pc, i, 1)
        v_y == pvm_Z_jit(i.y, l_y)
    IN  IF i.op = "load_imm_jump" THEN sjump_jit(c, [vm EXCEPT !.reg[i.a] = v_x], v_y)
        ELSE Branch_jit(c, vm, v_y, branch_on_jit(i.cond, vm.reg[i.a], v_x))

reg_reg_imm_mem_jit(c, vm, i) ==
    LET v_x  == pvm_X_jit(i.x, l_only(c, vm.pc, 1))
        addr == U64(vm.reg[i.b] + v_x)
        f    == mem_read_jit(vm.mem, addr, i.n)
    IN  IF i.op = "store_ind"
        THEN Stored(vm, mem_write_jit(vm.mem, addr, i.n, vm.reg[i.a] % 2^(i.n * B)))
        ELSE Loaded(vm, i.a, f, load_value_jit(i.signed, TRUE, f.value, i.n))

reg_reg_offset_jit(c, vm, i) ==
    LET l_x == l_only(c, vm.pc, 1)
    IN  Branch_jit(c, vm, pvm_Z_jit(i.x, l_x), branch_on_jit(i.cond, vm.reg[i.a], vm.reg[i.b]))

\* The register that is jumped to is read before the immediate is loaded.
reg_reg_imm_imm_jit(c, vm, i) ==
    LET v_x == pvm_X_jit(i.x, l_first(i))
        v_y == pvm_X_jit(i.y, l_second(c, vm.pc, i, 2))
    IN  djump_jit(c, [vm EXCEPT !.reg[i.a] = v_x], U32(vm.reg[i.b] + v_y))

Execute_jit(c, vm) ==
    LET i == at(c, vm.pc)
    IN  CASE i.type = "none"            -> none_jit(c, vm, i)
          [] i.type = "imm"             -> imm_jit(c, vm, i)
          [] i.type = "reg_ext_imm"     -> reg_ext_imm_jit(c, vm, i)
          [] i.type = "imm_imm"         -> imm_imm_jit(c, vm, i)
          [] i.type = "offset"          -> offset_jit(c, vm, i)
          [] i.type = "reg_imm"         -> reg_imm_jit(c, vm, i)
          [] i.type = "reg_imm_imm"     -> reg_imm_imm_jit(c, vm, i)
          [] i.type = "reg_imm_offset"  -> reg_imm_offset_jit(c, vm, i)
          [] i.type = "reg_reg_imm"     -> reg_reg_imm_mem_jit(c, vm, i)
          [] i.type = "reg_reg_offset"  -> reg_reg_offset_jit(c, vm, i)
          [] i.type = "reg_reg_imm_imm" -> reg_reg_imm_imm_jit(c, vm, i)

-----------------------------------------------------------------------------
\* A new interpreter for an inner machine: gas_paid restores the block charge.
invoke_jit(c, pc, gas, regs, m, gas_paid) ==
    [pc |-> pc, gas |-> gas, reg |-> regs, mem |-> m, skip |-> 0,
     status |-> IF is_valid(c, pc) THEN "resume" ELSE "panic", value |-> 0, paid |-> gas_paid]

\* After an instruction: only a running machine moves on; a terminator ends the block.
Advance_jit(c, vm) ==
    IF vm.status # "resume" THEN vm
    ELSE [vm EXCEPT !.paid = ~is_terminator(c, vm.pc), !.pc = U32(vm.pc + vm.skip)]

\* One round of the loop: fetch, charge the block, execute, advance.
Step_jit(c, vm) ==
    LET cost  == block_cost(c, vm.pc)
        paid  == [vm EXCEPT !.gas = IF vm.paid THEN @ ELSE @ - cost, !.paid = TRUE]
    IN  CASE vm.pc \notin inst_pos[c] -> PanicError(vm)
          [] vm.pc \in inst_pos[c] /\ ~vm.paid /\ vm.gas < cost -> Exit(vm, "out_of_gas", 0)
          [] OTHER -> Advance_jit(c, Execute_jit(c, [paid EXCEPT !.skip = inst_arg_len[c][vm.pc] + 1]))
=============================================================================
